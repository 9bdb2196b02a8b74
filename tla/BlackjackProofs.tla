--------------------------- MODULE BlackjackProofs ---------------------------
(***************************************************************************)
(* Theorems about BlackjackTable, for any ranks of the deck, any number of *)
(* copies of each, any cut card and any limit on splits: the running count *)
(* is that of the cards the player has seen, and only an open hand is      *)
(* ever played.                                                            *)
(*                                                                         *)
(* The count of a table is off by what is hidden: by nothing between       *)
(* rounds (Shown), by the hole card while a round is played (Concealed).   *)
(* Showing cards keeps it as far off as it was (ExposedIs), because what   *)
(* their tags add up to place by place and rank by rank is the same        *)
(* (TagsByRank); turning the hole card puts it right, once (RevealedShows, *)
(* RevealedOnce); and the dealer shows every card he draws, however many   *)
(* (FourPlay).  The hands of a round are done or can be played (Playable), *)
(* and the active one is the first of the latter (Playing).                *)
(*                                                                         *)
(* Sums over finite sets are those of HandEndProofs, which are proved for  *)
(* any function; its parameters play no part and are given any value.      *)
(***************************************************************************)
EXTENDS BlackjackTable, FiniteSetTheorems, SequenceTheorems, WellFoundedInduction, TLAPS

H == INSTANCE HandEndProofs WITH
       Players <- {1, 2}, Seatings <- {}, MaxStart <- 0, MaxHands <- 0,
       Seats <- {1, 2}, TableSize <- 2, SmallestChip <- 1, Ledgers <- {}, Ranks <- {},
       Buttons <- {}, Deck <- {},
       seated <- NoRound, handForHand <- FALSE, place <- NoRound, lastBatch <- NoRound,
       ledger <- NoRound, button <- 1, built <- NoRound, awards <- NoRound,
       question <- NoRound, dealt <- NoRound, best <- NoRound

-----------------------------------------------------------------------------
(* HandEndProofs assumes nothing of a sum that does not hold here.         *)
LEMMA SumsApply ==
  /\ H!TableAssumption /\ H!SmallestChipAssumption /\ H!LedgersAssumption
  /\ H!ShowdownAssumption /\ H!FieldAssumption /\ H!ListAssumption /\ H!BatchAssumption
  /\ H!DeckAssumption
<1>1. H!TableAssumption /\ H!SmallestChipAssumption /\ H!LedgersAssumption
      /\ H!ListAssumption /\ H!BatchAssumption /\ H!DeckAssumption
  OBVIOUS
<1>2. H!ShowdownAssumption
  OBVIOUS
<1>3. H!FieldAssumption
  <2>1. IsFiniteSet({1}) /\ Cardinality({1}) = 1 /\ {1, 2} = {1} \cup {2}
    BY FS_Singleton
  <2>2. IsFiniteSet({1, 2}) /\ Cardinality({1, 2}) = 2
    BY <2>1, FS_AddElement
  <2>3. H!IsFiniteSet({1, 2}) /\ H!Cardinality({1, 2}) = 2
    BY <2>2 DEF H!IsFiniteSet, IsFiniteSet, H!Cardinality, Cardinality
  <2> QED
    BY <2>3
<1> QED
  BY <1>1, <1>2, <1>3

(* A finite set and its size are the same there and here.                  *)
LEMMA SameCounts ==
  /\ \A S : H!Cardinality(S) = Cardinality(S)
  /\ \A S : H!IsFiniteSet(S) <=> IsFiniteSet(S)
<1>1. \A S : H!Cardinality(S) = Cardinality(S)
  BY DEF H!Cardinality, Cardinality
<1>2. \A S : H!IsFiniteSet(S) <=> IsFiniteSet(S)
  BY DEF H!IsFiniteSet, IsFiniteSet
<1> QED
  BY <1>1, <1>2

SumOver(f, S) == H!SumOver(f, S)
IntOver(f, S) == IsFiniteSet(S) /\ \A x \in S : f[x] \in Int

(* The table's sums are sums over the domain of the function.              *)
LEMMA SumIs ==
  ASSUME NEW f, IntOver(f, DOMAIN f)
  PROVE  Sum(f) = SumOver(f, DOMAIN f) /\ Sum(f) \in Int
<1>1. Sum(f) = SumOver(f, DOMAIN f)
  BY DEF Sum, FoldFunction, FoldFunctionOnSet, MapThenFoldSet, SumOver,
         H!SumOver, H!FoldFunctionOnSet, H!MapThenFoldSet
<1>2. H!IntOver(f, DOMAIN f)
  BY SameCounts DEF IntOver, H!IntOver
<1> QED
  BY <1>1, <1>2, H!SumTakesOut, SumsApply DEF SumOver

(* A sum is one of its terms and the sum of the others.                    *)
LEMMA OverTakesOut ==
  ASSUME NEW S, NEW f, IntOver(f, S)
  PROVE  /\ SumOver(f, S) \in Int /\ SumOver(f, {}) = 0
         /\ \A x \in S : /\ SumOver(f, S \ {x}) \in Int
                         /\ SumOver(f, S) = f[x] + SumOver(f, S \ {x})
<1>1. H!IntOver(f, S)
  BY SameCounts DEF IntOver, H!IntOver
<1> QED
  BY <1>1, H!SumTakesOut, SumsApply DEF SumOver

(* Two functions are summed together or apart.                             *)
LEMMA OverPlus ==
  ASSUME NEW S, NEW f, NEW g, NEW h, IntOver(f, S), IntOver(g, S),
         \A x \in S : h[x] = f[x] + g[x]
  PROVE  SumOver(h, S) = SumOver(f, S) + SumOver(g, S)
<1>1. H!IntOver(f, S) /\ H!IntOver(g, S)
  BY SameCounts DEF IntOver, H!IntOver
<1> QED
  BY <1>1, H!SumPlus, SumsApply DEF SumOver

(* Larger terms add up to no less.                                         *)
LEMMA OverMonotone ==
  ASSUME NEW S, NEW f, NEW g, IntOver(f, S), IntOver(g, S), \A x \in S : f[x] <= g[x]
  PROVE  SumOver(f, S) <= SumOver(g, S)
<1>1. H!IntOver(f, S) /\ H!IntOver(g, S)
  BY SameCounts DEF IntOver, H!IntOver
<1> QED
  BY <1>1, H!SumMonotone, SumsApply DEF SumOver

(* The same term for some of a set, and nothing for the rest.              *)
LEMMA OverCounts ==
  ASSUME NEW S, IsFiniteSet(S), NEW C \in SUBSET S, NEW k \in Int, NEW f,
         \A x \in S : f[x] = IF x \in C THEN k ELSE 0
  PROVE  SumOver(f, S) = k * Cardinality(C)
<1>1. H!IsFiniteSet(S)
  BY SameCounts
<1>2. H!SumOver(f, S) = k * H!Cardinality(C)
  BY <1>1, H!SumCounts, SumsApply
<1> QED
  BY <1>2, SameCounts DEF SumOver

(* Rows first or columns first.                                            *)
LEMMA OverSwap ==
  ASSUME NEW S, NEW T, IsFiniteSet(S), IsFiniteSet(T), NEW m, NEW n, H!Crossed(m, n, S, T),
         NEW rows, H!SumsOf(rows, m, S, T), NEW cols, H!SumsOf(cols, n, T, S)
  PROVE  SumOver(rows, S) = SumOver(cols, T)
<1>1. H!IsFiniteSet(S) /\ H!IsFiniteSet(T)
  BY SameCounts
<1>3. H!SumOver(rows, S) = H!SumOver(cols, T)
  BY <1>1, H!SumsSwap, SumsApply
<1> QED
  BY <1>3 DEF SumOver

Suited == {"2", "3", "4", "5", "6", "7", "8", "9", "10", "J", "Q", "K", "A"}

(* A deck has thirteen ranks at most.                                      *)
LEMMA RanksAreFinite == IsFiniteSet(Ranks) /\ Ranks \subseteq Suited
<1>0. ASSUME NEW S, IsFiniteSet(S), NEW a, NEW b, NEW c, NEW d
      PROVE  IsFiniteSet(S \cup {a, b, c, d})
  <2>1. IsFiniteSet((((S \cup {a}) \cup {b}) \cup {c}) \cup {d})
    BY <1>0, FS_AddElement
  <2>2. (((S \cup {a}) \cup {b}) \cup {c}) \cup {d} = S \cup {a, b, c, d}
    OBVIOUS
  <2> QED
    BY <2>1, <2>2
<1> DEFINE low == {"2", "3", "4", "5"}
           mid == {"6", "7", "8", "9"}
           top == {"10", "J", "Q", "K"}
<1>1. IsFiniteSet({"A"} \cup low)
  BY <1>0, FS_Singleton
<1>2. IsFiniteSet(({"A"} \cup low) \cup mid)
  BY <1>0, <1>1
<1>3. IsFiniteSet((({"A"} \cup low) \cup mid) \cup top)
  BY <1>0, <1>2
<1>4. Suited = (({"A"} \cup low) \cup mid) \cup top
  BY DEF Suited
<1>5. IsFiniteSet(Suited)
  BY <1>3, <1>4
<1> QED
  BY <1>5, FS_Subset, BlackjackAssumption DEF Suited

(* Every rank has its value, and every value a tag.                        *)
LEMMA CardValues ==
  ASSUME NEW r \in Ranks
  PROVE  /\ CardValue(r) \in 2..11 /\ (CardValue(r) = 11 <=> r = "A")
         /\ Tag(r) \in Int
<1>1. r \in Suited
  BY RanksAreFinite
<1>2. ASSUME r \notin {"J", "Q", "K", "A"}
      PROVE  \E v \in 2..10 : Faces[v] = r
  <2>1. Faces[2] = "2" /\ Faces[3] = "3" /\ Faces[4] = "4" /\ Faces[5] = "5" /\ Faces[6] = "6"
        /\ Faces[7] = "7" /\ Faces[8] = "8" /\ Faces[9] = "9" /\ Faces[10] = "10"
    BY DEF Faces
  <2>2. 2 \in 2..10 /\ 3 \in 2..10 /\ 4 \in 2..10 /\ 5 \in 2..10 /\ 6 \in 2..10
        /\ 7 \in 2..10 /\ 8 \in 2..10 /\ 9 \in 2..10 /\ 10 \in 2..10
    OBVIOUS
  <2> QED
    BY <1>1, <1>2, <2>1, <2>2 DEF Suited
<1>3. CardValue(r) \in 2..11 /\ (CardValue(r) = 11 <=> r = "A")
  <2>1. CASE r = "A"
    BY <2>1 DEF CardValue
  <2>2. CASE r \in {"J", "Q", "K"}
    BY <2>2 DEF CardValue
  <2>3. CASE r \notin {"J", "Q", "K", "A"}
    <3>1. (CHOOSE v \in 2..10 : Faces[v] = r) \in 2..10
      BY <1>2, <2>3
    <3>2. CardValue(r) = CHOOSE v \in 2..10 : Faces[v] = r
      BY <2>3 DEF CardValue
    <3>3. ASSUME NEW v \in 2..10
          PROVE  v \in 2..11 /\ v # 11
      OBVIOUS
    <3>4. r # "A"
      BY <2>3
    <3> QED
      BY <3>1, <3>2, <3>3, <3>4
  <2>4. r = "A" \/ r \in {"J", "Q", "K"} \/ r \notin {"J", "Q", "K", "A"}
    OBVIOUS
  <2> QED
    BY <2>1, <2>2, <2>3, <2>4
<1>4. Tag(r) \in Int
  BY DEF Tag
<1> QED
  BY <1>3, <1>4

-----------------------------------------------------------------------------
Cards == Seq(Ranks)

(* A row of cards has finitely many places.                                *)
LEMMA PlacesOf ==
  ASSUME NEW cards \in Cards
  PROVE  /\ IsFiniteSet(DOMAIN cards) /\ Cardinality(DOMAIN cards) = Len(cards)
         /\ DOMAIN cards = 1..Len(cards) /\ Len(cards) \in Nat
         /\ \A i \in DOMAIN cards : cards[i] \in Ranks
<1>1. DOMAIN cards = 1..Len(cards) /\ Len(cards) \in Nat
  BY DEF Cards
<1>2. 1 \in Int /\ Len(cards) \in Int
  BY <1>1
<1>3. IsFiniteSet(1..Len(cards)) /\ Cardinality(1..Len(cards)) = Len(cards)
  <2> DEFINE n == Len(cards)
  <2>1. n \in Nat
    BY <1>1
  <2> HIDE DEF n
  <2>2. IsFiniteSet(1..n) /\ Cardinality(1..n) = n
    BY <2>1, FS_Interval
  <2> QED
    BY <2>2 DEF n
<1> QED
  BY <1>1, <1>3 DEF Cards

(* The tags of a row of cards, added place by place or rank by rank.       *)
LEMMA TagsByRank ==
  ASSUME NEW cards \in Cards
  PROVE  /\ Tags(cards) \in Int
         /\ \A r \in Ranks : Times(r, cards) \in Nat
         /\ Tags(cards) = SumOver([r \in Ranks |-> Tag(r) * Times(r, cards)], Ranks)
<1> DEFINE D == DOMAIN cards
           rows == [i \in D |-> Tag(cards[i])]
           cols == [r \in Ranks |-> Tag(r) * Times(r, cards)]
           m == [i \in D |-> [r \in Ranks |-> IF r = cards[i] THEN Tag(cards[i]) ELSE 0]]
           n == [r \in Ranks |-> [i \in D |-> IF r = cards[i] THEN Tag(cards[i]) ELSE 0]]
<1>1. IsFiniteSet(D) /\ IsFiniteSet(Ranks) /\ \A i \in D : cards[i] \in Ranks
  BY PlacesOf, RanksAreFinite
<1>2. \A r \in Ranks : Tag(r) \in Int
  BY CardValues
<1>3. \A i \in D, r \in Ranks : m[i][r] \in Int /\ n[r][i] = m[i][r]
  BY <1>1, <1>2
<1>4. ASSUME NEW i \in D
      PROVE  rows[i] = SumOver(m[i], Ranks)
  <2> DEFINE f == m[i]
             C == {cards[i]}
  <2>1. C \in SUBSET Ranks /\ Tag(cards[i]) \in Int
    BY <1>1, <1>2, <1>4
  <2>2. \A r \in Ranks : f[r] = IF r \in C THEN Tag(cards[i]) ELSE 0
    OBVIOUS
  <2>3. SumOver(f, Ranks) = Tag(cards[i]) * Cardinality(C)
    <3> HIDE DEF f, C
    <3> QED
      BY <2>1, <2>2, <1>1, OverCounts
  <2>4. Cardinality(C) = 1
    BY FS_Singleton
  <2>5. rows[i] = Tag(cards[i])
    OBVIOUS
  <2> HIDE DEF f, C, rows
  <2>6. SumOver(f, Ranks) = rows[i]
    BY <2>1, <2>3, <2>4, <2>5
  <2> QED
    BY <2>6 DEF f
<1>5. ASSUME NEW r \in Ranks
      PROVE  cols[r] = SumOver(n[r], D)
  <2> DEFINE f == n[r]
             C == {i \in D : cards[i] = r}
  <2>1. C \in SUBSET D /\ Tag(r) \in Int
    BY <1>2
  <2>2. \A i \in D : f[i] = IF i \in C THEN Tag(r) ELSE 0
    OBVIOUS
  <2>3. SumOver(f, D) = Tag(r) * Cardinality(C)
    <3> HIDE DEF f, C
    <3> QED
      BY <2>1, <2>2, <1>1, OverCounts
  <2>4. cols[r] = Tag(r) * Cardinality(C)
    BY DEF Times
  <2> QED
    BY <2>3, <2>4
<1>6. \A r \in Ranks : Times(r, cards) \in Nat
  BY <1>1, FS_Subset, FS_CardinalityType DEF Times
<1>7. SumOver(rows, D) = SumOver(cols, Ranks)
  <2>1. H!Crossed(m, n, D, Ranks) /\ H!SumsOf(rows, m, D, Ranks) /\ H!SumsOf(cols, n, Ranks, D)
    <3> HIDE DEF m, n, rows, cols, D
    <3> QED
      BY <1>3, <1>4, <1>5 DEF H!Crossed, H!SumsOf, SumOver
  <2> HIDE DEF m, n, rows, cols, D
  <2> QED
    BY <1>1, <2>1, OverSwap
<1>8. Tags(cards) = SumOver(rows, D) /\ Tags(cards) \in Int
  <2>1. IntOver(rows, D) /\ DOMAIN rows = D
    BY <1>1, <1>2 DEF IntOver
  <2>2. Tags(cards) = Sum(rows)
    BY DEF Tags
  <2> HIDE DEF rows, D
  <2> QED
    BY <2>1, <2>2, SumIs
<1> QED
  BY <1>6, <1>7, <1>8

Hands == [ cards : Cards, split : BOOLEAN, doubled : BOOLEAN, done : BOOLEAN,
           surrendered : BOOLEAN, payout : Int ]
Rounds == [ phase : {"none", "player", "settled"}, hole : Ranks \cup {"none"}, dealer : Cards,
            hands : Seq(Hands), active : Nat ]
Shoes == [Ranks -> 0..Copies]
Tables == [ shoe : Shoes, count : Int, round : Rounds, completed : Nat, checkpoints : Nat,
            awaiting : BOOLEAN, review : BOOLEAN ]

(* What the tags of the cards that have left a shoe add up to, and how far *)
(* a table's count is from it.                                             *)
Seen(shoe) == Sum([r \in Ranks |-> Tag(r) * (Copies - shoe[r])])
Off(t) == t.count - Seen(t.shoe)

Held(shoe, cards) == \A r \in Ranks : Times(r, cards) <= shoe[r]

(* What taking d cards off a rank's count does to its part of the sum.     *)
LEMMA Distributes ==
  \A a, b, c, d \in Int : a * (b - (c - d)) = a * (b - c) + a * d
  OBVIOUS

(* What has been seen of a shoe is an integer sum over the ranks.          *)
LEMMA SeenIs ==
  ASSUME NEW shoe \in Shoes
  PROVE  LET f == [r \in Ranks |-> Tag(r) * (Copies - shoe[r])]
         IN IntOver(f, Ranks) /\ Seen(shoe) = SumOver(f, Ranks) /\ Seen(shoe) \in Int
<1> DEFINE f == [r \in Ranks |-> Tag(r) * (Copies - shoe[r])]
<1>1. \A r \in Ranks : shoe[r] \in Int /\ Copies \in Int /\ Tag(r) \in Int
  BY CardValues, BlackjackAssumption DEF Shoes
<1>2. \A r \in Ranks : f[r] \in Int
  <2> SUFFICES ASSUME NEW r \in Ranks PROVE f[r] \in Int
    OBVIOUS
  <2> DEFINE a == Tag(r)
             b == Copies - shoe[r]
  <2>1. a \in Int /\ b \in Int
    BY <1>1
  <2>2. f[r] = a * b
    OBVIOUS
  <2> HIDE DEF a, b, f
  <2> QED
    BY <2>1, <2>2
<1>3. IntOver(f, Ranks) /\ DOMAIN f = Ranks
  BY <1>2, RanksAreFinite DEF IntOver
<1>4. Seen(shoe) = Sum(f)
  BY DEF Seen
<1> HIDE DEF f
<1>5. Seen(shoe) = SumOver(f, Ranks) /\ Seen(shoe) \in Int
  BY <1>3, <1>4, SumIs
<1> QED
  BY <1>3, <1>5 DEF f

(* Cards taken from the shoe are seen.                                     *)
LEMMA SeenGrows ==
  ASSUME NEW shoe \in Shoes, NEW cards \in Cards, Held(shoe, cards)
  PROVE  /\ Without(shoe, cards) \in Shoes
         /\ Seen(Without(shoe, cards)) = Seen(shoe) + Tags(cards)
<1> DEFINE rest == Without(shoe, cards)
           f == [r \in Ranks |-> Tag(r) * (Copies - shoe[r])]
           g == [r \in Ranks |-> Tag(r) * Times(r, cards)]
           h == [r \in Ranks |-> Tag(r) * (Copies - rest[r])]
<1>1. \A r \in Ranks : /\ shoe[r] \in 0..Copies /\ Times(r, cards) \in Nat
                       /\ Times(r, cards) <= shoe[r] /\ rest[r] = shoe[r] - Times(r, cards)
                       /\ Tag(r) \in Int
  BY TagsByRank, CardValues DEF Shoes, Held, Without
<1>2. rest \in Shoes
  <2>1. \A r \in Ranks : rest[r] \in 0..Copies
    BY <1>1, BlackjackAssumption
  <2> QED
    BY <2>1 DEF Shoes, Without
<1>3. /\ IntOver(f, Ranks) /\ Seen(shoe) = SumOver(f, Ranks)
      /\ IntOver(h, Ranks) /\ Seen(rest) = SumOver(h, Ranks)
  <2> HIDE DEF rest
  <2> QED
    BY <1>2, SeenIs
<1>4. \A r \in Ranks : h[r] = f[r] + g[r] /\ g[r] \in Int
  <2> SUFFICES ASSUME NEW r \in Ranks PROVE h[r] = f[r] + g[r] /\ g[r] \in Int
    OBVIOUS
  <2> DEFINE a == Tag(r)
             b == Copies
             c == shoe[r]
             d == Times(r, cards)
  <2>1. a \in Int /\ b \in Int /\ c \in Int /\ d \in Int
    BY <1>1, BlackjackAssumption
  <2>2. f[r] = a * (b - c) /\ g[r] = a * d /\ h[r] = a * (b - (c - d))
    BY <1>1
  <2> HIDE DEF a, b, c, d, f, g, h
  <2> QED
    BY <2>1, <2>2, Distributes
<1>5. IntOver(g, Ranks)
  BY <1>4, RanksAreFinite DEF IntOver
<1>6. Tags(cards) = SumOver(g, Ranks)
  BY TagsByRank
<1> HIDE DEF f, g, h, rest
<1>7. SumOver(h, Ranks) = SumOver(f, Ranks) + SumOver(g, Ranks)
  BY <1>3, <1>4, <1>5, OverPlus
<1> QED
  BY <1>2, <1>3, <1>6, <1>7 DEF rest

(* One card of the shoe, no card of it, and those drawn from it.           *)
LEMMA OneCard ==
  ASSUME NEW shoe \in Shoes, NEW c \in Left(shoe)
  PROVE  <<c>> \in Cards /\ Held(shoe, <<c>>) /\ c \in Ranks
<1>1. c \in Ranks /\ shoe[c] > 0 /\ \A r \in Ranks : shoe[r] \in Nat
  BY DEF Left, Shoes
<1>2. ASSUME NEW r \in Ranks
      PROVE  Times(r, <<c>>) <= shoe[r]
  <2> DEFINE C == {i \in DOMAIN <<c>> : <<c>>[i] = r}
  <2>1. CASE r = c
    <3>1. C = {1}
      BY <2>1
    <3>2. Cardinality(C) = 1
      BY <3>1, FS_Singleton
    <3> QED
      BY <3>2, <2>1, <1>1 DEF Times
  <2>2. CASE r # c
    <3>1. C = {}
      BY <2>2
    <3>2. Cardinality(C) = 0
      BY <3>1, FS_EmptySet
    <3> QED
      BY <3>2, <1>1, <1>2 DEF Times
  <2> QED
    BY <2>1, <2>2
<1> QED
  BY <1>1, <1>2 DEF Held, Cards

(* Drawing nothing.                                                        *)
LEMMA NoCard ==
  ASSUME NEW shoe \in Shoes
  PROVE  <<>> \in Cards /\ Held(shoe, <<>>)
<1>1. ASSUME NEW r \in Ranks
      PROVE  Times(r, <<>>) <= shoe[r]
  <2>1. {i \in DOMAIN <<>> : <<>>[i] = r} = {}
    OBVIOUS
  <2>2. Times(r, <<>>) = 0
    BY <2>1, FS_EmptySet DEF Times
  <2> QED
    BY <2>2, <1>1 DEF Shoes
<1> QED
  BY <1>1 DEF Held, Cards

(* What is drawn are that many cards the shoe holds.                       *)
LEMMA DrawsAre ==
  ASSUME NEW shoe \in Shoes, NEW n \in Nat, NEW cards \in Draws(shoe, n)
  PROVE  /\ cards \in Cards /\ Len(cards) = n /\ Held(shoe, cards)
         /\ \A i \in 1..n : cards[i] \in Ranks
<1>1. cards \in [1..n -> Ranks]
  BY DEF Draws, Left
<1>2. cards \in Cards /\ Len(cards) = n
  BY <1>1 DEF Cards
<1> QED
  BY <1>1, <1>2 DEF Draws, Held

(* Showing cards keeps the count right.                                    *)
LEMMA ExposedIs ==
  ASSUME NEW t \in Tables, NEW cards \in Cards, Held(t.shoe, cards)
  PROVE  LET u == Exposing(t, cards)
         IN /\ u \in Tables /\ Off(u) = Off(t) /\ u.round = t.round
            /\ u.shoe = Without(t.shoe, cards) /\ u.completed = t.completed
            /\ u.awaiting = t.awaiting /\ u.review = t.review
<1> DEFINE u == Exposing(t, cards)
<1>1. t.shoe \in Shoes /\ t.count \in Int
  BY DEF Tables
<1>2. /\ Without(t.shoe, cards) \in Shoes /\ Seen(t.shoe) \in Int /\ Tags(cards) \in Int
      /\ Seen(Without(t.shoe, cards)) = Seen(t.shoe) + Tags(cards)
  BY <1>1, SeenGrows, SeenIs, TagsByRank
<1>3. /\ u.shoe = Without(t.shoe, cards) /\ u.count = t.count + Tags(cards)
      /\ u.round = t.round /\ u.completed = t.completed
      /\ u.awaiting = t.awaiting /\ u.review = t.review
  BY DEF Exposing, Tables
<1>4. u \in Tables
  <2> DEFINE x == Without(t.shoe, cards)
             y == t.count + Tags(cards)
             v == [t EXCEPT !.shoe = x]
  <2>1. x \in Shoes /\ y \in Int
    BY <1>1, <1>2
  <2>2. u = [v EXCEPT !.count = y]
    BY DEF Exposing
  <2> HIDE DEF x, y
  <2>3. v \in Tables
    BY <2>1 DEF Tables
  <2> HIDE DEF v
  <2>4. [v EXCEPT !.count = y] \in Tables
    BY <2>1, <2>3 DEF Tables
  <2> QED
    BY <2>2, <2>4
<1> HIDE DEF u
<1>5. Off(u) = Off(t)
  BY <1>1, <1>2, <1>3 DEF Off
<1> QED
  BY <1>3, <1>4, <1>5 DEF u

(* A table with another round on it.                                       *)
LEMMA RoundReplaced ==
  ASSUME NEW t \in Tables, NEW r \in Rounds
  PROVE  LET u == [t EXCEPT !.round = r]
         IN /\ u \in Tables /\ u.round = r /\ Off(u) = Off(t) /\ u.shoe = t.shoe
            /\ u.completed = t.completed /\ u.awaiting = t.awaiting /\ u.review = t.review
  BY DEF Tables, Off

(* A round with another dealer's hand.                                     *)
LEMMA DealerReplaced ==
  ASSUME NEW r \in Rounds, NEW d \in Cards
  PROVE  LET s == [r EXCEPT !.dealer = d]
         IN /\ s \in Rounds /\ s.dealer = d /\ s.hole = r.hole /\ s.hands = r.hands
            /\ s.phase = r.phase /\ s.active = r.active
  BY DEF Rounds

Shown(t) == t \in Tables /\ Off(t) = 0
Concealed(t) ==
  /\ t \in Tables /\ t.round.hole \in Ranks /\ Len(t.round.dealer) = 1
  /\ Off(t) = 0 - Tag(t.round.hole)

(* Turning the hole card puts the count right; it is turned once.          *)
LEMMA RevealedShows ==
  ASSUME NEW t, Concealed(t)
  PROVE  LET u == Revealed(t)
         IN /\ Shown(u) /\ Len(u.round.dealer) = 2
            /\ u.round.dealer = Append(t.round.dealer, t.round.hole)
            /\ u.round.hands = t.round.hands
<1> DEFINE tag == Tag(t.round.hole)
           d == Append(t.round.dealer, t.round.hole)
           r == [t.round EXCEPT !.dealer = d]
           v == [t EXCEPT !.round = r]
           y == t.count + tag
<1>1. /\ t \in Tables /\ t.round \in Rounds /\ t.round.hole \in Ranks /\ t.round.dealer \in Cards
      /\ t.count \in Int /\ t.shoe \in Shoes
  BY DEF Concealed, Tables, Rounds
<1>2. tag \in Int /\ Seen(t.shoe) \in Int
  BY <1>1, CardValues, SeenIs
<1>3. d \in Cards /\ Len(d) = 2
  <2>1. Len(t.round.dealer) = 1
    BY DEF Concealed
  <2>2. Len(d) = Len(t.round.dealer) + 1 /\ d \in Cards
    BY <1>1 DEF Cards
  <2> QED
    BY <2>1, <2>2
<1>4. r \in Rounds /\ r.dealer = d /\ r.hands = t.round.hands
  <2> HIDE DEF d
  <2> QED
    BY <1>1, <1>3, DealerReplaced
<1>5. v \in Tables /\ v.round = r /\ v.shoe = t.shoe /\ v.count = t.count
  <2> HIDE DEF r
  <2> QED
    BY <1>1, <1>4 DEF Tables
<1>6. Revealed(t) = [v EXCEPT !.count = y]
  BY DEF Revealed, Hidden, Concealed
<1> DEFINE u == [v EXCEPT !.count = y]
<1>7. u \in Tables /\ u.round = r /\ u.shoe = t.shoe /\ u.count = y
  <2>1. y \in Int
    BY <1>1, <1>2
  <2> HIDE DEF v, y
  <2> QED
    BY <1>5, <2>1 DEF Tables
<1>8. Off(u) = 0
  <2>1. t.count - Seen(t.shoe) = 0 - tag
    BY DEF Concealed, Off
  <2> HIDE DEF u, tag
  <2> QED
    BY <1>1, <1>2, <1>7, <2>1 DEF Off
<1> HIDE DEF u, r, d
<1> QED
  BY <1>3, <1>4, <1>6, <1>7, <1>8 DEF Shown, u, d

(* A hole card that was turned is not counted again.                       *)
LEMMA RevealedOnce ==
  ASSUME NEW t, Len(t.round.dealer) # 1
  PROVE  Revealed(t) = t
  BY DEF Revealed, Hidden

-----------------------------------------------------------------------------
(* The dealer's play.                                                      *)
LEMMA DrawShows ==
  ASSUME NEW t, Shown(t), NEW c \in Left(t.shoe)
  PROVE  LET u == DealerDraws(t, c)
         IN Shown(u) /\ Len(u.round.dealer) = Len(t.round.dealer) + 1
<1> DEFINE v == Exposing(t, <<c>>)
           d == Append(t.round.dealer, c)
           r == [t.round EXCEPT !.dealer = d]
<1>1. t \in Tables /\ t.shoe \in Shoes /\ t.round \in Rounds /\ t.round.dealer \in Cards
  BY DEF Shown, Tables, Rounds
<1>2. <<c>> \in Cards /\ Held(t.shoe, <<c>>) /\ c \in Ranks
  BY <1>1, OneCard
<1>3. v \in Tables /\ Off(v) = Off(t) /\ v.round = t.round
  BY <1>1, <1>2, ExposedIs
<1>4. d \in Cards /\ Len(d) = Len(t.round.dealer) + 1
  BY <1>1, <1>2 DEF Cards
<1> HIDE DEF d, v
<1>5. r \in Rounds /\ r.dealer = d
  BY <1>1, <1>4, DealerReplaced
<1>6. DealerDraws(t, c) = [v EXCEPT !.round = r]
  BY <1>3 DEF DealerDraws, v, d
<1> HIDE DEF r
<1>7. [v EXCEPT !.round = r] \in Tables /\ Off([v EXCEPT !.round = r]) = Off(v)
      /\ [v EXCEPT !.round = r].round = r
  BY <1>3, <1>5, RoundReplaced
<1> QED
  BY <1>3, <1>4, <1>5, <1>6, <1>7 DEF Shown

(* What is still to be played of the dealer's hand, at most.               *)
Played(tables, n) ==
  \A t \in tables : Shown(t) /\ (Stands(t) \/ Len(t.round.dealer) >= n)

(* One draw: he stands, or has one card more.                              *)
LEMMA DrawnPlays ==
  ASSUME NEW S, NEW n \in Nat, Played(S, n)
  PROVE  Played(Drawn(S), n + 1)
<1> SUFFICES ASSUME NEW u \in Drawn(S)
             PROVE  Shown(u) /\ (Stands(u) \/ Len(u.round.dealer) >= n + 1)
  BY DEF Played
<1>1. PICK t \in S : u \in IF Stands(t) THEN {t} ELSE {DealerDraws(t, c) : c \in Left(t.shoe)}
  BY DEF Drawn
<1>2. Shown(t) /\ (Stands(t) \/ Len(t.round.dealer) >= n)
  BY DEF Played
<1>3. CASE Stands(t)
  BY <1>1, <1>2, <1>3
<1>4. CASE ~Stands(t)
  <2>1. PICK c \in Left(t.shoe) : u = DealerDraws(t, c)
    BY <1>1, <1>4
  <2>2. Shown(u) /\ Len(u.round.dealer) = Len(t.round.dealer) + 1
    BY <1>2, <2>1, DrawShows
  <2>3. Len(t.round.dealer) \in Nat
    BY <1>2 DEF Shown, Tables, Rounds, Cards
  <2> QED
    BY <1>2, <1>4, <2>2, <2>3
<1> QED
  BY <1>3, <1>4

(* Four draws: he stands, or has four cards more.                          *)
LEMMA FourPlay ==
  ASSUME NEW S, NEW n \in Nat, Played(S, n)
  PROVE  Played(FourDrawn(S), n + 4)
<1>1. Played(Drawn(S), n + 1)
  BY DrawnPlays
<1>2. Played(Drawn(Drawn(S)), n + 2)
  <2>1. n + 1 \in Nat /\ (n + 1) + 1 = n + 2
    OBVIOUS
  <2> QED
    BY <1>1, <2>1, DrawnPlays
<1>3. Played(Drawn(Drawn(Drawn(S))), n + 3)
  <2>1. n + 2 \in Nat /\ (n + 2) + 1 = n + 3
    OBVIOUS
  <2> QED
    BY <1>2, <2>1, DrawnPlays
<1>4. Played(Drawn(Drawn(Drawn(Drawn(S)))), n + 4)
  <2>1. n + 3 \in Nat /\ (n + 3) + 1 = n + 4
    OBVIOUS
  <2> QED
    BY <1>3, <2>1, DrawnPlays
<1> QED
  BY <1>4 DEF FourDrawn

(* How many aces a hand counts as one.                                     *)
LEMMA LoweredExists ==
  ASSUME NEW high \in Int, NEW aces \in Nat
  PROVE  \E k \in 0..aces : /\ k = aces \/ high - 10 * k <= 21
                            /\ k = 0 \/ high - 10 * (k - 1) > 21
<1>1. CASE high <= 21
  BY <1>1
<1>2. CASE high > 21
  <2> DEFINE q == (high - 12) \div 10
  <2>1. q \in Int /\ 10 * q <= high - 12 /\ high - 12 < 10 * q + 10
    OBVIOUS
  <2> HIDE DEF q
  <2>2. q >= 1 /\ high - 10 * q <= 21 /\ high - 10 * (q - 1) > 21
    BY <1>2, <2>1
  <2>3. CASE q <= aces
    BY <2>1, <2>2, <2>3
  <2>4. CASE aces < q
    BY <1>2, <2>1, <2>2, <2>4
  <2> QED
    BY <2>1, <2>3, <2>4
<1> QED
  BY <1>1, <1>2

(* Every card counts one at least, and an ace too many counts no more.     *)
LEMMA TotalIs ==
  ASSUME NEW cards \in Cards
  PROVE  /\ Total(cards) \in Int /\ Total(cards) >= Len(cards)
         /\ Total(cards) <= 21 \/ Total(cards) <= 10 * Len(cards)
<1> DEFINE D == DOMAIN cards
           C == {i \in D : cards[i] = "A"}
           f == [i \in D |-> CardValue(cards[i])]
           g == [i \in D |-> IF i \in C THEN 10 ELSE 0]
           h == [i \in D |-> CardValue(cards[i]) - (IF i \in C THEN 10 ELSE 0)]
           one == [i \in D |-> IF i \in D THEN 1 ELSE 0]
           ten == [i \in D |-> IF i \in D THEN 10 ELSE 0]
           high == Sum(f)
           aces == Cardinality(C)
           n == Len(cards)
           lowered == CHOOSE k \in 0..aces : /\ k = aces \/ high - 10 * k <= 21
                                             /\ k = 0 \/ high - 10 * (k - 1) > 21
<1>1. /\ IsFiniteSet(D) /\ Cardinality(D) = n /\ n \in Nat
      /\ \A i \in D : cards[i] \in Ranks
  BY PlacesOf
<1>2. \A i \in D : /\ f[i] \in 2..11 /\ (f[i] = 11 <=> i \in C) /\ h[i] \in 1..10
                   /\ f[i] = h[i] + g[i] /\ g[i] \in Int /\ one[i] = 1 /\ ten[i] = 10
  BY <1>1, CardValues
<1>3. /\ IntOver(f, D) /\ IntOver(g, D) /\ IntOver(h, D) /\ IntOver(one, D) /\ IntOver(ten, D)
  BY <1>1, <1>2 DEF IntOver
<1>4. high = SumOver(f, D) /\ high \in Int
  <2>1. DOMAIN f = D
    OBVIOUS
  <2> HIDE DEF f, D
  <2> QED
    BY <1>3, <2>1, SumIs
<1>5. C \in SUBSET D /\ D \in SUBSET D
  OBVIOUS
<1>6. aces \in Nat
  BY <1>1, <1>5, FS_Subset, FS_CardinalityType
<1>7. SumOver(g, D) = 10 * aces /\ SumOver(one, D) = 1 * n /\ SumOver(ten, D) = 10 * n
  <2>1. \A i \in D : /\ g[i] = IF i \in C THEN 10 ELSE 0
                     /\ one[i] = IF i \in D THEN 1 ELSE 0
                     /\ ten[i] = IF i \in D THEN 10 ELSE 0
    OBVIOUS
  <2> HIDE DEF f, g, h, one, ten, C, D, n
  <2>2. SumOver(g, D) = 10 * Cardinality(C)
    BY <1>1, <1>5, <2>1, OverCounts
  <2>3. SumOver(one, D) = 1 * Cardinality(D)
    BY <1>1, <1>5, <2>1, OverCounts
  <2>4. SumOver(ten, D) = 10 * Cardinality(D)
    <3>1. \A i \in D : ten[i] = IF i \in D THEN 10 ELSE 0
      BY <2>1
    <3>2. IsFiniteSet(D) /\ D \in SUBSET D /\ 10 \in Int
      BY <1>1, <1>5
    <3> QED
      BY <3>1, <3>2, OverCounts
  <2> QED
    BY <1>1, <2>2, <2>3, <2>4
<1>8. SumOver(f, D) = SumOver(h, D) + SumOver(g, D)
  <2> HIDE DEF f, g, h, D
  <2> QED
    BY <1>2, <1>3, OverPlus
<1>9. SumOver(one, D) <= SumOver(h, D) /\ SumOver(h, D) <= SumOver(ten, D)
  <2>1. \A i \in D : one[i] <= h[i] /\ h[i] <= ten[i]
    BY <1>2
  <2> HIDE DEF f, g, h, one, ten, D
  <2> QED
    BY <1>3, <2>1, OverMonotone
<1>10. SumOver(h, D) \in Int
  <2> HIDE DEF h, D
  <2> QED
    BY <1>3, OverTakesOut
<1>11. Total(cards) = high - 10 * lowered
  BY DEF Total, Value
<1> HIDE DEF f, g, h, one, ten, D, C, high, aces, n
<1>12. lowered \in 0..aces /\ (lowered = aces \/ high - 10 * lowered <= 21)
  BY <1>4, <1>6, LoweredExists
<1> HIDE DEF lowered
<1>13. n <= high - 10 * aces /\ high - 10 * aces <= 10 * n
  BY <1>1, <1>4, <1>6, <1>7, <1>8, <1>9, <1>10
<1>14. Total(cards) \in Int /\ Total(cards) >= n /\ (Total(cards) <= 21 \/ Total(cards) <= 10 * n)
  BY <1>1, <1>4, <1>6, <1>11, <1>12, <1>13
<1> QED
  BY <1>14 DEF n

(* The dealer has stood at the end of his play, whatever he drew: the      *)
(* sixteen draws of the model are as many as the loop of finishDealer      *)
(* ever makes.                                                             *)
THEOREM DealerStands ==
  ASSUME NEW t, Shown(t), Len(t.round.dealer) >= 2
  PROVE  \A u \in PlayedOut(t) : Shown(u) /\ Stands(u)
<1>1. Played({t}, 2)
  BY DEF Played
<1>2. Played(FourDrawn({t}), 6)
  <2>1. 2 \in Nat /\ 2 + 4 = 6
    OBVIOUS
  <2> QED
    BY <1>1, <2>1, FourPlay
<1>3. Played(FourDrawn(FourDrawn({t})), 10)
  <2>1. 6 \in Nat /\ 6 + 4 = 10
    OBVIOUS
  <2> QED
    BY <1>2, <2>1, FourPlay
<1>4. Played(FourDrawn(FourDrawn(FourDrawn({t}))), 14)
  <2>1. 10 \in Nat /\ 10 + 4 = 14
    OBVIOUS
  <2> QED
    BY <1>3, <2>1, FourPlay
<1>5. Played(PlayedOut(t), 18)
  <2>1. 14 \in Nat /\ 14 + 4 = 18
    OBVIOUS
  <2> QED
    BY <1>4, <2>1, FourPlay DEF PlayedOut
<1> SUFFICES ASSUME NEW u \in PlayedOut(t) PROVE Shown(u) /\ Stands(u)
  OBVIOUS
<1>6. Shown(u) /\ (Stands(u) \/ Len(u.round.dealer) >= 18)
  BY <1>5 DEF Played
<1>7. u.round.dealer \in Cards
  BY <1>6 DEF Shown, Tables, Rounds
<1>8. Len(u.round.dealer) \in Nat
  BY <1>7, PlacesOf
<1>9. Len(u.round.dealer) >= 18 => Total(u.round.dealer) >= 17
  BY <1>7, <1>8, TotalIs
<1> QED
  BY <1>6, <1>9 DEF Stands

(* A table with another value in one of the session's fields.              *)
LEMMA TableReplaced ==
  ASSUME NEW t \in Tables, NEW n \in Nat, NEW b \in BOOLEAN
  PROVE  /\ LET u == [t EXCEPT !.completed = n]
            IN u \in Tables /\ Off(u) = Off(t) /\ u.round = t.round
         /\ LET u == [t EXCEPT !.checkpoints = n]
            IN u \in Tables /\ Off(u) = Off(t) /\ u.round = t.round
         /\ LET u == [t EXCEPT !.awaiting = b]
            IN u \in Tables /\ Off(u) = Off(t) /\ u.round = t.round
         /\ LET u == [t EXCEPT !.review = b]
            IN u \in Tables /\ Off(u) = Off(t) /\ u.round = t.round
<1>1. LET u == [t EXCEPT !.completed = n]
      IN u \in Tables /\ Off(u) = Off(t) /\ u.round = t.round
  BY DEF Tables, Off
<1>2. LET u == [t EXCEPT !.checkpoints = n]
      IN u \in Tables /\ Off(u) = Off(t) /\ u.round = t.round
  BY DEF Tables, Off
<1>3. LET u == [t EXCEPT !.awaiting = b]
      IN u \in Tables /\ Off(u) = Off(t) /\ u.round = t.round
  BY DEF Tables, Off
<1>4. LET u == [t EXCEPT !.review = b]
      IN u \in Tables /\ Off(u) = Off(t) /\ u.round = t.round
  BY DEF Tables, Off
<1> QED
  BY <1>1, <1>2, <1>3, <1>4

(* A round with other hands, settled, or with another active hand.         *)
LEMMA RoundChanged ==
  ASSUME NEW r \in Rounds, NEW hands \in Seq(Hands), NEW i \in Nat
  PROVE  /\ LET s == [r EXCEPT !.hands = hands]
            IN /\ s \in Rounds /\ s.hands = hands /\ s.dealer = r.dealer /\ s.hole = r.hole
               /\ s.phase = r.phase /\ s.active = r.active
         /\ LET s == [r EXCEPT !.phase = "settled"]
            IN /\ s \in Rounds /\ s.hands = r.hands /\ s.dealer = r.dealer /\ s.hole = r.hole
               /\ s.phase = "settled" /\ s.active = r.active
         /\ LET s == [r EXCEPT !.active = i]
            IN /\ s \in Rounds /\ s.hands = r.hands /\ s.dealer = r.dealer /\ s.hole = r.hole
               /\ s.phase = r.phase /\ s.active = i
  BY DEF Rounds

(* Paying the hands touches neither the shoe nor the count.                *)
LEMMA PaidIs ==
  ASSUME NEW t \in Tables
  PROVE  Paid(t) \in Tables /\ Off(Paid(t)) = Off(t) /\ Paid(t).round.phase = "settled"
<1> DEFINE paid(i) == Payout(t.round.hands[i], t.round.dealer)
           hand(i) == [[t.round.hands[i] EXCEPT !.done = TRUE] EXCEPT !.payout = paid(i)]
           hands == [i \in DOMAIN t.round.hands |-> hand(i)]
           r == [t.round EXCEPT !.hands = hands]
           s == [r EXCEPT !.phase = "settled"]
           n == t.completed + 1
           b == (n % 3 = 0)
           u == [t EXCEPT !.round = s]
           v == [u EXCEPT !.completed = n]
           w == [v EXCEPT !.awaiting = b]
<1>1. t.round \in Rounds /\ t.round.hands \in Seq(Hands) /\ t.completed \in Nat
  BY DEF Tables, Rounds
<1>2. ASSUME NEW i \in DOMAIN t.round.hands
      PROVE  hand(i) \in Hands
  <2>1. t.round.hands[i] \in Hands
    BY <1>1, <1>2
  <2>2. paid(i) \in Int
    BY DEF Payout, Wager
  <2> HIDE DEF paid
  <2> QED
    BY <2>1, <2>2 DEF Hands
<1>3. hands \in Seq(Hands)
  <2> HIDE DEF hand
  <2>1. DOMAIN t.round.hands = 1..Len(t.round.hands) /\ Len(t.round.hands) \in Nat
    BY <1>1
  <2> QED
    BY <1>2, <2>1
<1>4. Paid(t) = w
  <2>1. \A i : [t.round.hands[i] EXCEPT !.done = TRUE, !.payout = paid(i)] = hand(i)
    OBVIOUS
  <2>2. [i \in DOMAIN t.round.hands |->
           [t.round.hands[i] EXCEPT !.done = TRUE, !.payout = paid(i)]] = hands
    BY <2>1
  <2> DEFINE full == [i \in DOMAIN t.round.hands |->
                        [t.round.hands[i] EXCEPT !.done = TRUE, !.payout = paid(i)]]
  <2>3. Paid(t) = [t EXCEPT !.round.hands = full, !.round.phase = "settled",
                            !.completed = n, !.awaiting = b]
    BY <1>1 DEF Paid
  <2> HIDE DEF full, hands, n, b
  <2>4. full = hands
    BY <2>2 DEF full
  <2> QED
    BY <1>1, <2>3, <2>4 DEF Tables, Rounds
<1> HIDE DEF hands
<1>5. r \in Rounds
  BY <1>1, <1>3, RoundChanged
<1> HIDE DEF r
<1>6. s \in Rounds /\ s.phase = "settled"
  BY <1>1, <1>5, RoundChanged
<1> HIDE DEF s
<1>7. u \in Tables /\ Off(u) = Off(t) /\ u.round = s
  BY <1>6, RoundReplaced
<1>8. n \in Nat /\ b \in BOOLEAN
  BY <1>1
<1> HIDE DEF u, n, b
<1>9. v \in Tables /\ Off(v) = Off(t) /\ v.round = s
  BY <1>7, <1>8, TableReplaced
<1> HIDE DEF v
<1>10. w \in Tables /\ Off(w) = Off(t) /\ w.round = s
  BY <1>8, <1>9, TableReplaced
<1> QED
  BY <1>4, <1>6, <1>10

(* After the settlement every card is counted, the hole card too.          *)
LEMMA SettledAtOnceIs ==
  ASSUME NEW t, Concealed(t)
  PROVE  LET u == SettledAtOnce(Revealed(t)) IN Shown(u) /\ u.round.phase = "settled"
<1>1. Shown(Revealed(t)) /\ Len(Revealed(t).round.dealer) = 2
  BY RevealedShows
<1>2. Revealed(Revealed(t)) = Revealed(t)
  <2> DEFINE v == Revealed(t)
  <2>1. Len(v.round.dealer) # 1
    BY <1>1
  <2> HIDE DEF v
  <2>2. Revealed(v) = v
    BY <2>1, RevealedOnce
  <2> QED
    BY <2>2 DEF v
<1> QED
  BY <1>1, <1>2, PaidIs DEF SettledAtOnce, Shown

(* The same after the dealer's play.                                       *)
LEMMA SettledIs ==
  ASSUME NEW t, Concealed(t), NEW u \in Settled(t)
  PROVE  Shown(u) /\ u.round.phase = "settled"
<1> DEFINE w == Revealed(t)
<1>1. Shown(w) /\ Len(w.round.dealer) >= 2
  <2>1. Shown(w) /\ Len(w.round.dealer) = 2
    BY RevealedShows
  <2> HIDE DEF w
  <2> QED
    BY <2>1
<1>2. PICK v \in PlayedOut(w) : u = Paid(v)
  BY DEF Settled
<1> HIDE DEF w
<1>3. Shown(v)
  BY <1>1, <1>2, DealerStands
<1> QED
  BY <1>2, <1>3, PaidIs DEF Shown

(* A set of natural numbers has a least one.                               *)
LEMMA LeastOf ==
  ASSUME NEW S \in SUBSET Nat, S # {}
  PROVE  \E i \in S : \A j \in S : i <= j
<1>1. PICK i \in S : \A j \in S : <<j, i>> \notin OpToRel(<, Nat)
  BY NatLessThanWellFounded, WFMin
<1>2. \A j \in S : ~ (j < i)
  BY <1>1 DEF OpToRel
<1> QED
  BY <1>2

(* A hand that can still be played.                                        *)
Open(hand) ==
  /\ ~hand.done /\ ~hand.doubled /\ ~hand.surrendered
  /\ Total(hand.cards) <= 21 /\ Len(hand.cards) >= 2
  /\ hand.split => hand.cards[1] # "A"

(* A round in play, before and after the hand to play next is chosen.      *)
InPlay(t) ==
  /\ Concealed(t) /\ t.round.phase = "player"
  /\ \A i \in ToPlay(t) : Open(t.round.hands[i])
Playing(t) ==
  /\ InPlay(t)
  /\ t.round.active \in ToPlay(t) /\ \A j \in ToPlay(t) : t.round.active <= j

TableInv(t) ==
  /\ t \in Tables
  /\ t.round.phase = "player" => Playing(t)
  /\ t.round.phase # "player" => Shown(t)

(* The hands of a table are a sequence, those to play some of its places.  *)
LEMMA ToPlayIs ==
  ASSUME NEW t \in Tables
  PROVE  /\ ToPlay(t) \in SUBSET Nat /\ t.round.hands \in Seq(Hands)
         /\ DOMAIN t.round.hands = 1..Len(t.round.hands) /\ Len(t.round.hands) \in Nat
         /\ \A i \in DOMAIN t.round.hands : t.round.hands[i] \in Hands
<1>1. t.round.hands \in Seq(Hands)
  BY DEF Tables, Rounds
<1>2. DOMAIN t.round.hands = 1..Len(t.round.hands) /\ Len(t.round.hands) \in Nat
      /\ \A i \in DOMAIN t.round.hands : t.round.hands[i] \in Hands
  BY <1>1
<1> QED
  BY <1>1, <1>2 DEF ToPlay

(* The first hand to be played is chosen, or the round is settled.         *)
LEMMA AdvancedIs ==
  ASSUME NEW t, InPlay(t), NEW u \in Advanced(t)
  PROVE  TableInv(u)
<1>1. t \in Tables /\ t.round \in Rounds /\ Concealed(t)
  BY DEF InPlay, Concealed, Tables
<1>2. CASE ToPlay(t) = {}
  <2>1. Shown(u) /\ u.round.phase = "settled"
    BY <1>1, <1>2, SettledIs DEF Advanced
  <2> QED
    BY <2>1 DEF TableInv, Shown
<1>3. CASE ToPlay(t) # {}
  <2> DEFINE n == NextHand(t)
             r == [t.round EXCEPT !.active = n]
  <2>1. \E i \in ToPlay(t) : \A j \in ToPlay(t) : i <= j
    BY <1>1, <1>3, ToPlayIs, LeastOf
  <2>2. n \in ToPlay(t) /\ \A j \in ToPlay(t) : n <= j
    BY <2>1 DEF NextHand
  <2>3. n \in Nat
    BY <1>1, <2>2, ToPlayIs
  <2> HIDE DEF n
  <2>4. r \in Rounds /\ r.hands = t.round.hands /\ r.dealer = t.round.dealer
        /\ r.hole = t.round.hole /\ r.phase = t.round.phase /\ r.active = n
    <3>1. <<>> \in Seq(Hands)
      OBVIOUS
    <3> QED
      BY <1>1, <2>3, <3>1, RoundChanged
  <2>5. u = [t EXCEPT !.round = r]
    BY <1>1, <1>3 DEF Advanced, n
  <2> HIDE DEF r
  <2>6. u \in Tables /\ u.round = r /\ Off(u) = Off(t)
    BY <1>1, <2>4, <2>5, RoundReplaced
  <2>7. ToPlay(u) = ToPlay(t)
    BY <2>4, <2>6 DEF ToPlay
  <2>8. Concealed(u)
    BY <1>1, <2>4, <2>6 DEF Concealed
  <2>9. InPlay(u)
    BY <2>4, <2>6, <2>7, <2>8 DEF InPlay
  <2>10. Playing(u)
    BY <2>2, <2>4, <2>6, <2>7, <2>9 DEF Playing
  <2> QED
    BY <2>4, <2>6, <2>10 DEF TableInv, Playing, InPlay
<1> QED
  BY <1>2, <1>3

(* The tags of one card.                                                   *)
LEMMA TagOfOne ==
  ASSUME NEW c \in Ranks
  PROVE  Tags(<<c>>) = Tag(c)
<1> DEFINE f == [i \in DOMAIN <<c>> |-> Tag(<<c>>[i])]
           D == {1}
<1>1. DOMAIN f = D /\ f[1] = Tag(c) /\ Tag(c) \in Int
  BY CardValues
<1>2. IsFiniteSet(D) /\ Cardinality(D) = 1
  BY FS_Singleton
<1>3. IntOver(f, D) /\ \A x \in D : f[x] = IF x \in D THEN Tag(c) ELSE 0
  <2> HIDE DEF f
  <2> QED
    BY <1>1, <1>2 DEF IntOver
<1>4. Tags(<<c>>) = Sum(f)
  BY DEF Tags
<1> HIDE DEF f, D
<1>5. SumOver(f, D) = Tag(c) * Cardinality(D)
  BY <1>1, <1>2, <1>3, OverCounts
<1>6. Sum(f) = SumOver(f, D)
  BY <1>1, <1>3, SumIs
<1> QED
  BY <1>1, <1>2, <1>4, <1>5, <1>6

(* The three cards shown at the deal, and the fourth.                      *)
LEMMA FourthCard ==
  ASSUME NEW shoe \in Shoes, NEW d \in Draws(shoe, 4)
  PROVE  LET three == SubSeq(d, 1, 3)
         IN /\ three \in Cards /\ Held(shoe, three)
            /\ <<d[4]>> \in Cards /\ Held(Without(shoe, three), <<d[4]>>)
<1> DEFINE three == SubSeq(d, 1, 3)
<1>1. d \in Cards /\ Len(d) = 4 /\ Held(shoe, d) /\ d[1] \in Ranks /\ d[2] \in Ranks
      /\ d[3] \in Ranks /\ d[4] \in Ranks
  <2>1. d \in Cards /\ Len(d) = 4 /\ Held(shoe, d) /\ \A i \in 1..4 : d[i] \in Ranks
    <3>1. 4 \in Nat
      OBVIOUS
    <3> QED
      BY <3>1, DrawsAre
  <2>2. 1 \in 1..4 /\ 2 \in 1..4 /\ 3 \in 1..4 /\ 4 \in 1..4
    OBVIOUS
  <2> QED
    BY <2>1, <2>2
<1>2. three \in Cards /\ Len(three) = 3 /\ \A i \in 1..3 : three[i] = d[i]
  <2>1. d \in Seq(Ranks) /\ 1 \in 1..Len(d)+1 /\ 3 \in 0..Len(d)
    BY <1>1 DEF Cards
  <2>2. three \in Seq(Ranks) /\ Len(three) = IF 1 <= 3 THEN 3 - 1 + 1 ELSE 0
    BY <2>1, SubSeqProperties
  <2>3. \A i \in 1..(3 - 1 + 1) : three[i] = d[1 + i - 1]
    BY <2>1, SubSeqProperties
  <2> HIDE DEF three
  <2>4. \A i \in 1..3 : three[i] = d[i]
    BY <2>3
  <2> QED
    BY <2>2, <2>4 DEF Cards
<1> HIDE DEF three
<1>3. three \in Cards /\ <<d[4]>> \in Cards
  BY <1>1, <1>2 DEF Cards
<1>4. ASSUME NEW r \in Ranks
      PROVE  /\ Times(r, three) \in Nat /\ Times(r, <<d[4]>>) \in Nat
             /\ Times(r, d) = Times(r, three) + Times(r, <<d[4]>>)
  <2> DEFINE A == {i \in DOMAIN d : d[i] = r}
             B == {i \in DOMAIN three : three[i] = r}
             C == {i \in DOMAIN <<d[4]>> : <<d[4]>>[i] = r}
  <2>1. DOMAIN d = 1..4 /\ DOMAIN three = 1..3 /\ DOMAIN <<d[4]>> = {1}
    BY <1>1, <1>2 DEF Cards
  <2>2. \A i \in 1..3 : three[i] = d[i]
    BY <1>2
  <2>3. IsFiniteSet(B) /\ Cardinality(B) \in Nat
    <3>1. IsFiniteSet(DOMAIN three)
      BY <1>3, PlacesOf
    <3>2. B \in SUBSET DOMAIN three
      OBVIOUS
    <3> HIDE DEF B, three
    <3> QED
      BY <3>1, <3>2, FS_Subset, FS_CardinalityType
  <2>4. Times(r, d) = Cardinality(A) /\ Times(r, three) = Cardinality(B)
        /\ Times(r, <<d[4]>>) = Cardinality(C)
    BY DEF Times
  <2>5. CASE d[4] = r
    <3>1. A = B \cup {4} /\ 4 \notin B
      BY <2>1, <2>2, <2>5
    <3>2. C = {1}
      BY <2>1, <2>5
    <3> HIDE DEF A, B, C
    <3>3. Cardinality(A) = Cardinality(B) + 1 /\ Cardinality(C) = 1
      BY <2>3, <3>1, <3>2, FS_AddElement, FS_Singleton
    <3> QED
      BY <2>3, <2>4, <3>3
  <2>6. CASE d[4] # r
    <3>1. A = B
      BY <2>1, <2>2, <2>6
    <3>2. C = {}
      BY <2>1, <2>6
    <3> HIDE DEF A, B, C
    <3>3. Cardinality(A) = Cardinality(B) /\ Cardinality(C) = 0
      BY <3>1, <3>2, FS_EmptySet
    <3> QED
      BY <2>3, <2>4, <3>3
  <2> QED
    BY <2>5, <2>6
<1> HIDE DEF three
<1>5. \A r \in Ranks : shoe[r] \in Nat /\ Times(r, d) <= shoe[r]
  BY <1>1 DEF Held, Shoes
<1>6. Held(shoe, three)
  BY <1>4, <1>5 DEF Held
<1>7. Held(Without(shoe, three), <<d[4]>>)
  <2>1. ASSUME NEW r \in Ranks
        PROVE  Times(r, <<d[4]>>) <= shoe[r] - Times(r, three)
    BY <1>4, <1>5
  <2> QED
    BY <2>1 DEF Held, Without
<1> QED
  BY <1>3, <1>6, <1>7 DEF three

(* A new hand is a hand.                                                   *)
LEMMA NewHandIs ==
  ASSUME NEW cards \in Cards, NEW s \in BOOLEAN, NEW e \in BOOLEAN
  PROVE  NewHand(cards, s, e) \in Hands
  BY DEF NewHand, Hands

(* Two cards are never over twenty-one: two aces are twelve.               *)
LEMMA TwoCards ==
  ASSUME NEW a \in Ranks, NEW b \in Ranks
  PROVE  <<a, b>> \in Cards /\ Len(<<a, b>>) = 2 /\ Total(<<a, b>>) <= 21
<1> DEFINE two == <<a, b>>
<1>1. two \in Cards /\ Len(two) = 2
  BY DEF Cards
<1> HIDE DEF two
<1>2. Total(two) <= 21
  <2> DEFINE n == Len(two)
             total == Total(two)
  <2>1. total \in Int /\ (total <= 21 \/ total <= 10 * n) /\ n = 2
    BY <1>1, TotalIs
  <2> HIDE DEF total, n
  <2>2. total <= 21
    BY <2>1
  <2> QED
    BY <2>2 DEF total
<1> QED
  BY <1>1, <1>2 DEF two

(* A round is dealt: it is played, or settled at once.                     *)
LEMMA DealtIs ==
  ASSUME NEW t, Shown(t), NEW d \in Draws(t.shoe, 4)
  PROVE  TableInv(Dealt(t, d))
<1> DEFINE shown == Exposing(t, SubSeq(d, 1, 3))
           mine == <<NewHand(<<d[1], d[3]>>, FALSE, FALSE)>>
           r == [ phase |-> "player", hole |-> d[4], dealer |-> <<d[2]>>, active |-> 1,
                  hands |-> mine ]
           shoe == Without(shown.shoe, <<d[4]>>)
           v == [shown EXCEPT !.shoe = shoe]
           dealt == [v EXCEPT !.round = r]
<1>1. t \in Tables /\ t.shoe \in Shoes /\ Off(t) = 0
  BY DEF Shown, Tables
<1>2. d[1] \in Ranks /\ d[2] \in Ranks /\ d[3] \in Ranks /\ d[4] \in Ranks
  BY <1>1, DrawsAre
<1>3. /\ SubSeq(d, 1, 3) \in Cards /\ Held(t.shoe, SubSeq(d, 1, 3))
      /\ <<d[4]>> \in Cards /\ Held(Without(t.shoe, SubSeq(d, 1, 3)), <<d[4]>>)
  BY <1>1, FourthCard
<1>4. shown \in Tables /\ Off(shown) = 0 /\ shown.shoe = Without(t.shoe, SubSeq(d, 1, 3))
  <2> DEFINE three == SubSeq(d, 1, 3)
  <2>1. three \in Cards /\ Held(t.shoe, three)
    BY <1>3
  <2> HIDE DEF three
  <2>2. LET u == Exposing(t, three)
        IN u \in Tables /\ Off(u) = Off(t) /\ u.shoe = Without(t.shoe, three)
    BY <1>1, <2>1, ExposedIs
  <2> QED
    BY <1>1, <2>2 DEF three
<1> HIDE DEF shown
<1>5. shown.shoe \in Shoes /\ shown.count \in Int /\ Held(shown.shoe, <<d[4]>>)
  BY <1>3, <1>4 DEF Tables
<1>6. shoe \in Shoes /\ Seen(shoe) = Seen(shown.shoe) + Tag(d[4])
  <2>1. Tags(<<d[4]>>) = Tag(d[4])
    BY <1>2, TagOfOne
  <2> QED
    BY <1>3, <1>5, <2>1, SeenGrows
<1> HIDE DEF shoe
<1>7. v \in Tables /\ v.count = shown.count /\ v.shoe = shoe
  BY <1>4, <1>6 DEF Tables
<1>8. Off(v) = 0 - Tag(d[4])
  <2>1. Seen(shown.shoe) \in Int /\ Tag(d[4]) \in Int
    BY <1>2, <1>5, SeenIs, CardValues
  <2>2. shown.count - Seen(shown.shoe) = 0
    BY <1>4 DEF Off
  <2>3. Off(v) = shown.count - Seen(shoe)
    BY <1>7 DEF Off
  <2> QED
    BY <1>5, <1>6, <2>1, <2>2, <2>3
<1> HIDE DEF v
<1>9. <<d[1], d[3]>> \in Cards /\ Len(<<d[1], d[3]>>) = 2 /\ Total(<<d[1], d[3]>>) <= 21
  BY <1>2, TwoCards
<1>10. mine \in Seq(Hands) /\ DOMAIN mine = {1} /\ Open(mine[1])
  <2> DEFINE cards == <<d[1], d[3]>>
             hand == NewHand(cards, FALSE, FALSE)
  <2>1. cards \in Cards /\ Len(cards) = 2 /\ Total(cards) <= 21
    BY <1>9
  <2> HIDE DEF cards
  <2>2. hand \in Hands /\ Open(hand)
    <3>1. hand \in Hands
      BY <2>1, NewHandIs
    <3>2. /\ hand.done = FALSE /\ hand.doubled = FALSE /\ hand.surrendered = FALSE
          /\ hand.split = FALSE /\ hand.cards = cards
      BY DEF NewHand
    <3> HIDE DEF hand
    <3>3. Len(hand.cards) >= 2 /\ Total(hand.cards) <= 21
      <4>1. Len(cards) >= 2
        BY <2>1
      <4> QED
        BY <2>1, <3>2, <4>1
    <3>4. Open(hand)
      BY <3>2, <3>3 DEF Open
    <3> QED
      BY <3>1, <3>4
  <2> HIDE DEF hand
  <2>3. mine = <<hand>>
    BY DEF hand, cards
  <2>4. mine \in Seq(Hands) /\ DOMAIN mine = {1} /\ mine[1] = hand
    <3>1. <<hand>> \in Seq(Hands) /\ DOMAIN <<hand>> = {1} /\ <<hand>>[1] = hand
      BY <2>2
    <3> HIDE DEF mine
    <3> QED
      BY <2>3, <3>1
  <2> HIDE DEF mine
  <2> QED
    BY <2>2, <2>4
<1> HIDE DEF mine
<1>11. r \in Rounds
  <2>1. <<d[2]>> \in Cards
    BY <1>2 DEF Cards
  <2> QED
    BY <1>2, <1>10, <2>1 DEF Rounds
<1>12. /\ r.phase = "player" /\ r.hole = d[4] /\ Len(r.dealer) = 1 /\ r.active = 1
       /\ r.hands = mine
  OBVIOUS
<1> HIDE DEF r
<1>13. dealt \in Tables /\ dealt.round = r /\ Off(dealt) = Off(v)
  BY <1>7, <1>11, RoundReplaced
<1>14. Dealt(t, d) = IF SettlesAtOnce(d[1], d[2], d[3], d[4])
                     THEN SettledAtOnce(Revealed(dealt)) ELSE dealt
  <2>1. dealt = [shown EXCEPT !.shoe = Without(@, <<d[4]>>), !.round = r]
    BY <1>4 DEF v, shoe, Tables
  <2> QED
    BY <2>1 DEF Dealt, shown, r, mine
<1> HIDE DEF dealt
<1>15. Concealed(dealt)
  BY <1>2, <1>8, <1>12, <1>13 DEF Concealed
<1>16. CASE SettlesAtOnce(d[1], d[2], d[3], d[4])
  BY <1>14, <1>15, <1>16, SettledAtOnceIs DEF TableInv, Shown
<1>17. CASE ~SettlesAtOnce(d[1], d[2], d[3], d[4])
  <2>1. ToPlay(dealt) = {1}
    BY <1>10, <1>12, <1>13 DEF ToPlay, Open
  <2>2. InPlay(dealt)
    BY <1>10, <1>12, <1>13, <1>15, <2>1 DEF InPlay
  <2>3. Playing(dealt)
    BY <1>12, <1>13, <2>1, <2>2 DEF Playing
  <2> QED
    BY <1>12, <1>13, <1>14, <1>17, <2>3 DEF TableInv
<1> QED
  BY <1>16, <1>17

(* A hand that is done, or can still be played.                            *)
Playable == {hand \in Hands : ~hand.done => Open(hand)}

(* In a round in play every hand is done or can be played.                 *)
LEMMA PlayableHands ==
  ASSUME NEW t, InPlay(t)
  PROVE  /\ t.round.hands \in Seq(Playable) /\ t \in Tables /\ t.shoe \in Shoes
         /\ DOMAIN t.round.hands = 1..Len(t.round.hands) /\ Len(t.round.hands) \in Nat
<1>1. t \in Tables
  BY DEF InPlay, Concealed
<1>2. \A i \in DOMAIN t.round.hands : t.round.hands[i] \in Playable
  <2> SUFFICES ASSUME NEW i \in DOMAIN t.round.hands PROVE t.round.hands[i] \in Playable
    OBVIOUS
  <2>1. t.round.hands[i] \in Hands
    BY <1>1, ToPlayIs
  <2>2. ~t.round.hands[i].done => Open(t.round.hands[i])
    BY DEF InPlay, ToPlay
  <2> QED
    BY <2>1, <2>2 DEF Playable
<1>3. t.round.hands \in Seq(Hands)
  BY <1>1, ToPlayIs
<1>4. t.round.hands \in Seq(Playable)
  <2> DEFINE s == t.round.hands
  <2>1. s \in Seq(Hands) /\ \A i \in DOMAIN s : s[i] \in Playable
    BY <1>2, <1>3
  <2> HIDE DEF s
  <2>2. s \in Seq(Playable)
    BY <2>1
  <2> QED
    BY <2>2 DEF s
<1> QED
  BY <1>1, <1>4, ToPlayIs DEF Tables

(* The active hand of a round in play.                                     *)
LEMMA ActiveIs ==
  ASSUME TableInv(table), MayAct
  PROVE  /\ InPlay(table) /\ Active \in Hands /\ Open(Active)
         /\ table.round.active \in DOMAIN table.round.hands
         /\ Active.cards \in Cards /\ Len(Active.cards) \in Nat
<1>1. Playing(table)
  BY DEF TableInv, MayAct
<1>2. table.round.active \in ToPlay(table) /\ InPlay(table) /\ table \in Tables
  BY <1>1 DEF Playing, TableInv
<1>3. table.round.active \in DOMAIN table.round.hands
  BY <1>2 DEF ToPlay
<1>4. Active \in Hands /\ Open(Active)
  BY <1>2, <1>3, ToPlayIs DEF InPlay, Active
<1>5. Active.cards \in Cards
  BY <1>4 DEF Hands
<1> QED
  BY <1>2, <1>3, <1>4, <1>5, PlacesOf

(* The hands changed and cards shown, the round stays in play.             *)
LEMMA HandsChanged ==
  ASSUME NEW t, InPlay(t), NEW drawn \in Cards, Held(t.shoe, drawn),
         NEW hands \in Seq(Playable)
  PROVE  InPlay([Exposing(t, drawn) EXCEPT !.round.hands = hands])
<1> DEFINE v == Exposing(t, drawn)
           r == [t.round EXCEPT !.hands = hands]
           u == [v EXCEPT !.round = r]
<1>1. t \in Tables /\ t.round \in Rounds /\ Concealed(t) /\ t.round.phase = "player"
  BY DEF InPlay, Concealed, Tables
<1>2. v \in Tables /\ Off(v) = Off(t) /\ v.round = t.round
  BY <1>1, ExposedIs
<1> HIDE DEF v
<1>3. hands \in Seq(Hands) /\ \A i \in DOMAIN hands : hands[i] \in Playable
  BY DEF Playable
<1>4. /\ r \in Rounds /\ r.hands = hands /\ r.dealer = t.round.dealer
      /\ r.hole = t.round.hole /\ r.phase = "player"
  <2>1. 1 \in Nat
    OBVIOUS
  <2> QED
    BY <1>1, <1>3, <2>1, RoundChanged
<1>5. [v EXCEPT !.round.hands = hands] = u
  BY <1>2
<1> HIDE DEF r
<1>6. u \in Tables /\ u.round = r /\ Off(u) = Off(v)
  BY <1>2, <1>4, RoundReplaced
<1> HIDE DEF u
<1>7. Concealed(u)
  BY <1>1, <1>2, <1>4, <1>6 DEF Concealed
<1>8. \A i \in ToPlay(u) : Open(u.round.hands[i])
  BY <1>3, <1>4, <1>6 DEF ToPlay, Playable
<1>9. InPlay(u)
  BY <1>4, <1>6, <1>7, <1>8 DEF InPlay
<1> QED
  BY <1>5, <1>9 DEF v

(* The active hand changed to another that is done or can be played.       *)
LEMMA BecomesIs ==
  ASSUME TableInv(table), MayAct, NEW hand \in Playable,
         NEW drawn \in Cards, Held(table.shoe, drawn),
         NEW u \in Becomes(hand, drawn)
  PROVE  TableInv(u)
<1> DEFINE a == table.round.active
           v == Exposing(table, drawn)
           hands == [table.round.hands EXCEPT ![a] = hand]
<1>1. InPlay(table) /\ table \in Tables /\ a \in DOMAIN table.round.hands
      /\ table.round.hands \in Seq(Playable)
  BY ActiveIs, PlayableHands
<1>2. hands \in Seq(Playable)
  <2> DEFINE s == table.round.hands
             x == [s EXCEPT ![a] = hand]
  <2>1. s \in Seq(Playable) /\ a \in DOMAIN s
    BY <1>1
  <2> HIDE DEF s, a
  <2>2. x \in Seq(Playable)
    BY <2>1
  <2> QED
    BY <2>2 DEF s
<1>3. v.round = table.round /\ v \in Tables
  BY <1>1, ExposedIs
<1>4. [v EXCEPT !.round.hands[a] = hand] = [v EXCEPT !.round.hands = hands]
  <2> HIDE DEF v, a
  <2> QED
    BY <1>3
<1>5. InPlay([v EXCEPT !.round.hands = hands])
  <2> HIDE DEF hands
  <2> QED
    BY <1>1, <1>2, HandsChanged
<1>6. u \in Advanced([v EXCEPT !.round.hands = hands])
  BY <1>4 DEF Becomes
<1> HIDE DEF v, hands
<1> QED
  BY <1>5, <1>6, AdvancedIs

(* A pair parted takes the place of the pair.                              *)
LEMMA PartedIs ==
  ASSUME NEW s \in Seq(Playable), NEW at \in 1..Len(s), NEW a \in Playable, NEW b \in Playable
  PROVE  SubSeq(s, 1, at - 1) \o <<a, b>> \o SubSeq(s, at + 1, Len(s)) \in Seq(Playable)
<1>1. Len(s) \in Nat /\ at \in Int /\ at - 1 \in Int /\ at + 1 \in Int /\ Len(s) \in Int
      /\ \A i \in 1..Len(s) : s[i] \in Playable
  OBVIOUS
<1>2. SubSeq(s, 1, at - 1) \in Seq(Playable)
  <2>1. \A i \in 1..(at - 1) : s[i] \in Playable
    BY <1>1
  <2> QED
    BY <1>1, <2>1, SubSeqProperties
<1>3. SubSeq(s, at + 1, Len(s)) \in Seq(Playable)
  <2>1. \A i \in (at + 1)..Len(s) : s[i] \in Playable
    BY <1>1
  <2> QED
    BY <1>1, <2>1, SubSeqProperties
<1>4. <<a, b>> \in Seq(Playable)
  OBVIOUS
<1> QED
  BY <1>2, <1>3, <1>4, ConcatProperties

(* A round is started, or the review if the cut card was reached.          *)
LEMMA StartedIs ==
  ASSUME NEW t, Shown(t), NEW u \in Started(t)
  PROVE  TableInv(u)
<1>1. CASE Size(t.shoe) < CutCard
  <2> DEFINE v == [t EXCEPT !.review = TRUE]
  <2>1. t \in Tables /\ Off(t) = 0 /\ 0 \in Nat /\ TRUE \in BOOLEAN
    BY DEF Shown
  <2>2. v \in Tables /\ Off(v) = 0
    BY <2>1, TableReplaced
  <2>3. NoRound \in Rounds /\ NoRound.phase = "none"
    BY DEF NoRound, Rounds, Cards
  <2>4. u = [v EXCEPT !.round = NoRound]
    BY <1>1 DEF Started
  <2> HIDE DEF v
  <2>5. u \in Tables /\ u.round = NoRound /\ Off(u) = 0
    BY <2>2, <2>3, <2>4, RoundReplaced
  <2> QED
    BY <2>3, <2>5 DEF TableInv, Shown
<1>2. CASE ~(Size(t.shoe) < CutCard)
  <2>1. PICK d \in Draws(t.shoe, 4) : u = Dealt(t, d)
    BY <1>2 DEF Started
  <2> QED
    BY <2>1, DealtIs
<1> QED
  BY <1>1, <1>2

(* Nothing of a full shoe has been seen.                                   *)
LEMMA NothingSeen == FullShoe \in Shoes /\ Seen(FullShoe) = 0
<1> DEFINE f == [r \in Ranks |-> Tag(r) * (Copies - FullShoe[r])]
<1>1. FullShoe \in Shoes
  BY BlackjackAssumption DEF FullShoe, Shoes
<1>2. \A r \in Ranks : f[r] = 0
  <2> SUFFICES ASSUME NEW r \in Ranks PROVE f[r] = 0
    OBVIOUS
  <2> DEFINE a == Tag(r)
             b == Copies
  <2>1. a \in Int /\ b \in Int /\ f[r] = a * (b - b)
    BY CardValues, BlackjackAssumption DEF FullShoe
  <2> HIDE DEF a, b, f
  <2> QED
    BY <2>1
<1>3. Seen(FullShoe) = SumOver(f, Ranks)
  BY <1>1, SeenIs
<1> HIDE DEF f
<1>4. SumOver(f, Ranks) = 0 * Cardinality({})
  <2>1. {} \in SUBSET Ranks /\ 0 \in Int /\ IsFiniteSet(Ranks)
    BY RanksAreFinite
  <2>2. \A r \in Ranks : f[r] = IF r \in {} THEN 0 ELSE 0
    BY <1>2
  <2> QED
    BY <2>1, <2>2, OverCounts
<1> QED
  BY <1>1, <1>3, <1>4, FS_EmptySet

(* A new table starts right.                                               *)
LEMMA NewTableIs ==
  ASSUME NEW u \in NewTables
  PROVE  TableInv(u)
<1> DEFINE t == [ shoe |-> FullShoe, count |-> 0, round |-> NoRound, completed |-> 0,
                  checkpoints |-> 0, awaiting |-> FALSE, review |-> FALSE ]
<1>1. NoRound \in Rounds
  BY DEF NoRound, Rounds, Cards
<1>2. t \in Tables
  BY <1>1, NothingSeen DEF Tables
<1>3. Off(t) = 0
  BY NothingSeen DEF Off
<1>4. u \in Started(t)
  BY DEF NewTables
<1> HIDE DEF t
<1> QED
  BY <1>2, <1>3, <1>4, StartedIs DEF Shown

-----------------------------------------------------------------------------
(* A hand hit can be hit again below twenty-one only.                      *)
LEMMA HitHolds ==
  ASSUME TableInv(table), Hit
  PROVE  TableInv(table')
<1> DEFINE cards(c) == Append(Active.cards, c)
           with(c) == [Active EXCEPT !.cards = cards(c)]
           full(c) == (Total(cards(c)) >= 21)
           hand(c) == [with(c) EXCEPT !.done = full(c)]
<1>1. MayAct /\ Active \in Hands /\ Open(Active) /\ Active.cards \in Cards
      /\ Len(Active.cards) \in Nat /\ table.shoe \in Shoes
  BY ActiveIs DEF Hit, TableInv, Tables
<1>2. PICK c \in Left(table.shoe) :
        table' \in Becomes([Active EXCEPT !.cards = cards(c), !.done = (Total(cards(c)) >= 21)],
                           <<c>>)
  BY DEF Hit
<1>3. <<c>> \in Cards /\ Held(table.shoe, <<c>>) /\ c \in Ranks
  BY <1>1, OneCard
<1>4. cards(c) \in Cards /\ Len(cards(c)) = Len(Active.cards) + 1 /\ cards(c)[1] = Active.cards[1]
  <2> DEFINE s == Active.cards
  <2>1. s \in Seq(Ranks) /\ Len(s) >= 2 /\ c \in Ranks
    BY <1>1, <1>3 DEF Open, Cards
  <2> HIDE DEF s
  <2>2. Append(s, c) \in Seq(Ranks) /\ Len(Append(s, c)) = Len(s) + 1 /\ Append(s, c)[1] = s[1]
    BY <2>1
  <2> QED
    BY <2>2 DEF s, Cards
<1>5. table' \in Becomes(hand(c), <<c>>)
  <2>1. [Active EXCEPT !.cards = cards(c), !.done = (Total(cards(c)) >= 21)] = hand(c)
    OBVIOUS
  <2> QED
    BY <1>2, <2>1
<1> HIDE DEF cards
<1>6. with(c) \in Hands /\ with(c).cards = cards(c) /\ with(c).split = Active.split
      /\ with(c).doubled = Active.doubled /\ with(c).surrendered = Active.surrendered
  BY <1>1, <1>4 DEF Hands
<1>7. Total(cards(c)) \in Int /\ full(c) \in BOOLEAN /\ (~full(c) => Total(cards(c)) <= 21)
  <2> DEFINE total == Total(cards(c))
  <2>1. total \in Int
    BY <1>4, TotalIs
  <2> HIDE DEF total
  <2>2. (total >= 21) \in BOOLEAN /\ (~(total >= 21) => total <= 21)
    BY <2>1
  <2> QED
    BY <2>1, <2>2 DEF total
<1> HIDE DEF with, full
<1>8. /\ hand(c) \in Hands /\ hand(c).cards = cards(c) /\ hand(c).split = Active.split
      /\ hand(c).doubled = Active.doubled /\ hand(c).surrendered = Active.surrendered
      /\ hand(c).done = full(c)
  BY <1>6, <1>7 DEF Hands
<1> HIDE DEF hand
<1>9. ASSUME ~hand(c).done
      PROVE  Open(hand(c))
  <2>2. Total(cards(c)) <= 21
    BY <1>8, <1>9, <1>7
  <2>3. Len(cards(c)) >= 2
    BY <1>1, <1>4 DEF Open
  <2> QED
    BY <1>1, <1>4, <1>8, <1>9, <2>2, <2>3 DEF Open
<1>10. hand(c) \in Playable
  BY <1>8, <1>9 DEF Playable
<1> QED
  BY <1>1, <1>3, <1>5, <1>10, BecomesIs

(* A hand stood on is done.                                                *)
LEMMA StandHolds ==
  ASSUME TableInv(table), Stand
  PROVE  TableInv(table')
<1> DEFINE hand == [Active EXCEPT !.done = TRUE]
<1>1. MayAct /\ Active \in Hands /\ table.shoe \in Shoes
  BY ActiveIs DEF Stand, TableInv, Tables
<1>2. hand \in Playable
  BY <1>1 DEF Playable, Hands
<1>3. table' \in Becomes(hand, <<>>)
  BY DEF Stand
<1> HIDE DEF hand
<1> QED
  BY <1>1, <1>2, <1>3, NoCard, BecomesIs

(* A hand given up is done.                                                *)
LEMMA SurrenderHolds ==
  ASSUME TableInv(table), Surrender
  PROVE  TableInv(table')
<1> DEFINE hand == [Active EXCEPT !.surrendered = TRUE, !.done = TRUE]
<1>1. MayAct /\ Active \in Hands /\ table.shoe \in Shoes
  BY ActiveIs DEF Surrender, TableInv, Tables
<1>2. hand \in Playable
  BY <1>1 DEF Playable, Hands
<1>3. table' \in Becomes(hand, <<>>)
  BY DEF Surrender
<1> HIDE DEF hand
<1> QED
  BY <1>1, <1>2, <1>3, NoCard, BecomesIs

(* A doubled hand is done with one more card.                              *)
LEMMA DoubleHolds ==
  ASSUME TableInv(table), Double
  PROVE  TableInv(table')
<1> DEFINE cards(c) == Append(Active.cards, c)
           with(c) == [Active EXCEPT !.cards = cards(c)]
           hand(c) == [with(c) EXCEPT !.doubled = TRUE, !.done = TRUE]
<1>1. MayAct /\ Active \in Hands /\ Active.cards \in Cards /\ table.shoe \in Shoes
  BY ActiveIs DEF Double, TableInv, Tables
<1>2. PICK c \in Left(table.shoe) :
        table' \in Becomes([Active EXCEPT !.cards = Append(@, c), !.doubled = TRUE, !.done = TRUE],
                           <<c>>)
  BY DEF Double
<1>3. <<c>> \in Cards /\ Held(table.shoe, <<c>>) /\ c \in Ranks
  BY <1>1, OneCard
<1>4. cards(c) \in Cards
  BY <1>1, <1>3 DEF Cards
<1>5. table' \in Becomes(hand(c), <<c>>)
  <2>1. [Active EXCEPT !.cards = Append(@, c), !.doubled = TRUE, !.done = TRUE] = hand(c)
    BY <1>1 DEF Hands
  <2> QED
    BY <1>2, <2>1
<1> HIDE DEF cards
<1>6. with(c) \in Hands
  BY <1>1, <1>4 DEF Hands
<1> HIDE DEF with
<1>7. hand(c) \in Playable
  BY <1>6 DEF Playable, Hands
<1> HIDE DEF hand
<1> QED
  BY <1>1, <1>3, <1>5, <1>7, BecomesIs

(* A half of a pair: of aces it is done, of others it can be played.       *)
LEMMA HalfIs ==
  ASSUME NEW hand \in Hands, Open(hand), NEW a \in Ranks, NEW b \in Ranks
  PROVE  [hand EXCEPT !.cards = <<a, b>>, !.split = TRUE, !.done = (a = "A")] \in Playable
<1> DEFINE cards == <<a, b>>
           u == [hand EXCEPT !.cards = cards]
           v == [u EXCEPT !.split = TRUE]
           w == [v EXCEPT !.done = (a = "A")]
<1>1. cards \in Cards /\ Len(cards) >= 2 /\ Total(cards) <= 21 /\ cards[1] = a
  <2>1. cards \in Cards /\ Len(cards) = 2 /\ Total(cards) <= 21
    BY TwoCards
  <2> QED
    BY <2>1
<1>2. [hand EXCEPT !.cards = <<a, b>>, !.split = TRUE, !.done = (a = "A")] = w
  OBVIOUS
<1> HIDE DEF cards
<1>3. u \in Hands /\ u.cards = cards /\ u.doubled = hand.doubled /\ u.surrendered = hand.surrendered
  BY <1>1 DEF Hands
<1> HIDE DEF u
<1>4. v \in Hands /\ v.cards = cards /\ v.doubled = hand.doubled /\ v.surrendered = hand.surrendered
  BY <1>3 DEF Hands
<1> HIDE DEF v
<1>5. w \in Hands /\ w.cards = cards /\ w.doubled = hand.doubled /\ w.surrendered = hand.surrendered
      /\ w.done = (a = "A")
  BY <1>4 DEF Hands
<1> HIDE DEF w
<1>6. ~w.done => Open(w)
  BY <1>1, <1>5 DEF Open
<1> QED
  BY <1>2, <1>5, <1>6 DEF Playable

(* Both halves of a pair are in its place.                                 *)
LEMMA SplitHolds ==
  ASSUME TableInv(table), Split
  PROVE  TableInv(table')
<1> DEFINE hands == table.round.hands
           at == table.round.active
           half(drawn, i) == [ Active EXCEPT !.cards = <<Active.cards[i], drawn[i]>>, !.split = TRUE,
                                             !.done = (Active.cards[i] = "A") ]
           parted(drawn) == SubSeq(hands, 1, at - 1) \o <<half(drawn, 1), half(drawn, 2)>>
                              \o SubSeq(hands, at + 1, Len(hands))
<1>1. /\ MayAct /\ MaySplit /\ Active \in Hands /\ Open(Active) /\ Active.cards \in Cards
      /\ InPlay(table) /\ at \in 1..Len(hands) /\ hands \in Seq(Playable) /\ table.shoe \in Shoes
  BY ActiveIs, PlayableHands DEF Split
<1>2. PICK drawn \in Draws(table.shoe, 2) :
        table' \in Advanced([Exposing(table, drawn) EXCEPT !.round.hands = parted(drawn)])
  BY DEF Split
<1>3. drawn \in Cards /\ Held(table.shoe, drawn) /\ drawn[1] \in Ranks /\ drawn[2] \in Ranks
  <2>1. 2 \in Nat /\ 1 \in 1..2 /\ 2 \in 1..2
    OBVIOUS
  <2> QED
    BY <1>1, <2>1, DrawsAre
<1>4. Active.cards[1] \in Ranks /\ Active.cards[2] \in Ranks
  <2>1. Len(Active.cards) = 2
    BY <1>1 DEF MaySplit
  <2>2. 1 \in DOMAIN Active.cards /\ 2 \in DOMAIN Active.cards
    BY <1>1, <2>1, PlacesOf
  <2> QED
    BY <1>1, <2>2, PlacesOf
<1>5. half(drawn, 1) \in Playable /\ half(drawn, 2) \in Playable
  BY <1>1, <1>3, <1>4, HalfIs
<1> HIDE DEF half, hands, at
<1>6. parted(drawn) \in Seq(Playable)
  BY <1>1, <1>5, PartedIs
<1> HIDE DEF parted
<1>7. InPlay([Exposing(table, drawn) EXCEPT !.round.hands = parted(drawn)])
  BY <1>1, <1>3, <1>6, HandsChanged
<1> QED
  BY <1>2, <1>7, AdvancedIs

(* Nothing of the round, the shoe or the count is touched.                 *)
LEMMA SameRound ==
  ASSUME NEW t, TableInv(t), NEW u \in Tables, Off(u) = Off(t), u.round = t.round
  PROVE  TableInv(u)
  BY DEF TableInv, Playing, InPlay, Concealed, Shown, ToPlay

(* A checkpoint touches only the questions.                                *)
LEMMA SubmitHolds ==
  ASSUME TableInv(table), SubmitCheckpoint
  PROVE  TableInv(table')
<1> DEFINE n == table.checkpoints + 1
           v == [table EXCEPT !.checkpoints = n]
           w == [v EXCEPT !.awaiting = FALSE]
<1>1. table \in Tables /\ n \in Nat /\ FALSE \in BOOLEAN
  BY DEF TableInv, Tables
<1>2. table' = w
  BY DEF SubmitCheckpoint
<1> HIDE DEF n
<1>3. v \in Tables /\ Off(v) = Off(table) /\ v.round = table.round
  BY <1>1, TableReplaced
<1> HIDE DEF v
<1>4. w \in Tables /\ Off(w) = Off(table) /\ w.round = table.round
  BY <1>1, <1>3, TableReplaced
<1> QED
  BY <1>2, <1>4, SameRound

(* Between rounds every card is counted already.                           *)
LEMMA BetweenHolds ==
  ASSUME TableInv(table), DealNextRound \/ OpenReview \/ NewShoe
  PROVE  TableInv(table')
<1>1. CASE DealNextRound
  <2>1. Shown(table)
    BY <1>1 DEF DealNextRound, BetweenRounds, TableInv
  <2> QED
    BY <1>1, <2>1, StartedIs DEF DealNextRound
<1>2. CASE OpenReview
  <2> DEFINE w == [table EXCEPT !.review = TRUE]
  <2>1. table \in Tables /\ TRUE \in BOOLEAN /\ 0 \in Nat /\ table' = w
    BY <1>2 DEF OpenReview, TableInv
  <2>2. w \in Tables /\ Off(w) = Off(table) /\ w.round = table.round
    BY <2>1, TableReplaced
  <2> QED
    BY <2>1, <2>2, SameRound
<1>3. CASE NewShoe
  BY <1>3, NewTableIs DEF NewShoe
<1> QED
  BY <1>1, <1>2, <1>3

IInv == TableInv(table)

(* A new table has the invariant.                                          *)
LEMMA InitHolds == Init => IInv
  BY NewTableIs DEF Init, IInv

(* Every move keeps it.                                                    *)
LEMMA NextHolds == IInv /\ [Next]_table => IInv'
<1> SUFFICES ASSUME IInv, [Next]_table PROVE IInv'
  OBVIOUS
<1> USE DEF IInv
<1>1. CASE Hit
  BY <1>1, HitHolds
<1>2. CASE Stand
  BY <1>2, StandHolds
<1>3. CASE Double
  BY <1>3, DoubleHolds
<1>4. CASE Surrender
  BY <1>4, SurrenderHolds
<1>5. CASE Split
  BY <1>5, SplitHolds
<1>6. CASE SubmitCheckpoint
  BY <1>6, SubmitHolds
<1>7. CASE DealNextRound \/ OpenReview \/ NewShoe
  BY <1>7, BetweenHolds
<1>8. CASE UNCHANGED table
  BY <1>8
<1> QED
  BY <1>1, <1>2, <1>3, <1>4, <1>5, <1>6, <1>7, <1>8 DEF Next, PlayerActs

(* The inductive invariant: a table has its type, its count is off by the  *)
(* hidden card alone, and the active hand of a round in play is the first  *)
(* that can still be played (applyTableAction, advanceHand, settleRound).  *)
THEOREM TableInvariant == Spec => []IInv
  BY InitHolds, NextHolds, PTL DEF Spec

(* The count the player is judged by is that of the cards he has seen      *)
(* (drawExposed, revealDealerHole and the callers of both).                *)
THEOREM CountHolds == Spec => []CountIsOfSeenCards
<1>1. IInv => CountIsOfSeenCards
  <2> SUFFICES ASSUME IInv PROVE CountIsOfSeenCards
    OBVIOUS
  <2>1. table \in Tables /\ table.shoe \in Shoes /\ table.count \in Int
    BY DEF IInv, TableInv, Tables
  <2>2. Seen(table.shoe) \in Int
    BY <2>1, SeenIs
  <2>3. CASE table.round.phase = "player"
    <3>1. table.round.hole \in Ranks /\ Off(table) = 0 - Tag(table.round.hole)
      BY <2>3 DEF IInv, TableInv, Playing, InPlay, Concealed
    <3>2. Tag(table.round.hole) \in Int
      BY <3>1, CardValues
    <3>3. table.count = Seen(table.shoe) - Tag(table.round.hole)
      BY <2>1, <2>2, <3>1, <3>2 DEF Off
    <3> QED
      BY <2>3, <3>3 DEF CountIsOfSeenCards, Seen
  <2>4. CASE table.round.phase # "player"
    <3>1. table.count = Seen(table.shoe) - 0
      BY <2>1, <2>2, <2>4 DEF IInv, TableInv, Shown, Off
    <3> QED
      BY <2>4, <3>1 DEF CountIsOfSeenCards, Seen
  <2> QED
    BY <2>3, <2>4
<1> QED
  BY <1>1, TableInvariant, PTL

(* Only a hand that can be played is ever active (advanceHand, and the     *)
(* actions of applyTableAction, which do not ask).                         *)
THEOREM OpenHandsHold == Spec => []OnlyOpenHandsPlay
<1>1. IInv => OnlyOpenHandsPlay
  <2> SUFFICES ASSUME IInv, table.round.phase = "player" PROVE OnlyOpenHandsPlay
    BY DEF OnlyOpenHandsPlay
  <2>1. table \in Tables /\ Playing(table) /\ InPlay(table)
    BY DEF IInv, TableInv, Playing
  <2>2. Open(Active)
    BY <2>1 DEF Playing, InPlay, Active
  <2>3. ASSUME NEW i \in 1..(table.round.active - 1)
        PROVE  table.round.hands[i].done
    <3>1. table.round.active \in 1..Len(table.round.hands) /\ Len(table.round.hands) \in Nat
      BY <2>1, ToPlayIs DEF Playing, ToPlay
    <3>2. i \in DOMAIN table.round.hands /\ ~(table.round.active <= i)
      BY <2>1, <3>1, ToPlayIs
    <3>3. i \notin ToPlay(table)
      BY <2>1, <3>2 DEF Playing
    <3> QED
      BY <3>2, <3>3 DEF ToPlay
  <2> QED
    BY <2>2, <2>3 DEF OnlyOpenHandsPlay, Open
<1> QED
  BY <1>1, TableInvariant, PTL
=============================================================================
