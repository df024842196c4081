------------------------- MODULE MarketSimulatorProofs -------------------------
(***************************************************************************)
(* The ladder and the tape of the simulated market, for every band of the  *)
(* fair value, every grid, spread, depth and volatility, every size an     *)
(* order can have and every choice of the random stream.                   *)
(***************************************************************************)
EXTENDS MarketSimulator, FunctionTheorems, FiniteSetTheorems, SequenceTheorems, WellFoundedInduction, TLAPS

(* A side has one level at a price.                                        *)
Distinct(L) == \A l, m \in L : l.price = m.price => l = m

SoundBook(b) ==
    /\ b \in [bid : SUBSET Level, ask : SUBSET Level]
    /\ Distinct(b.bid) /\ Distinct(b.ask)

(* No bid above the bid target, no ask below the ask target.               *)
Within(b, bid, ask) ==
    /\ \A l \in b.bid : l.price <= bid
    /\ \A l \in b.ask : ask <= l.price

(* What a trade can take: parts of levels, one at a price.                 *)
Takes(T) == Distinct(T) /\ \A t \in T : t.quantity \in Nat

------------------------------------------------------------------------------
(* Counting levels by their prices.                                        *)

(* Levels of different prices are as many as their prices.                 *)
LEMMA AsManyAsPrices ==
  ASSUME NEW L \in SUBSET Level, Distinct(L)
  PROVE  /\ IsFiniteSet(L) /\ IsFiniteSet(Prices(L))
         /\ Cardinality(Prices(L)) = Cardinality(L)
<1> DEFINE f == [l \in L |-> l.price]
<1>1. IsFiniteSet(Prices(L))
  <2>1. Ceiling \div LevelSpacing + SpreadSpacings + Depth \in Int
    BY SimulatorAssumption
  <2>2. IsFiniteSet(Position)
    BY <2>1, FS_Interval DEF Position
  <2>3. Prices(L) \in SUBSET Position
    BY DEF Prices, Level
  <2> QED
    BY <2>2, <2>3, FS_Subset
<1>2. f \in Bijection(L, Prices(L))
  <2>1. f \in [L -> Prices(L)]
    BY DEF Prices
  <2>2. \A a, b \in L : f[a] = f[b] => a = b
    BY DEF Distinct
  <2>3. \A t \in Prices(L) : \E s \in L : f[s] = t
    BY DEF Prices
  <2> HIDE DEF f
  <2> QED
    BY <2>1, <2>2, <2>3, Fun_IsBij
<1> HIDE DEF f
<1>3. IsFiniteSet(L) /\ Cardinality(L) <= Cardinality(Prices(L))
  BY <1>1, <1>2, FS_Injection DEF Bijection
<1>4. ExistsBijection(L, Prices(L))
  BY <1>2 DEF ExistsBijection
<1> QED
  BY <1>1, <1>3, <1>4, FS_Bijection

(* Levels whose prices are an interval are as many as it is long.          *)
LEMMA LevelsOfInterval ==
  ASSUME NEW L \in SUBSET Level, Distinct(L), NEW i \in Int, NEW j \in Int, Prices(L) = i..j
  PROVE  IsFiniteSet(L) /\ Cardinality(L) = IF i > j THEN 0 ELSE j - i + 1
  BY AsManyAsPrices, FS_Interval

(* A subset counts no more.                                                *)
LEMMA PartIsNoMore ==
  ASSUME NEW L \in SUBSET Level, Distinct(L), NEW K \in SUBSET L
  PROVE  Cardinality(K) \in Nat /\ Cardinality(L) \in Nat /\ Cardinality(K) <= Cardinality(L)
  BY AsManyAsPrices, FS_Subset, FS_CardinalityType

------------------------------------------------------------------------------
(* Trim.                                                                   *)

(* Of a side that has every position of the window and none better, Trim   *)
(* keeps the window: the levels in it have fewer than Depth before them,   *)
(* those beyond it at least as many.                                       *)
LEMMA TrimBid ==
  ASSUME NEW b, SoundBook(b), NEW p \in Nat, p <= Ceiling \div LevelSpacing,
         \A l \in b.bid : l.price <= p,
         Window("bid", p) \cap Position \subseteq Prices(b.bid)
  PROVE  Prices(Trim(b).bid) = Window("bid", p) \cap Position
<1> DEFINE top == Ceiling \div LevelSpacing + SpreadSpacings + Depth
<1>1. /\ Depth \in Nat /\ Depth > 0 /\ SpreadSpacings \in Nat /\ Ceiling \div LevelSpacing \in Int
      /\ top \in Int /\ p + Depth <= top
  BY SimulatorAssumption
<1>2. Position = 1..top /\ Window("bid", p) = p - Depth + 1..p
  BY DEF Position, Window
<1> HIDE DEF top
<1>3. b.bid \in SUBSET Level /\ Distinct(b.bid) /\ \A l \in b.bid : l.price \in 1..top
  BY <1>2 DEF SoundBook, Level
<1>4. ASSUME NEW l \in b.bid
      PROVE  Cardinality(Ahead(b, "bid", l)) < Depth <=> l.price \in p - Depth + 1..p
  <2> DEFINE A == Ahead(b, "bid", l)
  <2>1. A = {m \in b.bid : m.price > l.price}
    BY DEF Ahead, Better
  <2> HIDE DEF A
  <2>2. A \in SUBSET Level /\ Distinct(A)
    BY <1>3, <2>1 DEF Distinct
  <2>3. l.price \in 1..top /\ l.price <= p
    BY <1>3
  <2>4. CASE l.price \in p - Depth + 1..p
    <3>1. Prices(A) = l.price + 1..p
      <4>1. ASSUME NEW q \in Prices(A) PROVE q \in l.price + 1..p
        <5>1. PICK m \in b.bid : q = m.price /\ m.price > l.price
          BY <2>1 DEF Prices
        <5> QED
          BY <1>3, <2>3, <5>1
      <4>2. ASSUME NEW q \in l.price + 1..p PROVE q \in Prices(A)
        <5>1. q \in 1..top /\ q \in p - Depth + 1..p /\ q > l.price
          BY <1>1, <2>3, <2>4
        <5>2. PICK m \in b.bid : m.price = q
          BY <1>2, <5>1 DEF Prices
        <5> QED
          BY <2>1, <5>1, <5>2 DEF Prices
      <4> QED
        BY <4>1, <4>2
    <3>2. Cardinality(A) = IF l.price + 1 > p THEN 0 ELSE p - (l.price + 1) + 1
      BY <2>2, <2>3, <3>1, LevelsOfInterval
    <3> QED
      BY <1>1, <2>3, <2>4, <3>2 DEF A
  <2>5. CASE l.price \notin p - Depth + 1..p
    <3> DEFINE W == {m \in b.bid : m.price \in p - Depth + 1..p}
    <3>1. l.price < p - Depth + 1
      BY <1>1, <2>3, <2>5
    <3>2. W \in SUBSET A
      <4>1. ASSUME NEW m \in W PROVE m.price > l.price
        BY <1>1, <2>3, <3>1
      <4> QED
        BY <2>1, <4>1
    <3>3. Prices(W) = p - Depth + 1..p
      <4>1. ASSUME NEW q \in p - Depth + 1..p PROVE q \in Prices(W)
        <5>1. q \in 1..top
          BY <1>1, <2>3, <3>1
        <5>2. PICK m \in b.bid : m.price = q
          BY <1>2, <5>1 DEF Prices
        <5> QED
          BY <5>2 DEF Prices
      <4> QED
        BY <4>1 DEF Prices
    <3>4. W \in SUBSET Level /\ Distinct(W)
      BY <1>3 DEF Distinct
    <3> HIDE DEF W
    <3>5. Cardinality(W) = Depth
      <4>1. p - Depth + 1 \in Int /\ ~(p - Depth + 1 > p) /\ p - (p - Depth + 1) + 1 = Depth
        BY <1>1
      <4>2. Cardinality(W) = IF p - Depth + 1 > p THEN 0 ELSE p - (p - Depth + 1) + 1
        BY <3>3, <3>4, <4>1, LevelsOfInterval
      <4> QED
        BY <4>1, <4>2
    <3>6. Cardinality(A) \in Nat /\ Cardinality(W) <= Cardinality(A)
      BY <2>2, <3>2, PartIsNoMore
    <3> QED
      BY <1>1, <2>5, <3>5, <3>6 DEF A
  <2> QED
    BY <2>4, <2>5
<1>5. Trim(b).bid = {l \in b.bid : l.price \in p - Depth + 1..p}
  BY <1>4 DEF Trim
<1>6. ASSUME NEW q \in Prices(Trim(b).bid)
      PROVE  q \in p - Depth + 1..p /\ q \in 1..top
  BY <1>3, <1>5 DEF Prices
<1>7. ASSUME NEW q \in p - Depth + 1..p, q \in 1..top
      PROVE  q \in Prices(Trim(b).bid)
  <2>1. PICK l \in b.bid : l.price = q
    BY <1>2, <1>7 DEF Prices
  <2> QED
    BY <1>5, <1>7, <2>1 DEF Prices
<1> QED
  BY <1>2, <1>6, <1>7

(* The same on the side of the asks, whose window has no position below    *)
(* the first.                                                              *)
LEMMA TrimAsk ==
  ASSUME NEW b, SoundBook(b), NEW p \in Nat \ {0}, NEW bid \in Nat,
         bid <= Ceiling \div LevelSpacing, p = bid + SpreadSpacings,
         \A l \in b.ask : p <= l.price,
         Window("ask", p) \cap Position \subseteq Prices(b.ask)
  PROVE  Prices(Trim(b).ask) = Window("ask", p)
<1> DEFINE top == Ceiling \div LevelSpacing + SpreadSpacings + Depth
           last == p + Depth - 1
<1>1. /\ Depth \in Nat /\ Depth > 0 /\ SpreadSpacings \in Nat /\ Ceiling \div LevelSpacing \in Int
      /\ top \in Int /\ last <= top /\ last \in Int /\ last - p + 1 = Depth
  BY SimulatorAssumption
<1>2. Position = 1..top /\ Window("ask", p) = p..last
  BY DEF Position, Window
<1> HIDE DEF top, last
<1>3. b.ask \in SUBSET Level /\ Distinct(b.ask) /\ \A l \in b.ask : l.price \in 1..top
  BY <1>2 DEF SoundBook, Level
<1>4. p..last \subseteq Prices(b.ask)
  <2>1. p..last \subseteq 1..top
    BY <1>1
  <2> QED
    BY <1>2, <2>1
<1>5. ASSUME NEW l \in b.ask
      PROVE  Cardinality(Ahead(b, "ask", l)) < Depth <=> l.price \in p..last
  <2> DEFINE A == Ahead(b, "ask", l)
  <2>1. A = {m \in b.ask : m.price < l.price}
    BY DEF Ahead, Better
  <2> HIDE DEF A
  <2>2. A \in SUBSET Level /\ Distinct(A)
    BY <1>3, <2>1 DEF Distinct
  <2>3. l.price \in 1..top /\ p <= l.price
    BY <1>3
  <2>4. CASE l.price \in p..last
    <3>1. Prices(A) = p..l.price - 1
      <4>1. ASSUME NEW q \in Prices(A) PROVE q \in p..l.price - 1
        <5>1. PICK m \in b.ask : q = m.price /\ m.price < l.price
          BY <2>1 DEF Prices
        <5> QED
          BY <1>3, <2>3, <5>1
      <4>2. ASSUME NEW q \in p..l.price - 1 PROVE q \in Prices(A)
        <5>1. q \in p..last /\ q < l.price
          BY <1>1, <2>3, <2>4
        <5>2. PICK m \in b.ask : m.price = q
          BY <1>4, <5>1 DEF Prices
        <5> QED
          BY <2>1, <5>1, <5>2 DEF Prices
      <4> QED
        BY <4>1, <4>2
    <3>2. Cardinality(A) = IF p > l.price - 1 THEN 0 ELSE l.price - 1 - p + 1
      BY <2>2, <2>3, <3>1, LevelsOfInterval
    <3> QED
      BY <1>1, <2>3, <2>4, <3>2 DEF A
  <2>5. CASE l.price \notin p..last
    <3> DEFINE W == {m \in b.ask : m.price \in p..last}
    <3>1. last < l.price
      BY <1>1, <2>3, <2>5
    <3>2. W \in SUBSET A
      <4>1. ASSUME NEW m \in W PROVE m.price < l.price
        BY <1>1, <2>3, <3>1
      <4> QED
        BY <2>1, <4>1
    <3>3. Prices(W) = p..last
      <4>1. ASSUME NEW q \in p..last PROVE q \in Prices(W)
        <5>1. PICK m \in b.ask : m.price = q
          BY <1>4 DEF Prices
        <5> QED
          BY <5>1 DEF Prices
      <4> QED
        BY <4>1 DEF Prices
    <3>4. W \in SUBSET Level /\ Distinct(W)
      BY <1>3 DEF Distinct
    <3> HIDE DEF W
    <3>5. Cardinality(W) = Depth
      <4>1. Cardinality(W) = IF p > last THEN 0 ELSE last - p + 1
        BY <1>1, <3>3, <3>4, LevelsOfInterval
      <4> QED
        BY <1>1, <4>1
    <3>6. Cardinality(A) \in Nat /\ Cardinality(W) <= Cardinality(A)
      BY <2>2, <3>2, PartIsNoMore
    <3> QED
      BY <1>1, <2>5, <3>5, <3>6 DEF A
  <2> QED
    BY <2>4, <2>5
<1>6. Trim(b).ask = {l \in b.ask : l.price \in p..last}
  BY <1>5 DEF Trim
<1>7. Prices(Trim(b).ask) \subseteq p..last
  BY <1>6 DEF Prices
<1>8. ASSUME NEW q \in p..last PROVE q \in Prices(Trim(b).ask)
  <2>1. PICK l \in b.ask : l.price = q
    BY <1>4 DEF Prices
  <2> QED
    BY <1>6, <2>1 DEF Prices
<1> QED
  BY <1>2, <1>7, <1>8

(* A trimmed book is part of the book.                                     *)
LEMMA TrimKeeps ==
  ASSUME NEW b, SoundBook(b)
  PROVE  SoundBook(Trim(b))
  BY DEF SoundBook, Trim, Distinct

------------------------------------------------------------------------------
(* Best and Filled.                                                        *)

(* Every set of natural numbers that is not empty has a least element.     *)
LEMMA LeastNumber ==
  ASSUME NEW T, T \subseteq Nat, T # {}
  PROVE  \E x \in T : \A y \in T : x <= y
<1> DEFINE Below == {pair \in Nat \X Nat : pair[1] < pair[2]}
<1>1. IsWellFoundedOn(Below, Nat)
  BY NatLessThanWellFounded DEF OpToRel
<1>2. PICK x \in T : \A y \in T : <<y, x>> \notin Below
  <2> HIDE DEF Below
  <2> QED
    BY <1>1, WFMin
<1>3. ASSUME NEW y \in T PROVE x <= y
  <2>1. x \in Nat /\ y \in Nat /\ <<y, x>> \notin Below
    <3> HIDE DEF Below
    <3> QED
      BY <1>2
  <2> QED
    BY <2>1
<1> QED
  BY <1>3

(* The best bid is the highest, if there is one.                           *)
LEMMA BestBid ==
  ASSUME NEW b, SoundBook(b), b.bid # {}, NEW otherwise
  PROVE  /\ Best(b, "bid", otherwise) \in Prices(b.bid)
         /\ Best(b, "bid", otherwise) \in Position
         /\ \A l \in b.bid : l.price <= Best(b, "bid", otherwise)
<1> DEFINE top == Ceiling \div LevelSpacing + SpreadSpacings + Depth
           depths == {top - l.price : l \in b.bid}
<1>1. top \in Int /\ Position = 1..top
  BY SimulatorAssumption DEF Position
<1> HIDE DEF top
<1>2. b.bid \in SUBSET Level /\ \A l \in b.bid : l.price \in 1..top
  BY <1>1 DEF SoundBook, Level
<1>3. depths \subseteq Nat /\ depths # {}
  BY <1>1, <1>2
<1>4. PICK d \in depths : \A e \in depths : d <= e
  BY <1>3, LeastNumber
<1>5. PICK highest \in b.bid : d = top - highest.price
  BY <1>4
<1>6. ASSUME NEW l \in b.bid PROVE l.price <= highest.price
  <2>1. top - highest.price <= top - l.price
    BY <1>4, <1>5
  <2> QED
    BY <1>1, <1>2, <2>1
<1>7. Ahead(b, "bid", highest) = {}
  BY <1>1, <1>2, <1>6 DEF Ahead, Better
<1>8. PICK l : l = (CHOOSE m \in b.bid : Ahead(b, "bid", m) = {})
  OBVIOUS
<1>9. l \in b.bid /\ Ahead(b, "bid", l) = {}
  BY <1>7, <1>8
<1>10. Best(b, "bid", otherwise) = l.price
  BY <1>8 DEF Best
<1>11. \A m \in b.bid : m.price <= l.price
  BY <1>2, <1>9 DEF Ahead, Better
<1> QED
  BY <1>1, <1>2, <1>9, <1>10, <1>11 DEF Prices

(* The best ask is the lowest, if there is one.                            *)
LEMMA BestAsk ==
  ASSUME NEW b, SoundBook(b), b.ask # {}, NEW otherwise
  PROVE  /\ Best(b, "ask", otherwise) \in Prices(b.ask)
         /\ Best(b, "ask", otherwise) \in Position
         /\ \A l \in b.ask : Best(b, "ask", otherwise) <= l.price
<1> DEFINE top == Ceiling \div LevelSpacing + SpreadSpacings + Depth
<1>1. top \in Int /\ Position = 1..top
  BY SimulatorAssumption DEF Position
<1> HIDE DEF top
<1>2. b.ask \in SUBSET Level /\ \A l \in b.ask : l.price \in 1..top
  BY <1>1 DEF SoundBook, Level
<1>3. Prices(b.ask) \subseteq Nat /\ Prices(b.ask) # {}
  BY <1>1, <1>2 DEF Prices
<1>4. PICK p \in Prices(b.ask) : \A q \in Prices(b.ask) : p <= q
  BY <1>3, LeastNumber
<1>5. PICK lowest \in b.ask : p = lowest.price
  BY DEF Prices
<1>6. ASSUME NEW l \in b.ask PROVE lowest.price <= l.price
  BY <1>4, <1>5 DEF Prices
<1>7. Ahead(b, "ask", lowest) = {}
  BY <1>1, <1>2, <1>6 DEF Ahead, Better
<1>8. PICK l : l = (CHOOSE m \in b.ask : Ahead(b, "ask", m) = {})
  OBVIOUS
<1>9. l \in b.ask /\ Ahead(b, "ask", l) = {}
  BY <1>7, <1>8
<1>10. Best(b, "ask", otherwise) = l.price
  BY <1>8 DEF Best
<1>11. \A m \in b.ask : l.price <= m.price
  BY <1>2, <1>9 DEF Ahead, Better
<1> QED
  BY <1>1, <1>2, <1>9, <1>10, <1>11 DEF Prices


(* Filling gives the side the positions it is filled at, with levels of    *)
(* the sizes asked for, and leaves its levels and the other side alone.    *)
LEMMA FilledSound ==
  ASSUME NEW b, SoundBook(b), NEW s \in Side, NEW where, NEW size \in Sizes
  PROVE  /\ SoundBook(Filled(b, s, where, size))
         /\ Prices(Filled(b, s, where, size)[s]) = Prices(b[s]) \cup (where \cap Position)
         /\ \A r \in Side : r # s => Filled(b, s, where, size)[r] = b[r]
<1> DEFINE Fresh(p) == [price |-> p, quantity |-> size[s][p]]
           open == (where \cap Position) \ Prices(b[s])
           added == {Fresh(p) : p \in open}
           f == Filled(b, s, where, size)
<1>1. \A p \in Position : Fresh(p) \in Level /\ Fresh(p).price = p
  BY SimulatorAssumption DEF Sizes, Level
<1>2. b \in [bid : SUBSET Level, ask : SUBSET Level] /\ b[s] \in SUBSET Level /\ Distinct(b[s])
  BY DEF SoundBook, Side
<1>3. f = [b EXCEPT ![s] = b[s] \cup added]
  BY DEF Filled
<1>4. f[s] = b[s] \cup added /\ \A r \in Side : r # s => f[r] = b[r]
  BY <1>2, <1>3 DEF Side
<1> HIDE DEF Fresh, f
<1>5. added \in SUBSET Level
  BY <1>1
<1>6. Distinct(b[s] \cup added)
  <2>1. ASSUME NEW l \in added PROVE l.price \in open /\ l = Fresh(l.price)
    BY <1>1
  <2>2. ASSUME NEW l \in b[s] PROVE l.price \notin open
    BY DEF Prices
  <2> QED
    BY <1>2, <2>1, <2>2 DEF Distinct
<1>7. f \in [bid : SUBSET Level, ask : SUBSET Level]
  BY <1>2, <1>3, <1>5 DEF Side
<1>8. SoundBook(f)
  BY <1>4, <1>6, <1>7 DEF SoundBook, Side
<1>9. Prices(added) = open
  BY <1>1 DEF Prices
<1>10. Prices(b[s] \cup added) = Prices(b[s]) \cup Prices(added)
  BY DEF Prices
<1> QED
  BY <1>4, <1>8, <1>9, <1>10 DEF f


(* A bid target quoted with none above it is the best bid.                 *)
LEMMA BestIsTarget ==
  ASSUME NEW b, SoundBook(b), NEW bid \in Nat, NEW ask \in Position, bid < ask,
         Within(b, bid, ask)
  PROVE  /\ (bid \in Position => bid \in Prices(b.bid)) => Best(b, "bid", bid) = bid
         /\ ask \in Prices(b.ask) => Best(b, "ask", ask) = ask
<1> DEFINE top == Ceiling \div LevelSpacing + SpreadSpacings + Depth
<1>1. top \in Int /\ Position = 1..top
  BY SimulatorAssumption DEF Position
<1> HIDE DEF top
<1>2. /\ \A l \in b.bid : l.price \in 1..top /\ l.price <= bid
      /\ \A l \in b.ask : l.price \in 1..top /\ ask <= l.price
  BY <1>1 DEF SoundBook, Level, Within
<1>3. ASSUME bid \in Position => bid \in Prices(b.bid)
      PROVE  Best(b, "bid", bid) = bid
  <2>1. CASE b.bid = {}
    BY <2>1 DEF Best
  <2>2. CASE b.bid # {}
    <3>1. PICK x : x = Best(b, "bid", bid)
      OBVIOUS
    <3>2. x \in Prices(b.bid) /\ \A l \in b.bid : l.price <= x
      BY <2>2, <3>1, BestBid
    <3>3. x \in 1..top /\ x <= bid
      BY <1>2, <3>2 DEF Prices
    <3>4. bid \in 1..top
      BY <1>1, <3>3
    <3>5. bid <= x
      BY <1>1, <1>3, <3>2, <3>4 DEF Prices
    <3> QED
      BY <1>1, <3>1, <3>3, <3>5
  <2> QED
    BY <2>1, <2>2
<1>4. ASSUME ask \in Prices(b.ask)
      PROVE  Best(b, "ask", ask) = ask
  <2>1. b.ask # {}
    BY <1>4 DEF Prices
  <2>2. PICK x : x = Best(b, "ask", ask)
    OBVIOUS
  <2>3. x \in Prices(b.ask) /\ \A l \in b.ask : x <= l.price
    BY <2>1, <2>2, BestAsk
  <2>4. x \in 1..top /\ ask <= x
    BY <1>2, <2>3 DEF Prices
  <2>5. x <= ask
    BY <1>4, <2>3 DEF Prices
  <2> QED
    BY <1>1, <2>2, <2>4, <2>5
<1> QED
  BY <1>3, <1>4

(* In a book within its targets each side is quoted exactly at its own.    *)
LEMMA QuotedAtTargets ==
  ASSUME NEW b, SoundBook(b), NEW bid \in Nat, NEW ask \in Position, bid < ask,
         Within(b, bid, ask), NEW size \in Sizes
  PROVE  LET r == Requoted(b, bid, ask, size)
         IN  /\ SoundBook(r)
             /\ Within(r, bid, ask)
             /\ Prices(r.bid) = Prices(b.bid) \cup ({bid} \cap Position)
             /\ Prices(r.ask) = Prices(b.ask) \cup {ask}
<1> DEFINE top == Ceiling \div LevelSpacing + SpreadSpacings + Depth
           bestAsk == Best(b, "ask", bid + 1)
           quoted == Filled(b, "bid", {bid}, size)
           bestBid == Best(quoted, "bid", ask - 1)
           r == Filled(quoted, "ask", {ask}, size)
<1>1. top \in Int /\ Position = 1..top
  BY SimulatorAssumption DEF Position
<1> HIDE DEF top
<1>2. ask \in Nat /\ "bid" \in Side /\ "ask" \in Side
  BY <1>1 DEF Side
<1>3. Least(bid, bestAsk - 1) = bid
  <2>1. CASE b.ask = {}
    BY <2>1 DEF Best, Least
  <2>2. CASE b.ask # {}
    <3>1. bestAsk \in Prices(b.ask) /\ bestAsk \in Position
      BY <2>2, BestAsk
    <3>2. ask <= bestAsk
      BY <3>1 DEF Prices, Within
    <3> HIDE DEF bestAsk
    <3> QED
      BY <1>1, <1>2, <3>1, <3>2 DEF Least
  <2> QED
    BY <2>1, <2>2
<1>4. /\ SoundBook(quoted)
      /\ Prices(quoted.bid) = Prices(b.bid) \cup ({bid} \cap Position)
      /\ quoted.ask = b.ask
  BY <1>2, FilledSound
<1> HIDE DEF quoted
<1>5. \A p \in Prices(quoted.bid) : p <= bid
  BY <1>4 DEF Within, Prices
<1>6. Greatest(ask, bestBid + 1) = ask
  <2>1. CASE quoted.bid = {}
    BY <1>2, <2>1 DEF Best, Greatest
  <2>2. CASE quoted.bid # {}
    <3>1. bestBid \in Prices(quoted.bid) /\ bestBid \in Position
      BY <1>4, <2>2, BestBid
    <3>2. bestBid <= bid
      BY <1>5, <3>1
    <3> HIDE DEF bestBid
    <3> QED
      BY <1>1, <1>2, <3>1, <3>2 DEF Greatest
  <2> QED
    BY <2>1, <2>2
<1>7. Requoted(b, bid, ask, size) = r
  BY <1>3, <1>6 DEF Requoted, quoted
<1>8. /\ SoundBook(r)
      /\ Prices(r.ask) = Prices(quoted.ask) \cup ({ask} \cap Position)
      /\ r.bid = quoted.bid
  BY <1>2, <1>4, FilledSound
<1> HIDE DEF r
<1>9. Within(r, bid, ask)
  <2>1. \A p \in Prices(r.ask) : ask <= p
    BY <1>2, <1>4, <1>8 DEF Within, Prices
  <2> QED
    BY <1>5, <1>8, <2>1 DEF Within, Prices
<1> QED
  BY <1>4, <1>7, <1>8, <1>9

(* Whatever a tick did to the book: as long as no quote is left beyond the *)
(* targets, the ladder it ends with is whole.                              *)
LEMMA LadderWhole ==
  ASSUME NEW b, SoundBook(b), NEW bid \in Nat, bid <= Ceiling \div LevelSpacing,
         Within(b, bid, bid + SpreadSpacings), NEW size \in Sizes
  PROVE  LET z == Ladder(b, bid, bid + SpreadSpacings, size)
         IN  /\ SoundBook(z)
             /\ Prices(z.bid) = Window("bid", bid) \cap Position
             /\ Prices(z.ask) = Window("ask", bid + SpreadSpacings)
<1> DEFINE ask == bid + SpreadSpacings
           r == Requoted(b, bid, ask, size)
           lower == Filled(r, "bid", Window("bid", bid), size)
           z == Filled(lower, "ask", Window("ask", ask), size)
<1>1. /\ ask \in Nat \ {0} /\ bid < ask /\ ask \in Position
      /\ "bid" \in Side /\ "ask" \in Side
  BY SimulatorAssumption DEF Position, Side
<1>2. Within(b, bid, ask)
  OBVIOUS
<1>a. ask = bid + SpreadSpacings
  OBVIOUS
<1> HIDE DEF ask
<1>3. /\ SoundBook(r)
      /\ Within(r, bid, ask)
      /\ bid \in Position => bid \in Prices(r.bid)
      /\ ask \in Prices(r.ask)
  BY <1>1, <1>2, QuotedAtTargets
<1>4. Best(r, "bid", bid) = bid /\ Best(r, "ask", ask) = ask
  BY <1>1, <1>3, BestIsTarget
<1> HIDE DEF r
<1>5. /\ SoundBook(lower)
      /\ Prices(lower.bid) = Prices(r.bid) \cup (Window("bid", bid) \cap Position)
      /\ lower.ask = r.ask
  BY <1>1, <1>3, FilledSound
<1> HIDE DEF lower
<1>6. Within(lower, bid, ask)
  <2>1. ASSUME NEW p \in Window("bid", bid) PROVE p <= bid
    BY SimulatorAssumption DEF Window
  <2>2. \A p \in Prices(lower.bid) : p <= bid
    BY <1>3, <1>5, <2>1 DEF Within, Prices
  <2> QED
    BY <1>3, <1>5, <2>2 DEF Within, Prices
<1>7. Replenished(r, bid, ask, size) = z
  BY <1>4 DEF Replenished, lower
<1>8. /\ SoundBook(z)
      /\ Prices(z.ask) = Prices(lower.ask) \cup (Window("ask", ask) \cap Position)
      /\ z.bid = lower.bid
  BY <1>1, <1>5, FilledSound
<1> HIDE DEF z
<1>9. Within(z, bid, ask)
  <2>1. ASSUME NEW p \in Window("ask", ask) PROVE ask <= p
    BY <1>1, SimulatorAssumption DEF Window
  <2>2. \A p \in Prices(z.ask) : ask <= p
    BY <1>6, <1>8, <2>1 DEF Within, Prices
  <2> QED
    BY <1>6, <1>8, <2>2 DEF Within, Prices
<1>10. SoundBook(Trim(z))
  BY <1>8, TrimKeeps
<1>11. Prices(Trim(z).bid) = Window("bid", bid) \cap Position
  <2>1. \A l \in z.bid : l.price <= bid
    BY <1>9 DEF Within
  <2>2. Window("bid", bid) \cap Position \subseteq Prices(z.bid)
    BY <1>5, <1>8
  <2> QED
    BY <1>8, <2>1, <2>2, TrimBid
<1>12. Prices(Trim(z).ask) = Window("ask", ask)
  <2>1. \A l \in z.ask : ask <= l.price
    BY <1>9 DEF Within
  <2>2. Window("ask", ask) \cap Position \subseteq Prices(z.ask)
    BY <1>8
  <2> QED
    BY <1>1, <1>8, <1>a, <2>1, <2>2, TrimAsk
<1>13. Ladder(b, bid, ask, size) = Trim(z)
  BY <1>7 DEF Ladder, r
<1> QED
  BY <1>10, <1>11, <1>12, <1>13, <1>a

------------------------------------------------------------------------------
(* What a stray trade spends.                                              *)

(* Induction, as a fact about sets: one that contains 0, and n + 1         *)
(* whenever it contains n, contains every natural number.                  *)
LEMMA NatSetInduction ==
  ASSUME NEW S, 0 \in S, \A n \in Nat : n \in S => n + 1 \in S
  PROVE  Nat \subseteq S
<1> SUFFICES ASSUME Nat \ S # {} PROVE FALSE
  OBVIOUS
<1>1. PICK x \in Nat \ S : \A y \in Nat \ S : x <= y
  BY LeastNumber
<1>2. x # 0 /\ x - 1 \in Nat /\ x - 1 + 1 = x
  BY <1>1
<1> QED
  BY <1>1, <1>2

(* The level a sum over a set adds first.                                  *)
Pick(s) == CHOOSE l \in s : TRUE

(* h sums the quantities of each of these sets of levels.                  *)
Sums(h, sets) ==
    h = [s \in sets |-> IF s = {} THEN 0 ELSE Pick(s).quantity + h[s \ {Pick(s)}]]

(* By induction on the size of the sets there is a function that sums the  *)
(* quantities of every set of levels.                                      *)
LEMMA SumExists ==
  ASSUME NEW S, IsFiniteSet(S)
  PROVE  \E h : Sums(h, SUBSET S)
<1> DEFINE UpTo(n) == {s \in SUBSET S : Cardinality(s) <= n}
           Good == {n \in Nat : \E h : Sums(h, UpTo(n))}
<1>1. \A s \in SUBSET S : /\ IsFiniteSet(s) /\ Cardinality(s) \in Nat
                          /\ Cardinality(s) = 0 <=> s = {}
                          /\ Cardinality(s) <= Cardinality(S)
  BY FS_Subset, FS_CardinalityType, FS_EmptySet
<1>2. ASSUME NEW s \in SUBSET S, s # {}
      PROVE  /\ Pick(s) \in s /\ s \ {Pick(s)} \in SUBSET S
             /\ Cardinality(s \ {Pick(s)}) = Cardinality(s) - 1
  <2>1. Pick(s) \in s
    BY <1>2 DEF Pick
  <2> QED
    BY <1>1, <2>1, FS_RemoveElement
<1>3. 0 \in Good
  <2> DEFINE h == [s \in UpTo(0) |-> 0]
  <2>1. \A s \in UpTo(0) : s = {}
    BY <1>1
  <2>2. h = [s \in UpTo(0) |-> IF s = {} THEN 0 ELSE Pick(s).quantity + h[s \ {Pick(s)}]]
    BY <2>1
  <2> HIDE DEF h
  <2> QED
    BY <2>2 DEF Sums
<1>4. ASSUME NEW n \in Nat, n \in Good PROVE n + 1 \in Good
  <2>1. PICK h : Sums(h, UpTo(n))
    BY <1>4
  <2> DEFINE g == [s \in UpTo(n + 1) |->
                     IF s \in UpTo(n) THEN h[s] ELSE Pick(s).quantity + h[s \ {Pick(s)}]]
  <2>2. ASSUME NEW s \in UpTo(n + 1)
        PROVE  g[s] = IF s = {} THEN 0 ELSE Pick(s).quantity + g[s \ {Pick(s)}]
    <3>1. CASE s = {}
      <4>1. s \in UpTo(n) /\ g[s] = h[s]
        BY <1>1, <3>1
      <4> HIDE DEF g, UpTo
      <4> QED
        BY <2>1, <3>1, <4>1 DEF Sums
    <3>2. CASE s # {}
      <4>1. s \ {Pick(s)} \in UpTo(n) /\ s \ {Pick(s)} \in UpTo(n + 1)
        BY <1>1, <1>2, <3>2
      <4>2. g[s \ {Pick(s)}] = h[s \ {Pick(s)}]
        BY <4>1
      <4>3. s \in UpTo(n) => h[s] = Pick(s).quantity + h[s \ {Pick(s)}]
        <5> HIDE DEF UpTo
        <5> QED
          BY <2>1, <3>2 DEF Sums
      <4>4. g[s] = Pick(s).quantity + h[s \ {Pick(s)}]
        BY <4>3
      <4> HIDE DEF g
      <4> QED
        BY <3>2, <4>2, <4>4
    <3> QED
      BY <3>1, <3>2
  <2>3. g = [s \in UpTo(n + 1) |-> g[s]]
    OBVIOUS
  <2> HIDE DEF g, UpTo
  <2>4. Sums(g, UpTo(n + 1))
    BY <2>2, <2>3 DEF Sums
  <2> QED
    BY <2>4
<1>5. Cardinality(S) \in Nat /\ UpTo(Cardinality(S)) = SUBSET S
  BY <1>1
<1> HIDE DEF UpTo
<1>6. Cardinality(S) \in Good
  <2> HIDE DEF Good
  <2> QED
    BY <1>3, <1>4, <1>5, NatSetInduction
<1> QED
  BY <1>5, <1>6

(* So the levels ahead of one hold a natural quantity.                     *)
LEMMA SumIsNatural ==
  ASSUME NEW S \in SUBSET Level, IsFiniteSet(S)
  PROVE  MapThenSumSet(LAMBDA l : l.quantity, S) \in Nat
<1> DEFINE iter == CHOOSE h : Sums(h, SUBSET S)
           Good == {n \in Nat : \A s \in SUBSET S : Cardinality(s) = n => iter[s] \in Nat}
<1>1. Sums(iter, SUBSET S)
  BY SumExists, Zenon
<1>2. MapThenSumSet(LAMBDA l : l.quantity, S) = iter[S]
  BY DEF MapThenSumSet, MapThenFoldSet, Sums, Pick
<1> HIDE DEF iter
<1>3. ASSUME NEW s \in SUBSET S
      PROVE  iter[s] = IF s = {} THEN 0 ELSE Pick(s).quantity + iter[s \ {Pick(s)}]
  BY <1>1 DEF Sums
<1>4. \A s \in SUBSET S : /\ IsFiniteSet(s) /\ Cardinality(s) \in Nat
                          /\ Cardinality(s) = 0 <=> s = {}
  BY FS_Subset, FS_CardinalityType, FS_EmptySet
<1>5. 0 \in Good
  BY <1>3, <1>4
<1>6. ASSUME NEW n \in Nat, n \in Good PROVE n + 1 \in Good
  <2>1. ASSUME NEW s \in SUBSET S, Cardinality(s) = n + 1 PROVE iter[s] \in Nat
    <3>1. s # {}
      BY <1>4, <2>1
    <3>2. Pick(s) \in s
      BY <3>1 DEF Pick
    <3>3. Pick(s).quantity \in Nat
      BY <3>2, SimulatorAssumption DEF Level
    <3>4. s \ {Pick(s)} \in SUBSET S /\ Cardinality(s \ {Pick(s)}) = n
      BY <1>4, <2>1, <3>2, FS_RemoveElement
    <3>5. iter[s \ {Pick(s)}] \in Nat
      BY <1>6, <3>4
    <3> QED
      BY <1>3, <3>1, <3>3, <3>5
  <2> QED
    BY <2>1
<1> HIDE DEF Good
<1>7. Cardinality(S) \in Good
  BY <1>4, <1>5, <1>6, NatSetInduction
<1> QED
  BY <1>2, <1>7 DEF Good

------------------------------------------------------------------------------
(* Trades and orders.                                                      *)

(* What is left of a side after a trade are parts of its levels.           *)
LEMMA RestIsPart ==
  ASSUME NEW L \in SUBSET Level, Distinct(L), NEW T, Takes(T)
  PROVE  /\ Rest(L, T) \in SUBSET Level /\ Distinct(Rest(L, T))
         /\ Prices(Rest(L, T)) \subseteq Prices(L)
<1> DEFINE R == Rest(L, T)
           Left(l, t) == [price |-> l.price, quantity |-> l.quantity - t.quantity]
<1>1. ASSUME NEW r \in R
      PROVE  \/ r \in L /\ r.price \notin Prices(T)
             \/ \E l \in L, t \in T : /\ l.price = t.price /\ l.quantity > t.quantity
                                      /\ r = Left(l, t)
  <2>1. CASE r \in {l \in L : l.price \notin Prices(T)}
    BY <2>1
  <2>2. CASE r \notin {l \in L : l.price \notin Prices(T)}
    <3>1. PICK x \in L \X T : /\ x[1].price = x[2].price /\ x[1].quantity > x[2].quantity
                              /\ r = Left(x[1], x[2])
      BY <2>2 DEF Rest
    <3> QED
      BY <3>1
  <2> QED
    BY <2>1, <2>2
<1> HIDE DEF R
<1>2. ASSUME NEW r \in R PROVE r \in Level /\ r.price \in Prices(L)
  <2>1. CASE r \in L
    BY <2>1 DEF Prices
  <2>2. CASE r \notin L
    <3>1. PICK l \in L, t \in T : l.quantity > t.quantity /\ r = Left(l, t)
      BY <1>1, <2>2
    <3>2. l \in Level /\ t.quantity \in Nat
      BY DEF Takes
    <3> QED
      BY <3>1, <3>2, SimulatorAssumption DEF Level, Prices
  <2> QED
    BY <2>1, <2>2
<1>3. ASSUME NEW r \in R, NEW q \in R, r.price = q.price PROVE r = q
  <2>1. CASE r.price \notin Prices(T)
    <3>1. r \in L /\ q \in L
      BY <1>1, <1>3, <2>1 DEF Prices
    <3> QED
      BY <1>3, <3>1 DEF Distinct
  <2>2. CASE r.price \in Prices(T)
    <3>1. PICK l \in L, t \in T : l.price = t.price /\ r = Left(l, t)
      BY <1>1, <2>2
    <3>2. PICK m \in L, u \in T : m.price = u.price /\ q = Left(m, u)
      BY <1>1, <1>3, <2>2
    <3>3. l = m /\ t = u
      BY <1>3, <3>1, <3>2 DEF Distinct, Takes
    <3> QED
      BY <3>1, <3>2, <3>3
  <2> QED
    BY <2>1, <2>2
<1>4. R \in SUBSET Level /\ Distinct(R) /\ Prices(R) \subseteq Prices(L)
  BY <1>2, <1>3 DEF Distinct, Prices
<1> QED
  BY <1>4 DEF R

(* A trade keeps the book sound and within its targets.                    *)
LEMMA AfterKeeps ==
  ASSUME NEW b, SoundBook(b), NEW taken, Takes(taken.bid), Takes(taken.ask)
  PROVE  /\ SoundBook(After(b, taken))
         /\ \A bid \in Nat, ask \in Nat : Within(b, bid, ask) => Within(After(b, taken), bid, ask)
<1>1. /\ b.bid \in SUBSET Level /\ Distinct(b.bid)
      /\ b.ask \in SUBSET Level /\ Distinct(b.ask)
  BY DEF SoundBook
<1> DEFINE l == Rest(b.bid, taken.bid)
           h == Rest(b.ask, taken.ask)
<1>2. l \in SUBSET Level /\ Distinct(l) /\ Prices(l) \subseteq Prices(b.bid)
  BY <1>1, RestIsPart
<1>3. h \in SUBSET Level /\ Distinct(h) /\ Prices(h) \subseteq Prices(b.ask)
  BY <1>1, RestIsPart
<1>4. After(b, taken) = [bid |-> l, ask |-> h]
  BY DEF After
<1> HIDE DEF l, h
<1>5. SoundBook(After(b, taken))
  BY <1>2, <1>3, <1>4 DEF SoundBook
<1>6. ASSUME NEW bid \in Nat, NEW ask \in Nat, Within(b, bid, ask)
      PROVE  Within(After(b, taken), bid, ask)
  <2>1. (\A p \in Prices(b.bid) : p <= bid) /\ (\A p \in Prices(b.ask) : ask <= p)
    BY <1>6 DEF Within, Prices
  <2>2. (\A x \in l : x.price \in Prices(b.bid)) /\ (\A x \in h : x.price \in Prices(b.ask))
    BY <1>2, <1>3 DEF Prices
  <2> QED
    BY <1>4, <2>1, <2>2 DEF Within
<1> QED
  BY <1>5, <1>6

(* Nothing, and any levels of a side, can be taken.                        *)
LEMMA PartsAreTakes ==
  /\ Takes({})
  /\ \A L \in SUBSET Level : Distinct(L) => \A T \in SUBSET L : Takes(T)
BY SimulatorAssumption DEF Takes, Distinct, Level

(* Once the stale quotes are traded the book is within its targets.        *)
LEMMA StaleLeavesWithin ==
  ASSUME NEW b, SoundBook(b), NEW bid \in Nat, NEW ask \in Nat
  PROVE  LET found == After(b, Stale(b, bid, ask))
         IN  SoundBook(found) /\ Within(found, bid, ask)
<1> DEFINE stale == Stale(b, bid, ask)
           found == After(b, stale)
<1>1. /\ b.bid \in SUBSET Level /\ Distinct(b.bid)
      /\ b.ask \in SUBSET Level /\ Distinct(b.ask)
  BY DEF SoundBook
<1>2. /\ stale.bid = {l \in b.bid : l.price > bid}
      /\ stale.ask = {l \in b.ask : l.price < ask}
  BY DEF Stale
<1> HIDE DEF stale
<1>3. Takes(stale.bid) /\ Takes(stale.ask)
  BY <1>1, <1>2, PartsAreTakes
<1>4. SoundBook(found)
  BY <1>3, AfterKeeps
<1>5. \A l \in Level : l.price \in Nat /\ l.quantity \in Nat
  BY SimulatorAssumption DEF Level, Position
<1>6. ASSUME NEW L \in SUBSET Level, Distinct(L), NEW T \in SUBSET L, NEW l \in Rest(L, T)
      PROVE  l \in L /\ l \notin T
  <2>1. CASE l \in {m \in L : m.price \notin Prices(T)}
    BY <2>1 DEF Prices
  <2>2. CASE l \notin {m \in L : m.price \notin Prices(T)}
    <3>1. PICK x \in L \X T : x[1].price = x[2].price /\ x[1].quantity > x[2].quantity
      BY <1>6, <2>2 DEF Rest
    <3>2. x[1] = x[2] /\ x[1] \in Level
      BY <1>6, <3>1 DEF Distinct
    <3> QED
      BY <1>5, <3>1, <3>2
  <2> QED
    BY <2>1, <2>2
<1>7. found.bid = Rest(b.bid, stale.bid) /\ found.ask = Rest(b.ask, stale.ask)
  BY DEF After
<1>8. ASSUME NEW l \in found.bid PROVE l.price <= bid
  <2>1. l \in b.bid /\ l \notin stale.bid
    BY <1>1, <1>2, <1>6, <1>7
  <2> QED
    BY <1>1, <1>2, <1>5, <2>1
<1>9. ASSUME NEW l \in found.ask PROVE ask <= l.price
  <2>1. l \in b.ask /\ l \notin stale.ask
    BY <1>1, <1>2, <1>6, <1>7
  <2> QED
    BY <1>1, <1>2, <1>5, <2>1
<1> QED
  BY <1>4, <1>8, <1>9 DEF Within, stale

(* A cascade takes levels of one side.                                     *)
LEMMA SweptIsTakes ==
  ASSUME NEW b, SoundBook(b), NEW s \in Side, NEW count
  PROVE  Takes(Swept(b, s, count).bid) /\ Takes(Swept(b, s, count).ask)
<1>1. b[s] \in SUBSET Level /\ Distinct(b[s])
  BY DEF SoundBook, Side
<1>2. \A r \in Side : Swept(b, s, count)[r] = {} \/ Swept(b, s, count)[r] \in SUBSET b[s]
  BY DEF Swept, Empty, Side
<1>3. \A r \in Side : Takes(Swept(b, s, count)[r])
  BY <1>1, <1>2, PartsAreTakes
<1> QED
  BY <1>3 DEF Side

(* A stray trade takes levels of one side, the last of them in part.       *)
LEMMA StrayIsTakes ==
  ASSUME NEW b, SoundBook(b), NEW s \in Side, NEW quantity \in Nat
  PROVE  Takes(Stray(b, s, quantity).bid) /\ Takes(Stray(b, s, quantity).ask)
<1> DEFINE Spent(l) == MapThenSumSet(LAMBDA m : m.quantity, Ahead(b, s, l))
           Part(l) == [l EXCEPT !.quantity = Least(l.quantity, quantity - Spent(l))]
           T == {Part(l) : l \in {m \in b[s] : Spent(m) < quantity}}
<1>1. b[s] \in SUBSET Level /\ Distinct(b[s])
  BY DEF SoundBook, Side
<1>2. ASSUME NEW l \in b[s] PROVE Spent(l) \in Nat
  <2>1. Ahead(b, s, l) \in SUBSET Level /\ IsFiniteSet(Ahead(b, s, l))
    <3>1. Ahead(b, s, l) \in SUBSET b[s] /\ IsFiniteSet(b[s])
      BY <1>1, AsManyAsPrices DEF Ahead
    <3> QED
      BY <1>1, <3>1, FS_Subset
  <2> QED
    BY <2>1, SumIsNatural
<1>3. Stray(b, s, quantity) = [Empty EXCEPT ![s] = T]
  BY DEF Stray
<1> HIDE DEF Spent
<1>4. ASSUME NEW l \in b[s], Spent(l) < quantity
      PROVE  Part(l).price = l.price /\ Part(l).quantity \in Nat
  BY <1>1, <1>2, <1>4, SimulatorAssumption DEF Level, Least
<1> HIDE DEF Part
<1>5. Takes(T)
  BY <1>1, <1>4 DEF Takes, Distinct
<1> HIDE DEF T
<1> QED
  BY <1>3, <1>5, PartsAreTakes DEF Empty, Side

(* An order that comes or goes keeps the book sound and within its targets.*)
LEMMA ChurnedOnceKeeps ==
  ASSUME NEW b, SoundBook(b), NEW c \in ChurnedOnce(b)
  PROVE  /\ SoundBook(c)
         /\ \A bid \in Nat, ask \in Nat : Within(b, bid, ask) => Within(c, bid, ask)
<1>1. CASE c = b
  BY <1>1
<1>2. CASE c # b
  <2> DEFINE NewSizes(l) == {Least(MaxQuantity, l.quantity + more \div 4) : more \in LevelQuantity}
                            \cup 0..(l.quantity * 75) \div 100
             Placed(l, q) == IF q > 0 THEN {[l EXCEPT !.quantity = q]} ELSE {}
             Resized(s, l, q) == [b EXCEPT ![s] = (b[s] \ {l}) \cup Placed(l, q)]
  <2>a. c \in UNION {UNION {{Resized(r, m, q) : q \in NewSizes(m)} : m \in b[r]} : r \in Side}
    BY <1>2 DEF ChurnedOnce
  <2> HIDE DEF Resized
  <2>b. PICK s \in Side : c \in UNION {{Resized(s, m, q) : q \in NewSizes(m)} : m \in b[s]}
    BY <2>a
  <2>c. PICK l \in b[s] : c \in {Resized(s, l, q) : q \in NewSizes(l)}
    BY <2>b
  <2>1. PICK q \in NewSizes(l) : c = Resized(s, l, q)
    BY <2>c
  <2>2. b[s] \in SUBSET Level /\ Distinct(b[s]) /\ b \in [bid : SUBSET Level, ask : SUBSET Level]
    BY DEF SoundBook, Side
  <2>3. l \in Level /\ l.quantity \in 1..MaxQuantity
    BY <2>2 DEF Level
  <2>4. q \in Int /\ q <= MaxQuantity
    <3>1. CASE q \in 0..(l.quantity * 75) \div 100
      BY <2>3, <3>1, SimulatorAssumption
    <3>2. CASE q \notin 0..(l.quantity * 75) \div 100
      <4>1. PICK more \in LevelQuantity : q = Least(MaxQuantity, l.quantity + more \div 4)
        BY <3>2
      <4>2. more \in Nat /\ more \div 4 \in Int
        BY SimulatorAssumption
      <4> QED
        BY <2>3, <4>1, <4>2, SimulatorAssumption DEF Least
    <3> QED
      BY <3>1, <3>2
  <2>5. \A x \in Placed(l, q) : x \in Level /\ x.price = l.price
    BY <2>3, <2>4 DEF Level
  <2>6. \A x, y \in Placed(l, q) : x = y
    OBVIOUS
  <2> DEFINE side == (b[s] \ {l}) \cup Placed(l, q)
  <2> HIDE DEF Placed
  <2>7. side \in SUBSET Level /\ Distinct(side) /\ Prices(side) \subseteq Prices(b[s])
    BY <2>2, <2>5, <2>6 DEF Distinct, Prices
  <2>8. c = [b EXCEPT ![s] = side]
    BY <2>1 DEF Resized
  <2> HIDE DEF side
  <2>9. SoundBook(c)
    BY <2>2, <2>7, <2>8 DEF SoundBook, Side
  <2>10. \A r \in Side : Prices(c[r]) \subseteq Prices(b[r])
    BY <2>2, <2>7, <2>8 DEF Side
  <2>11. ASSUME NEW bid \in Nat, NEW ask \in Nat, Within(b, bid, ask)
         PROVE  Within(c, bid, ask)
    <3>1. (\A p \in Prices(b.bid) : p <= bid) /\ (\A p \in Prices(b.ask) : ask <= p)
      BY <2>11 DEF Within, Prices
    <3>2. (\A x \in c.bid : x.price \in Prices(b.bid)) /\ (\A x \in c.ask : x.price \in Prices(b.ask))
      BY <2>10 DEF Prices, Side
    <3> QED
      BY <3>1, <3>2 DEF Within
  <2> QED
    BY <2>9, <2>11
<1> QED
  BY <1>1, <1>2

(* h[n] is every book that n events can leave of b.                        *)
ChurnsFrom(h, b, m) ==
    h = [n \in 0..m |-> IF n = 0 THEN {b} ELSE UNION {ChurnedOnce(c) : c \in h[n - 1]}]

(* There are such books for any number of events.                          *)
LEMMA ChurnsFromExists ==
  ASSUME NEW b, NEW m \in Nat
  PROVE  \E h : ChurnsFrom(h, b, m)
<1> DEFINE More(S) == UNION {ChurnedOnce(c) : c \in S}
           Begun(h, k) == h = [n \in 0..k |-> IF n = 0 THEN {b} ELSE More(h[n - 1])]
           Good == {k \in Nat : \E h : Begun(h, k)}
<1>0. ASSUME NEW h PROVE ChurnsFrom(h, b, m) <=> Begun(h, m)
  BY Zenon DEF ChurnsFrom
<1> HIDE DEF More
<1>1. 0 \in Good
  <2> DEFINE h == [n \in 0..0 |-> {b}]
  <2>1. h = [n \in 0..0 |-> IF n = 0 THEN {b} ELSE More(h[n - 1])]
    OBVIOUS
  <2> HIDE DEF h
  <2> QED
    BY <2>1
<1>2. ASSUME NEW k \in Nat, k \in Good PROVE k + 1 \in Good
  <2>1. PICK h : Begun(h, k)
    BY <1>2
  <2> DEFINE f == [n \in 0..k + 1 |-> IF n = k + 1 THEN More(h[k]) ELSE h[n]]
  <2>2. ASSUME NEW n \in 0..k + 1
        PROVE  f[n] = IF n = 0 THEN {b} ELSE More(f[n - 1])
    <3>1. CASE n = k + 1
      <4>1. n - 1 = k /\ k \in 0..k + 1 /\ k # k + 1 /\ n # 0
        BY <3>1
      <4>2. f[k] = h[k] /\ f[n] = More(h[k])
        BY <3>1, <4>1
      <4> HIDE DEF f
      <4> QED
        BY <4>1, <4>2
    <3>2. CASE n # k + 1
      <4>1. n \in 0..k /\ f[n] = h[n]
        BY <3>2
      <4>2. h[n] = IF n = 0 THEN {b} ELSE More(h[n - 1])
        BY <2>1, <4>1
      <4>3. n # 0 => n - 1 \in 0..k + 1 /\ n - 1 # k + 1
        BY <4>1
      <4>4. n # 0 => f[n - 1] = h[n - 1]
        BY <4>3
      <4> HIDE DEF f
      <4> QED
        BY <4>1, <4>2, <4>4
    <3> QED
      BY <3>1, <3>2
  <2>3. f = [n \in 0..k + 1 |-> f[n]]
    OBVIOUS
  <2> HIDE DEF f
  <2>4. Begun(f, k + 1)
    BY <2>2, <2>3
  <2> QED
    BY <2>4
<1> HIDE DEF Good
<1>3. m \in Good
  BY <1>1, <1>2, NatSetInduction
<1>4. \E h : Begun(h, m)
  BY <1>3 DEF Good
<1> HIDE DEF Begun
<1> QED
  BY <1>0, <1>4

(* However many orders come or go in a tick, and wherever, the book stays  *)
(* sound and within its targets.                                           *)
LEMMA ChurnedKeeps ==
  ASSUME NEW b, SoundBook(b), NEW c \in Churned(b)
  PROVE  /\ SoundBook(c)
         /\ \A bid \in Nat, ask \in Nat : Within(b, bid, ask) => Within(c, bid, ask)
<1> DEFINE Kept(x) == /\ SoundBook(x)
                      /\ \A bid \in Nat, ask \in Nat : Within(b, bid, ask) => Within(x, bid, ask)
<1>0. ChurnEvents \in Nat
  BY SimulatorAssumption
<1>1. PICK h : ChurnsFrom(h, b, ChurnEvents) /\ c \in h[ChurnEvents]
  <2>1. \E h : ChurnsFrom(h, b, ChurnEvents)
    BY <1>0, ChurnsFromExists
  <2>2. Churned(b) = (CHOOSE h : ChurnsFrom(h, b, ChurnEvents))[ChurnEvents]
    BY Zenon DEF Churned, ChurnsFrom
  <2> QED
    BY <2>1, <2>2, Zenon
<1>2. ASSUME NEW x, Kept(x), NEW y \in ChurnedOnce(x) PROVE Kept(y)
  BY <1>2, ChurnedOnceKeeps
<1>3. Kept(b)
  OBVIOUS
<1> HIDE DEF Kept
<1> DEFINE Good == {n \in Nat : n <= ChurnEvents => \A x \in h[n] : Kept(x)}
<1> DEFINE More(S) == UNION {ChurnedOnce(x) : x \in S}
<1>4. h = [n \in 0..ChurnEvents |-> IF n = 0 THEN {b} ELSE More(h[n - 1])]
  BY <1>1, Zenon DEF ChurnsFrom
<1>4a. ASSUME NEW S, NEW x \in More(S) PROVE \E y \in S : x \in ChurnedOnce(y)
  OBVIOUS
<1> HIDE DEF More
<1>5. 0 \in Good
  <2>1. h[0] = {b}
    BY <1>0, <1>4
  <2> QED
    BY <1>3, <2>1
<1>6. ASSUME NEW n \in Nat, n \in Good PROVE n + 1 \in Good
  <2> SUFFICES ASSUME n + 1 <= ChurnEvents, NEW x \in h[n + 1] PROVE Kept(x)
    OBVIOUS
  <2>1. n + 1 \in 0..ChurnEvents /\ n + 1 # 0 /\ n + 1 - 1 = n /\ n <= ChurnEvents
    BY <1>0
  <2>2. h[n + 1] = More(h[n])
    <3>1. PICK k : k = n + 1 /\ k \in 0..ChurnEvents /\ k # 0 /\ k - 1 = n
      BY <2>1
    <3>2. h[k] = More(h[k - 1])
      BY <1>4, <3>1
    <3> QED
      BY <3>1, <3>2
  <2>3. PICK y \in h[n] : x \in ChurnedOnce(y)
    BY <1>4a, <2>2, Zenon
  <2>4. Kept(y)
    BY <1>6, <2>1
  <2> QED
    BY <1>2, <2>3, <2>4
<1> HIDE DEF Good
<1>7. ChurnEvents \in Good
  BY <1>0, <1>5, <1>6, NatSetInduction
<1>8. Kept(c)
  BY <1>0, <1>1, <1>7 DEF Good
<1> QED
  BY <1>8 DEF Kept

------------------------------------------------------------------------------
(* The fair value and its targets.                                         *)

(* Division by the spacing respects the order.                             *)
LEMMA DivisionIsMonotone ==
  ASSUME NEW x \in Nat, NEW y \in Nat, x <= y, NEW d \in Nat \ {0}
  PROVE  x \div d \in Nat /\ y \div d \in Nat /\ x \div d <= y \div d
<1> DEFINE q == x \div d
           r == y \div d
<1>1. q \in Nat /\ r \in Nat /\ q * d <= x /\ y < r * d + d
  OBVIOUS
<1> HIDE DEF q, r
<1>2. ASSUME r < q PROVE FALSE
  <2>1. PICK e \in Nat : q = r + 1 + e
    <3>1. q - r - 1 \in Nat /\ q = r + 1 + (q - r - 1)
      BY <1>1, <1>2
    <3> QED
      BY <3>1
  <2>2. q * d = r * d + d + e * d /\ e * d \in Nat /\ r * d \in Nat
    BY <1>1, <2>1
  <2>3. q * d \in Nat
    BY <1>1
  <2> QED
    BY <1>1, <2>2, <2>3
<1>3. q <= r
  BY <1>1, <1>2
<1> QED
  BY <1>1, <1>3 DEF q, r

(* The targets of a fair value within the band are on the band's levels.   *)
LEMMA TargetsInBand ==
  ASSUME NEW fair \in Floor..Ceiling
  PROVE  /\ BidTarget(fair) \in Nat
         /\ BidTarget(fair) \in Floor \div LevelSpacing..Ceiling \div LevelSpacing
         /\ BidTarget(fair) <= Ceiling \div LevelSpacing
         /\ AskTarget(fair) = BidTarget(fair) + SpreadSpacings
         /\ AskTarget(fair) \in Nat
<1>1. fair \in Nat /\ Floor <= fair /\ fair <= Ceiling
      /\ Floor \in Nat /\ Ceiling \in Nat /\ LevelSpacing \in Nat \ {0} /\ SpreadSpacings \in Nat
  BY SimulatorAssumption
<1>2. /\ Floor \div LevelSpacing \in Nat /\ fair \div LevelSpacing \in Nat
      /\ Floor \div LevelSpacing <= fair \div LevelSpacing
  BY <1>1, DivisionIsMonotone
<1>3. /\ Ceiling \div LevelSpacing \in Nat
      /\ fair \div LevelSpacing <= Ceiling \div LevelSpacing
  BY <1>1, DivisionIsMonotone
<1> QED
  BY <1>1, <1>2, <1>3 DEF BidTarget, AskTarget

(* The clamp keeps the fair value in its band.                             *)
LEMMA ClampInBand ==
  ASSUME NEW x \in Int
  PROVE  Clamp(x) \in Floor..Ceiling
BY SimulatorAssumption DEF Clamp, Greatest, Least

(* Whatever trades in a tick leaves a sound book within the targets and a  *)
(* fair value in its band.                                                 *)
LEMMA TradedKeeps ==
  ASSUME SoundBook(book), NEW walked \in Floor..Ceiling,
         NEW cascade \in Cascade, NEW noise \in Noise
  PROVE  LET t == Traded(walked, cascade, noise)
         IN  /\ SoundBook(t.book)
             /\ Within(t.book, BidTarget(walked), AskTarget(walked))
             /\ t.fairValue \in Floor..Ceiling
<1> DEFINE bid == BidTarget(walked)
           ask == AskTarget(walked)
           found == After(book, Stale(book, bid, ask))
           swept == IF cascade = NoTrade THEN Empty ELSE Swept(found, cascade.side, cascade.count)
           left == After(found, swept)
           stray == IF noise = NoTrade THEN Empty ELSE Stray(left, noise.side, noise.quantity)
           rest == After(left, stray)
           fair == IF cascade = NoTrade THEN walked ELSE Pulled(walked, left, cascade.side)
<1>1. bid \in Nat /\ ask \in Nat
  BY TargetsInBand
<1>2. Traded(walked, cascade, noise).book = rest
      /\ Traded(walked, cascade, noise).fairValue = fair
  BY DEF Traded
<1> HIDE DEF bid, ask
<1>3. SoundBook(found) /\ Within(found, bid, ask)
  BY <1>1, StaleLeavesWithin
<1> HIDE DEF found
<1>4. cascade = NoTrade \/ cascade.side \in Side
  BY DEF Cascade
<1>5. noise = NoTrade \/ (noise.side \in Side /\ noise.quantity \in Nat)
  BY SimulatorAssumption DEF Noise
<1>6. Takes(Empty.bid) /\ Takes(Empty.ask)
  BY PartsAreTakes DEF Empty
<1>7. Takes(swept.bid) /\ Takes(swept.ask)
  BY <1>3, <1>4, <1>6, SweptIsTakes
<1> HIDE DEF swept
<1>8. SoundBook(left) /\ Within(left, bid, ask)
  BY <1>1, <1>3, <1>7, AfterKeeps
<1> HIDE DEF left
<1>9. Takes(stray.bid) /\ Takes(stray.ask)
  BY <1>5, <1>6, <1>8, StrayIsTakes
<1> HIDE DEF stray
<1>10. SoundBook(rest) /\ Within(rest, bid, ask)
  BY <1>1, <1>8, <1>9, AfterKeeps
<1>11. fair \in Floor..Ceiling
  <2>1. CASE cascade = NoTrade \/ left[cascade.side] = {}
    BY <2>1 DEF Pulled
  <2>2. CASE cascade # NoTrade /\ left[cascade.side] # {}
    <3>1. Best(left, cascade.side, 0) \in Position
      BY <1>4, <1>8, <2>2, BestBid, BestAsk DEF Side
    <3>2. Best(left, cascade.side, 0) * LevelSpacing \in Int
      BY <3>1, SimulatorAssumption DEF Position
    <3> QED
      BY <2>2, <3>2, ClampInBand DEF Pulled
  <2> QED
    BY <2>1, <2>2
<1> QED
  BY <1>2, <1>10, <1>11 DEF bid, ask

------------------------------------------------------------------------------
(* The invariant of the simulator.                                         *)

(* LadderIsWhole, and one level at a price: that their number is the       *)
(* number of prices says the same of the state, but not of the parts the   *)
(* tick's trades leave.                                                    *)
SimulatorInv == LadderIsWhole /\ SoundBook(book)

(* A sound book is all that TypeOK asks of a book.                         *)
LEMMA SoundBookCounts ==
  ASSUME NEW b, SoundBook(b)
  PROVE  /\ b \in [bid : SUBSET Level, ask : SUBSET Level]
         /\ \A s \in Side : Cardinality(Prices(b[s])) = Cardinality(b[s])
<1>1. \A s \in Side : b[s] \in SUBSET Level /\ Distinct(b[s])
  BY DEF SoundBook, Side
<1> QED
  BY <1>1, AsManyAsPrices DEF SoundBook

(* seedBook quotes and fills an empty book.                                *)
LEMMA SimulatorInit == Init => SimulatorInv
<1> SUFFICES ASSUME Init PROVE SimulatorInv
  OBVIOUS
<1>1. PICK size \in Sizes :
         book = Ladder(Empty, BidTarget(BasePrice), AskTarget(BasePrice), size)
  BY DEF Init
<1>2. BasePrice \in Floor..Ceiling
  BY SimulatorAssumption
<1>3. SoundBook(Empty)
  BY DEF SoundBook, Empty, Distinct
<1>4. PICK bid : bid = BidTarget(BasePrice)
  OBVIOUS
<1>5. /\ bid \in Nat /\ bid \in Floor \div LevelSpacing..Ceiling \div LevelSpacing
      /\ bid <= Ceiling \div LevelSpacing /\ AskTarget(BasePrice) = bid + SpreadSpacings
  BY <1>2, <1>4, TargetsInBand
<1>6. Within(Empty, bid, bid + SpreadSpacings)
  BY DEF Within, Empty
<1>7. book = Ladder(Empty, bid, bid + SpreadSpacings, size)
  BY <1>1, <1>4, <1>5
<1>8. /\ SoundBook(book)
      /\ Prices(book.bid) = Window("bid", bid) \cap Position
      /\ Prices(book.ask) = Window("ask", bid + SpreadSpacings)
  BY <1>3, <1>5, <1>6, <1>7, LadderWhole
<1>9. /\ fairValue \in Floor..Ceiling
      /\ trendVelocity \in {-Volatility, 0, Volatility}
      /\ \E n \in {0} \cup CalmTicks \cup PushTicks : regimeTicksRemaining \in 0..n
  BY <1>2 DEF Init
<1>10. TypeOK
  BY <1>8, <1>9, SoundBookCounts DEF TypeOK
<1> QED
  BY <1>5, <1>8, <1>10 DEF SimulatorInv, LadderIsWhole

(* The regime keeps to its velocities and its terms.                       *)
LEMMA RegimeKeepsTerms ==
  ASSUME TypeOK, UpdateRegime
  PROVE  /\ trendVelocity' \in {-Volatility, 0, Volatility}
         /\ \E n \in {0} \cup CalmTicks \cup PushTicks : regimeTicksRemaining' \in 0..n
<1>0. \A n \in {0} \cup CalmTicks \cup PushTicks : n \in Nat
  BY SimulatorAssumption
<1>1. CASE Volatility = 0
  BY <1>1 DEF UpdateRegime
<1>2. CASE Volatility # 0 /\ regimeTicksRemaining > 1
  <2>1. PICK n \in {0} \cup CalmTicks \cup PushTicks : regimeTicksRemaining \in 0..n
    BY DEF TypeOK
  <2>2. regimeTicksRemaining' \in 0..n
    BY <1>0, <1>2, <2>1 DEF UpdateRegime
  <2> QED
    BY <1>2, <2>2 DEF UpdateRegime, TypeOK
<1>3. CASE Volatility # 0 /\ ~(regimeTicksRemaining > 1)
  <2>1. trendVelocity' \in {-Volatility, 0, Volatility}
    BY <1>3 DEF UpdateRegime
  <2>2. regimeTicksRemaining' \in CalmTicks \cup PushTicks
    BY <1>3 DEF UpdateRegime
  <2>3. PICK n \in CalmTicks \cup PushTicks : regimeTicksRemaining' = n
    BY <2>2
  <2>4. n \in Nat
    BY <1>0
  <2>5. regimeTicksRemaining' \in 0..n
    BY <2>3, <2>4
  <2> QED
    BY <2>1, <2>5
<1> QED
  BY <1>1, <1>2, <1>3

(* A tick ends with a ladder that is whole.                                *)
LEMMA TickKeepsInv == SimulatorInv /\ Tick => SimulatorInv'
<1> SUFFICES ASSUME SimulatorInv, Tick PROVE SimulatorInv'
  OBVIOUS
<1>1. TypeOK /\ SoundBook(book)
  BY DEF SimulatorInv, LadderIsWhole
<1>2. /\ trendVelocity' \in {-Volatility, 0, Volatility}
      /\ \E n \in {0} \cup CalmTicks \cup PushTicks : regimeTicksRemaining' \in 0..n
  BY <1>1, RegimeKeepsTerms DEF Tick
<1>3. PICK step \in -Volatility..Volatility, cascade \in Cascade, noise \in Noise :
         LET walked == Walked(step, trendVelocity')
             traded == Traded(walked, cascade, noise)
         IN  /\ fairValue' = traded.fairValue
             /\ \E churned \in Churned(traded.book), size \in Sizes :
                   book' = Ladder(churned, BidTarget(walked), AskTarget(walked), size)
  BY DEF Tick
<1>4. PICK walked : walked = Walked(step, trendVelocity')
  OBVIOUS
<1>5. walked \in Floor..Ceiling
  <2>1. fairValue + step + trendVelocity' \in Int
    BY <1>1, <1>2, SimulatorAssumption DEF TypeOK
  <2> QED
    BY <1>4, <2>1, ClampInBand DEF Walked
<1>6. PICK traded : traded = Traded(walked, cascade, noise)
  OBVIOUS
<1>7. /\ fairValue' = traded.fairValue
      /\ \E churned \in Churned(traded.book), size \in Sizes :
            book' = Ladder(churned, BidTarget(walked), AskTarget(walked), size)
  BY <1>3, <1>4, <1>6
<1>8. PICK bid : bid = BidTarget(walked)
  OBVIOUS
<1>9. /\ bid \in Nat /\ bid \in Floor \div LevelSpacing..Ceiling \div LevelSpacing
      /\ bid <= Ceiling \div LevelSpacing /\ AskTarget(walked) = bid + SpreadSpacings
      /\ bid + SpreadSpacings \in Nat
  BY <1>5, <1>8, TargetsInBand
<1>10. /\ SoundBook(traded.book) /\ Within(traded.book, bid, bid + SpreadSpacings)
       /\ traded.fairValue \in Floor..Ceiling
  BY <1>1, <1>5, <1>6, <1>8, <1>9, TradedKeeps
<1>11. PICK churned \in Churned(traded.book), size \in Sizes :
          book' = Ladder(churned, bid, bid + SpreadSpacings, size)
  BY <1>7, <1>8, <1>9
<1>12. SoundBook(churned) /\ Within(churned, bid, bid + SpreadSpacings)
  BY <1>9, <1>10, ChurnedKeeps
<1>13. /\ SoundBook(book')
       /\ Prices(book'.bid) = Window("bid", bid) \cap Position
       /\ Prices(book'.ask) = Window("ask", bid + SpreadSpacings)
  BY <1>9, <1>11, <1>12, LadderWhole
<1>14. fairValue' \in Floor..Ceiling
  BY <1>7, <1>10
<1>15. TypeOK'
  BY <1>2, <1>13, <1>14, SoundBookCounts DEF TypeOK
<1> QED
  BY <1>9, <1>13, <1>15 DEF SimulatorInv, LadderIsWhole, SoundBook, Prices

(* Both hold of the seeded book and after every tick.                      *)
LEMMA SimulatorAlways == Spec => []SimulatorInv
<1>1. Init => SimulatorInv
  BY SimulatorInit
<1>2. SimulatorInv /\ [Next]_vars => SimulatorInv'
  <2> SUFFICES ASSUME SimulatorInv, [Next]_vars PROVE SimulatorInv'
    OBVIOUS
  <2>1. CASE Tick
    BY <2>1, TickKeepsInv
  <2>2. CASE UNCHANGED vars
    BY <2>2 DEF vars, SimulatorInv, LadderIsWhole, TypeOK, SoundBook, Prices
  <2> QED
    BY <2>1, <2>2 DEF Next
<1> QED
  BY <1>1, <1>2, PTL DEF Spec

(* Whatever the random stream decides, and however many orders come or go  *)
(* in a tick, after it both sides show every position of their window and  *)
(* no other, the spread apart, with one level each, and the fair value is  *)
(* in its band.                                                            *)
(* (#tick, and seedBook before the first)                                  *)
THEOREM LadderStaysWhole == Spec => []LadderIsWhole
<1>1. SimulatorInv => LadderIsWhole
  BY DEF SimulatorInv
<1> QED
  BY <1>1, SimulatorAlways, PTL

------------------------------------------------------------------------------
(* The tape of a tick.                                                     *)

Printable == [from : Side, price : Position, quantity : Nat]
Tally == [Side \X Position -> Int]

(* h is what the first n of the trades have taken, when g was taken before.*)
TakesFrom(h, g, trades) ==
    h = [n \in 0..Len(trades) |->
           IF n = 0 THEN g
           ELSE [h[n - 1] EXCEPT ![<<trades[n].from, trades[n].price>>] = @ + trades[n].quantity]]

(* There is always one such tally.                                         *)
LEMMA TakesFromExists ==
  ASSUME NEW g, NEW trades, Len(trades) \in Nat
  PROVE  \E h : TakesFrom(h, g, trades)
<1> DEFINE Next1(f, n) == [f EXCEPT ![<<trades[n].from, trades[n].price>>] = @ + trades[n].quantity]
           Begun(h, m) == h = [n \in 0..m |-> IF n = 0 THEN g ELSE Next1(h[n - 1], n)]
           Good == {m \in Nat : \E h : Begun(h, m)}
<1>0. ASSUME NEW h PROVE TakesFrom(h, g, trades) <=> Begun(h, Len(trades))
  BY Zenon DEF TakesFrom
<1> HIDE DEF Next1
<1>1. 0 \in Good
  <2> DEFINE h == [n \in 0..0 |-> g]
  <2>1. h = [n \in 0..0 |-> IF n = 0 THEN g ELSE Next1(h[n - 1], n)]
    OBVIOUS
  <2> HIDE DEF h
  <2> QED
    BY <2>1
<1>2. ASSUME NEW m \in Nat, m \in Good PROVE m + 1 \in Good
  <2>1. PICK h : Begun(h, m)
    BY <1>2
  <2> DEFINE f == [n \in 0..m + 1 |-> IF n = m + 1 THEN Next1(h[m], n) ELSE h[n]]
  <2>2. ASSUME NEW n \in 0..m + 1
        PROVE  f[n] = IF n = 0 THEN g ELSE Next1(f[n - 1], n)
    <3>1. CASE n = m + 1
      <4>1. n - 1 = m /\ m \in 0..m + 1 /\ m # m + 1 /\ n # 0
        BY <3>1
      <4>2. f[m] = h[m] /\ f[n] = Next1(h[m], n)
        BY <3>1, <4>1
      <4> HIDE DEF f
      <4> QED
        BY <4>1, <4>2
    <3>2. CASE n # m + 1
      <4>1. n \in 0..m /\ f[n] = h[n]
        BY <3>2
      <4>2. h[n] = IF n = 0 THEN g ELSE Next1(h[n - 1], n)
        BY <2>1, <4>1
      <4>3. n # 0 => n - 1 \in 0..m + 1 /\ n - 1 # m + 1
        BY <4>1
      <4>4. n # 0 => f[n - 1] = h[n - 1]
        BY <4>3
      <4> HIDE DEF f
      <4> QED
        BY <4>1, <4>2, <4>4
    <3> QED
      BY <3>1, <3>2
  <2>3. f = [n \in 0..m + 1 |-> f[n]]
    OBVIOUS
  <2> HIDE DEF f
  <2>4. Begun(f, m + 1)
    BY <2>2, <2>3
  <2> QED
    BY <2>4
<1> HIDE DEF Good
<1>3. Len(trades) \in Good
  BY <1>1, <1>2, NatSetInduction
<1>4. \E h : Begun(h, Len(trades))
  BY <1>3 DEF Good
<1> HIDE DEF Begun
<1> QED
  BY <1>0, <1>4

(* Each of the trades is at the best price left by those before it and by  *)
(* g; together they leave g2.                                              *)
Follows(b, g, trades, g2) ==
    \A h : TakesFrom(h, g, trades) =>
              /\ \A n \in 1..Len(trades) : AtBest(b, h[n - 1], trades[n])
              /\ h[Len(trades)] = g2

(* Two tapes that follow, one where the other ended, follow as one.        *)
LEMMA FollowsJoin ==
  ASSUME NEW b, NEW g, NEW first \in Seq(Printable), NEW g1, NEW second \in Seq(Printable), NEW g2,
         Follows(b, g, first, g1), Follows(b, g1, second, g2)
  PROVE  Follows(b, g, first \o second, g2)
<1> DEFINE trades == first \o second
           n1 == Len(first)
           n2 == Len(second)
           Next1(f, t) == [f EXCEPT ![<<t.from, t.price>>] = @ + t.quantity]
<1>1. /\ n1 \in Nat /\ n2 \in Nat /\ Len(trades) = n1 + n2
      /\ \A n \in 1..n1 : trades[n] = first[n]
      /\ \A n \in 1..n2 : trades[n1 + n] = second[n]
  <2>1. n1 \in Nat /\ n2 \in Nat
    BY LenProperties
  <2>2. Len(trades) = n1 + n2
    BY ConcatProperties
  <2>3. \A n \in 1..n1 + n2 : trades[n] = IF n <= n1 THEN first[n] ELSE second[n - n1]
    BY ConcatProperties
  <2>4. \A n \in 1..n1 : n \in 1..n1 + n2 /\ n <= n1
    BY <2>1
  <2>5. \A n \in 1..n2 : n1 + n \in 1..n1 + n2 /\ ~(n1 + n <= n1) /\ n1 + n - n1 = n
    BY <2>1
  <2> HIDE DEF trades, n1, n2
  <2> QED
    BY <2>1, <2>2, <2>3, <2>4, <2>5
<1> SUFFICES ASSUME NEW h, TakesFrom(h, g, trades)
             PROVE  /\ \A n \in 1..Len(trades) : AtBest(b, h[n - 1], trades[n])
                    /\ h[Len(trades)] = g2
  BY Zenon DEF Follows
<1>2. h = [n \in 0..Len(trades) |-> IF n = 0 THEN g ELSE Next1(h[n - 1], trades[n])]
  BY Zenon DEF TakesFrom
<1> HIDE DEF trades, Next1
<1>3. h[0] = g /\ \A n \in 1..n1 + n2 : h[n] = Next1(h[n - 1], trades[n])
  <2>1. 0 \in 0..n1 + n2 /\ \A n \in 1..n1 + n2 : n \in 0..n1 + n2 /\ n # 0
    BY <1>1
  <2> HIDE DEF n1, n2
  <2> QED
    BY <1>1, <1>2, <2>1
<1> DEFINE h1 == [n \in 0..n1 |-> h[n]]
           h2 == [n \in 0..n2 |-> h[n1 + n]]
<1>4. TakesFrom(h1, g, first)
  <2>1. ASSUME NEW n \in 0..n1
        PROVE  h1[n] = IF n = 0 THEN g ELSE Next1(h1[n - 1], first[n])
    <3>1. CASE n = 0
      BY <1>1, <1>3, <3>1
    <3>2. CASE n # 0
      <4>1. n \in 1..n1 /\ n \in 1..n1 + n2 /\ n - 1 \in 0..n1
        BY <1>1, <3>2
      <4>2. h1[n] = h[n] /\ h1[n - 1] = h[n - 1]
        BY <4>1
      <4> HIDE DEF h1, n1, n2
      <4> QED
        BY <1>1, <1>3, <3>2, <4>1, <4>2
    <3> QED
      BY <3>1, <3>2
  <2>2. h1 = [n \in 0..n1 |-> h1[n]]
    OBVIOUS
  <2> HIDE DEF h1
  <2>3. h1 = [n \in 0..n1 |-> IF n = 0 THEN g ELSE Next1(h1[n - 1], first[n])]
    BY <2>1, <2>2
  <2> QED
    BY <2>3, Zenon DEF TakesFrom, Next1
<1>5. (\A n \in 1..n1 : AtBest(b, h1[n - 1], first[n])) /\ h1[n1] = g1
  BY <1>4, Zenon DEF Follows
<1>6. h[n1] = g1
  BY <1>1, <1>5
<1>7. TakesFrom(h2, g1, second)
  <2>1. ASSUME NEW n \in 0..n2
        PROVE  h2[n] = IF n = 0 THEN g1 ELSE Next1(h2[n - 1], second[n])
    <3>1. CASE n = 0
      BY <1>1, <1>6, <3>1
    <3>2. CASE n # 0
      <4>1. n \in 1..n2 /\ n1 + n \in 1..n1 + n2 /\ n - 1 \in 0..n2 /\ n1 + n - 1 = n1 + (n - 1)
        BY <1>1, <3>2
      <4>2. h2[n] = h[n1 + n] /\ h2[n - 1] = h[n1 + (n - 1)]
        BY <4>1
      <4>3. h[n1 + n] = Next1(h[n1 + n - 1], trades[n1 + n])
        BY <1>3, <4>1
      <4>4. trades[n1 + n] = second[n]
        BY <1>1, <4>1
      <4> HIDE DEF h2, n1, n2
      <4> QED
        BY <3>2, <4>1, <4>2, <4>3, <4>4
    <3> QED
      BY <3>1, <3>2
  <2>2. h2 = [n \in 0..n2 |-> h2[n]]
    OBVIOUS
  <2> HIDE DEF h2
  <2>3. h2 = [n \in 0..n2 |-> IF n = 0 THEN g1 ELSE Next1(h2[n - 1], second[n])]
    BY <2>1, <2>2
  <2> QED
    BY <2>3, Zenon DEF TakesFrom, Next1
<1>8. (\A n \in 1..n2 : AtBest(b, h2[n - 1], second[n])) /\ h2[n2] = g2
  BY <1>7, Zenon DEF Follows
<1>9. h[n1 + n2] = g2
  BY <1>1, <1>8
<1>10. ASSUME NEW n \in 1..n1 + n2 PROVE AtBest(b, h[n - 1], trades[n])
  <2>1. CASE n <= n1
    <3>1. n \in 1..n1 /\ n - 1 \in 0..n1
      BY <1>1, <2>1
    <3>2. h1[n - 1] = h[n - 1]
      BY <3>1
    <3> HIDE DEF h1, h2, n1, n2
    <3> QED
      BY <1>1, <1>5, <3>1, <3>2
  <2>2. CASE ~(n <= n1)
    <3>1. PICK k : k = n - n1
      OBVIOUS
    <3>2. k \in 1..n2 /\ k - 1 \in 0..n2 /\ n1 + k = n /\ n1 + (k - 1) = n - 1
      BY <1>1, <2>2, <3>1
    <3>3. h2[k - 1] = h[n - 1]
      BY <3>2
    <3> HIDE DEF h1, h2, n1, n2
    <3>4. AtBest(b, h2[k - 1], second[k]) /\ trades[n] = second[k]
      BY <1>1, <1>8, <3>2
    <3> QED
      BY <3>3, <3>4
  <2> QED
    BY <2>1, <2>2
<1> QED
  BY <1>1, <1>9, <1>10

------------------------------------------------------------------------------
(* What is taken of a side, the best first.                                *)

(* Parts at different prices; ranked by how many are better.               *)
Parts(X) == Distinct(X) /\ \A t \in X : t.price \in Position /\ t.quantity \in Nat
Rank(x, s, t) == Cardinality(Ahead(x, s, t))

(* There are finitely many prices, so finitely many parts at them.         *)
LEMMA PositionsAreNumbers == Position \subseteq Nat /\ IsFiniteSet(Position)
<1> DEFINE last == Ceiling \div LevelSpacing + SpreadSpacings + Depth
<1>1. Ceiling \div LevelSpacing \in Nat
  BY SimulatorAssumption
<1>2. last \in Nat
  BY <1>1, SimulatorAssumption
<1>3. Position = 1..last
  BY DEF Position
<1> HIDE DEF last
<1> QED
  BY <1>2, <1>3, FS_Interval

LEMMA PartsAreFinite ==
  ASSUME NEW X, Parts(X)
  PROVE  IsFiniteSet(X) /\ Cardinality(X) \in Nat
<1> DEFINE f == [t \in X |-> t.price]
<1>1. f \in Injection(X, Position)
  BY DEF Parts, Distinct, Injection, IsInjective
<1>2. IsFiniteSet(X)
  BY <1>1, PositionsAreNumbers, FS_Injection
<1> QED
  BY <1>2, FS_CardinalityType

(* A better part has a lower rank, no two parts share one, and every rank  *)
(* below their number is some part's.                                      *)
LEMMA PartsAreRanked ==
  ASSUME NEW x, NEW s \in Side, Parts(x[s])
  PROVE  /\ \A t \in x[s] : Rank(x, s, t) \in 0..Cardinality(x[s]) - 1
         /\ \A t, u \in x[s] : Better(s, t.price, u.price) => Rank(x, s, t) < Rank(x, s, u)
         /\ \A t, u \in x[s] : Rank(x, s, t) = Rank(x, s, u) => t = u
<1> DEFINE X == x[s]
<1>0. IsFiniteSet(X) /\ Cardinality(X) \in Nat /\ Distinct(X) /\ \A t \in X : t.price \in Nat
  BY PartsAreFinite, PositionsAreNumbers DEF Parts
<1> HIDE DEF X
<1>1. \A t \in X : Ahead(x, s, t) = {u \in X : Better(s, u.price, t.price)}
  BY DEF Ahead, X
<1>2. ASSUME NEW t \in X
      PROVE  /\ IsFiniteSet(Ahead(x, s, t)) /\ Rank(x, s, t) \in Nat
             /\ Rank(x, s, t) < Cardinality(X)
  <2>1. Ahead(x, s, t) \in SUBSET X /\ t \notin Ahead(x, s, t)
    BY <1>0, <1>1 DEF Better
  <2>2. IsFiniteSet(Ahead(x, s, t)) /\ Rank(x, s, t) \in Nat
    BY <1>0, <2>1, FS_Subset, FS_CardinalityType DEF Rank
  <2>3. Rank(x, s, t) <= Cardinality(X) /\ Rank(x, s, t) # Cardinality(X)
    BY <1>0, <2>1, FS_Subset DEF Rank
  <2> QED
    BY <1>0, <2>2, <2>3
<1>3. ASSUME NEW t \in X, NEW u \in X, Better(s, t.price, u.price)
      PROVE  Rank(x, s, t) < Rank(x, s, u)
  <2>1. Ahead(x, s, t) \in SUBSET Ahead(x, s, u)
    BY <1>0, <1>1, <1>3 DEF Better
  <2>2. t \in Ahead(x, s, u) /\ t \notin Ahead(x, s, t)
    BY <1>0, <1>1, <1>3 DEF Better
  <2>3. Rank(x, s, t) <= Rank(x, s, u) /\ Rank(x, s, t) # Rank(x, s, u)
    BY <1>2, <2>1, <2>2, FS_Subset DEF Rank
  <2> QED
    BY <1>2, <2>3
<1>4. ASSUME NEW t \in X, NEW u \in X, Rank(x, s, t) = Rank(x, s, u) PROVE t = u
  <2>1. t.price = u.price \/ Better(s, t.price, u.price) \/ Better(s, u.price, t.price)
    BY <1>0 DEF Better
  <2>2. ~Better(s, t.price, u.price) /\ ~Better(s, u.price, t.price)
    BY <1>2, <1>3, <1>4
  <2> QED
    BY <1>0, <2>1, <2>2 DEF Distinct
<1> QED
  BY <1>0, <1>2, <1>3, <1>4 DEF X

LEMMA EveryRankIsTaken ==
  ASSUME NEW x, NEW s \in Side, Parts(x[s]), NEW k \in 0..Cardinality(x[s]) - 1
  PROVE  \E t \in x[s] : Rank(x, s, t) = k
<1> DEFINE X == x[s]
           places == 0..Cardinality(X) - 1
           f == [t \in X |-> Rank(x, s, t)]
<1>1. Cardinality(X) \in Nat
  BY PartsAreFinite
<1>2. IsFiniteSet(places) /\ Cardinality(places) = Cardinality(X)
  BY <1>1, FS_Interval
<1>3. f \in [X -> places] /\ \A t, u \in X : f[t] = f[u] => t = u
  BY PartsAreRanked
<1> HIDE DEF f, places, X
<1>4. f \in Injection(X, places)
  BY <1>3 DEF Injection, IsInjective
<1>5. f \in Surjection(X, places)
  BY <1>2, <1>4, FS_Injection
<1>6. k \in places
  BY DEF places, X
<1>7. PICK t \in X : f[t] = k
  BY <1>5, <1>6 DEF Surjection
<1> QED
  BY <1>7 DEF f, X

(* One trade for each part, in the order of the ranks.                     *)
LEMMA PrintedTells ==
  ASSUME NEW x, NEW s \in Side, Parts(x[s])
  PROVE  /\ Printed(x, s) \in Seq(Printable) /\ Len(Printed(x, s)) = Cardinality(x[s])
         /\ \A k \in 1..Cardinality(x[s]) : \E t \in x[s] :
              /\ Rank(x, s, t) = k - 1
              /\ Printed(x, s)[k] = [from |-> s, price |-> t.price, quantity |-> t.quantity]
<1> DEFINE X == x[s]
           l(k) == CHOOSE m \in X : Rank(x, s, m) = k - 1
           n == Cardinality(X)
<1>1. n \in Nat
  BY PartsAreFinite
<1>2. Printed(x, s) = [k \in 1..n |-> [from |-> s, price |-> l(k).price, quantity |-> l(k).quantity]]
  BY Zenon DEF Printed, Rank
<1>3. ASSUME NEW k \in 1..n PROVE l(k) \in X /\ Rank(x, s, l(k)) = k - 1
  <2>1. k - 1 \in 0..n - 1
    BY <1>1
  <2>2. \E m \in X : Rank(x, s, m) = k - 1
    BY <2>1, EveryRankIsTaken
  <2> QED
    BY <2>2
<1> HIDE DEF l, n
<1>4. ASSUME NEW k \in 1..n
      PROVE  [from |-> s, price |-> l(k).price, quantity |-> l(k).quantity] \in Printable
  BY <1>3 DEF Parts, Printable
<1>5. Printed(x, s) \in [1..n -> Printable]
  BY <1>2, <1>4
<1>6. Printed(x, s) \in Seq(Printable) /\ Len(Printed(x, s)) = n
  BY <1>1, <1>2, <1>5
<1> QED
  BY <1>2, <1>3, <1>6 DEF n

(* The parts are taken of the levels, of none before all better ones.      *)
FromTheBest(s, levels, parts) ==
    /\ Parts(parts)
    /\ \A t \in parts : \E l \in levels : l.price = t.price /\ t.quantity <= l.quantity
    /\ \A t \in parts, l \in levels : Better(s, l.price, t.price) => l \in parts

(* The levels are those of a side, less what g was taken of them.          *)
LeftOf(side, s, g, levels) ==
    /\ \A l \in levels : \E was \in side :
         /\ was.price = l.price /\ g[<<s, was.price>>] < was.quantity
         /\ l.quantity = was.quantity - g[<<s, was.price>>]
    /\ \A was \in side : g[<<s, was.price>>] < was.quantity =>
         \E l \in levels : /\ l.price = was.price
                           /\ l.quantity = was.quantity - g[<<s, was.price>>]

(* k of the parts are taken besides g.                                     *)
Progress(x, s, g, f, k) ==
    /\ f \in Tally
    /\ \A t \in x[s] : Rank(x, s, t) < k => f[<<s, t.price>>] = g[<<s, t.price>>] + t.quantity
    /\ \A r \in Side, p \in Position :
         (r = s => \A t \in x[s] : t.price = p => ~(Rank(x, s, t) < k))
           => f[<<r, p>>] = g[<<r, p>>]

(* When the parts of the first k ranks are taken, taking the next one is a *)
(* trade at the best price: all better levels are taken whole by then.     *)
LEMMA NextIsAtBest ==
  ASSUME NEW b, NEW s \in Side, b[s] \in SUBSET Level, NEW g \in Tally, NEW levels,
         LeftOf(b[s], s, g, levels), NEW x, FromTheBest(s, levels, x[s]),
         NEW k \in Nat, NEW f, Progress(x, s, g, f, k),
         NEW t \in x[s], Rank(x, s, t) = k,
         NEW trade, trade = [from |-> s, price |-> t.price, quantity |-> t.quantity],
         NEW next, next = [f EXCEPT ![<<trade.from, trade.price>>] = @ + trade.quantity]
  PROVE  AtBest(b, f, trade) /\ Progress(x, s, g, next, k + 1)
<1>0. /\ Parts(x[s]) /\ Distinct(x[s]) /\ t.price \in Position /\ t.quantity \in Nat
      /\ \A u \in x[s] : u.price \in Position /\ u.quantity \in Nat
  BY DEF FromTheBest, Parts
<1>1. /\ \A u \in x[s] : Rank(x, s, u) \in Nat
      /\ \A u, v \in x[s] : Better(s, u.price, v.price) => Rank(x, s, u) < Rank(x, s, v)
      /\ \A u, v \in x[s] : Rank(x, s, u) = Rank(x, s, v) => u = v
  BY <1>0, PartsAreRanked
<1>2. trade.from = s /\ trade.price = t.price /\ trade.quantity = t.quantity
  OBVIOUS
<1>3. \A p \in Position : g[<<s, p>>] \in Int /\ f[<<s, p>>] \in Int
  BY DEF Tally, Progress
<1>4. \A l \in b[s] : l.price \in Position /\ l.quantity \in Nat
  BY SimulatorAssumption DEF Level
<1>5. f[<<s, t.price>>] = g[<<s, t.price>>]
  <2>1. \A u \in x[s] : u.price = t.price => ~(Rank(x, s, u) < k)
    <3>1. \A u \in x[s] : u.price = t.price => u = t
      BY <1>0 DEF Distinct
    <3> QED
      BY <1>1, <3>1
  <2> QED
    BY <1>0, <2>1, Zenon DEF Progress
<1>6. \A p \in Position : g[<<s, p>>] <= f[<<s, p>>]
  <2>1. ASSUME NEW p \in Position PROVE g[<<s, p>>] <= f[<<s, p>>]
    <3>1. CASE \E u \in x[s] : u.price = p /\ Rank(x, s, u) < k
      <4>1. PICK u \in x[s] : u.price = p /\ Rank(x, s, u) < k
        BY <3>1
      <4>2. f[<<s, p>>] = g[<<s, p>>] + u.quantity
        BY <4>1, Zenon DEF Progress
      <4> QED
        BY <1>0, <1>3, <4>2
    <3>2. CASE \A u \in x[s] : u.price = p => ~(Rank(x, s, u) < k)
      <4>1. f[<<s, p>>] = g[<<s, p>>]
        BY <3>2, Zenon DEF Progress
      <4> QED
        BY <1>3, <4>1
    <3> QED
      BY <3>1, <3>2
  <2> QED
    BY <2>1
<1>7. AtBest(b, f, trade)
  <2> DEFINE offered == {l \in b[s] : f[<<s, l.price>>] < l.quantity}
  <2>1. PICK l \in levels : l.price = t.price /\ t.quantity <= l.quantity
    BY DEF FromTheBest
  <2>2. PICK was \in b[s] : /\ was.price = l.price /\ g[<<s, was.price>>] < was.quantity
                            /\ l.quantity = was.quantity - g[<<s, was.price>>]
    BY Zenon DEF LeftOf
  <2>3. was \in offered /\ was.price = trade.price
    BY <1>2, <1>5, <2>1, <2>2
  <2>4. trade.quantity + f[<<s, was.price>>] <= was.quantity
    BY <1>0, <1>2, <1>3, <1>4, <1>5, <2>1, <2>2
  <2>5. ASSUME NEW m \in offered, Better(s, m.price, was.price) PROVE FALSE
    <3>1. m \in b[s] /\ f[<<s, m.price>>] < m.quantity
      OBVIOUS
    <3>2. g[<<s, m.price>>] < m.quantity
      BY <1>3, <1>4, <1>6, <3>1
    <3>3. PICK u \in levels : /\ u.price = m.price
                              /\ u.quantity = m.quantity - g[<<s, m.price>>]
      BY <3>1, <3>2, Zenon DEF LeftOf
    <3>4. Better(s, u.price, t.price)
      BY <2>1, <2>2, <2>5, <3>3
    <3>5. u \in x[s]
      BY <3>4, Zenon DEF FromTheBest
    <3>6. Rank(x, s, u) < k
      BY <1>1, <3>4, <3>5
    <3>7. f[<<s, u.price>>] = g[<<s, u.price>>] + u.quantity
      BY <3>5, <3>6, Zenon DEF Progress
    <3> QED
      BY <1>3, <1>4, <3>1, <3>3, <3>7
  <2>6. \E l0 \in offered : /\ l0.price = trade.price
                            /\ trade.quantity + f[<<s, l0.price>>] <= l0.quantity
                            /\ \A m \in offered : ~Better(s, m.price, l0.price)
    BY <2>3, <2>4, <2>5
  <2> QED
    BY <1>2, <2>6, Zenon DEF AtBest
<1>8. Progress(x, s, g, next, k + 1)
  <2>1. f \in Tally /\ <<s, t.price>> \in Side \X Position
    BY <1>0 DEF Progress
  <2>2. next = [f EXCEPT ![<<s, t.price>>] = f[<<s, t.price>>] + t.quantity]
    BY <1>2
  <2>3. next \in Tally
    BY <1>0, <1>3, <2>1, <2>2 DEF Tally
  <2>4. /\ next[<<s, t.price>>] = f[<<s, t.price>>] + t.quantity
        /\ \A r \in Side, p \in Position :
             (r # s \/ p # t.price) => next[<<r, p>>] = f[<<r, p>>]
    BY <2>1, <2>2 DEF Tally
  <2>5. ASSUME NEW u \in x[s], Rank(x, s, u) < k + 1
        PROVE  next[<<s, u.price>>] = g[<<s, u.price>>] + u.quantity
    <3>1. CASE u = t
      BY <1>5, <2>4, <3>1
    <3>2. CASE u # t
      <4>1. Rank(x, s, u) < k /\ u.price # t.price
        BY <1>0, <1>1, <2>5, <3>2 DEF Distinct
      <4>2. f[<<s, u.price>>] = g[<<s, u.price>>] + u.quantity
        BY <4>1, Zenon DEF Progress
      <4> QED
        BY <1>0, <2>4, <4>1, <4>2
    <3> QED
      BY <3>1, <3>2
  <2>6. ASSUME NEW r \in Side, NEW p \in Position,
               r = s => \A u \in x[s] : u.price = p => ~(Rank(x, s, u) < k + 1)
        PROVE  next[<<r, p>>] = g[<<r, p>>]
    <3>1. r # s \/ p # t.price
      BY <2>6
    <3>2. r = s => \A u \in x[s] : u.price = p => ~(Rank(x, s, u) < k)
      BY <1>1, <2>6
    <3>3. f[<<r, p>>] = g[<<r, p>>]
      BY <3>2, Zenon DEF Progress
    <3> QED
      BY <2>4, <3>1, <3>3
  <2> QED
    BY <2>3, <2>5, <2>6, Zenon DEF Progress
<1> QED
  BY <1>7, <1>8

(* What Rest leaves, level by level.                                       *)
LEMMA RestTells ==
  ASSUME NEW levels, NEW parts, NEW r
  PROVE  r \in Rest(levels, parts) <=>
           \/ r \in levels /\ \A t \in parts : t.price # r.price
           \/ \E l \in levels, t \in parts :
                /\ l.price = t.price /\ l.quantity > t.quantity
                /\ r = [price |-> l.price, quantity |-> l.quantity - t.quantity]
<1> DEFINE some == {x \in levels \X parts : x[1].price = x[2].price /\ x[1].quantity > x[2].quantity}
           cut == {[price |-> pair[1].price, quantity |-> pair[1].quantity - pair[2].quantity] : pair \in some}
<1>1. Rest(levels, parts) = {l \in levels : l.price \notin Prices(parts)} \cup cut
  BY Zenon DEF Rest
<1>2. r \in cut <=> \E l \in levels, t \in parts :
                      /\ l.price = t.price /\ l.quantity > t.quantity
                      /\ r = [price |-> l.price, quantity |-> l.quantity - t.quantity]
  <2>1. ASSUME NEW l \in levels, NEW t \in parts, l.price = t.price, l.quantity > t.quantity,
               r = [price |-> l.price, quantity |-> l.quantity - t.quantity]
        PROVE  r \in cut
    <3>1. <<l, t>> \in some
      BY <2>1
    <3> QED
      BY <2>1, <3>1
  <2> QED
    BY <2>1
<1> HIDE DEF cut
<1> QED
  BY <1>1, <1>2 DEF Prices

(* Taking the parts follows the book and leaves Rest of the levels.        *)
LEMMA SideFollows ==
  ASSUME NEW b, NEW s \in Side, b[s] \in SUBSET Level, NEW g \in Tally, NEW levels,
         LeftOf(b[s], s, g, levels), NEW x, FromTheBest(s, levels, x[s])
  PROVE  \E g2 \in Tally :
           /\ Follows(b, g, Printed(x, s), g2)
           /\ LeftOf(b[s], s, g2, Rest(levels, x[s]))
           /\ \A r \in Side, p \in Position : r # s => g2[<<r, p>>] = g[<<r, p>>]
<1> DEFINE n == Cardinality(x[s])
           trades == Printed(x, s)
<1>0. /\ Parts(x[s]) /\ Distinct(x[s])
      /\ \A t \in x[s] : t.price \in Position /\ t.quantity \in Nat
  BY DEF FromTheBest, Parts
<1>1. /\ n \in Nat /\ Len(trades) = n
      /\ \A k \in 1..n : \E t \in x[s] :
           /\ Rank(x, s, t) = k - 1
           /\ trades[k] = [from |-> s, price |-> t.price, quantity |-> t.quantity]
  BY <1>0, PartsAreFinite, PrintedTells
<1>2. \A t \in x[s] : Rank(x, s, t) \in 0..n - 1
  BY <1>0, PartsAreRanked
<1> HIDE DEF n, trades
<1>3. ASSUME NEW h, TakesFrom(h, g, trades)
      PROVE  /\ \A k \in 1..n : AtBest(b, h[k - 1], trades[k])
             /\ Progress(x, s, g, h[n], n)
  <2> DEFINE Good == {k \in Nat : k <= n => Progress(x, s, g, h[k], k)}
             Next1(f, t) == [f EXCEPT ![<<t.from, t.price>>] = @ + t.quantity]
  <2>1. h[0] = g /\ \A k \in 1..n : h[k] = Next1(h[k - 1], trades[k])
    <3>1. h = [k \in 0..n |-> IF k = 0 THEN g ELSE Next1(h[k - 1], trades[k])]
      BY <1>1, <1>3, Zenon DEF TakesFrom
    <3>2. 0 \in 0..n /\ \A k \in 1..n : k \in 0..n /\ k # 0
      BY <1>1
    <3> HIDE DEF Next1
    <3> QED
      BY <3>1, <3>2
  <2>2. 0 \in Good
    <3>1. Progress(x, s, g, g, 0)
      BY <1>2 DEF Progress
    <3> QED
      BY <2>1, <3>1
  <2>3. ASSUME NEW k \in Nat, k + 1 <= n, Progress(x, s, g, h[k], k)
        PROVE  AtBest(b, h[k], trades[k + 1]) /\ Progress(x, s, g, h[k + 1], k + 1)
    <3>1. k + 1 \in 1..n /\ k + 1 - 1 = k
      BY <1>1, <2>3
    <3>2. PICK t \in x[s] :
            /\ Rank(x, s, t) = k
            /\ trades[k + 1] = [from |-> s, price |-> t.price, quantity |-> t.quantity]
      <4>1. PICK j : j = k + 1 /\ j \in 1..n /\ j - 1 = k
        BY <3>1
      <4>2. \E t \in x[s] :
              /\ Rank(x, s, t) = j - 1
              /\ trades[j] = [from |-> s, price |-> t.price, quantity |-> t.quantity]
        BY <1>1, <4>1, Zenon
      <4>3. trades[j] = trades[k + 1]
        BY <4>1
      <4> QED
        BY <4>1, <4>2, <4>3, Zenon
    <3>3. PICK f, trade, next : f = h[k] /\ trade = trades[k + 1] /\ next = h[k + 1]
      OBVIOUS
    <3>4. next = [f EXCEPT ![<<trade.from, trade.price>>] = @ + trade.quantity]
      BY <2>1, <3>1, <3>3
    <3>5. trade = [from |-> s, price |-> t.price, quantity |-> t.quantity]
      BY <3>2, <3>3
    <3>6. Progress(x, s, g, f, k)
      BY <2>3, <3>3
    <3>7. AtBest(b, f, trade) /\ Progress(x, s, g, next, k + 1)
      <4> HIDE DEF Next1, Good
      <4> QED
        BY <3>2, <3>4, <3>5, <3>6, NextIsAtBest
    <3> QED
      BY <3>3, <3>7
  <2>4. ASSUME NEW k \in Nat, k \in Good PROVE k + 1 \in Good
    BY <1>1, <2>3, <2>4
  <2> HIDE DEF Next1
  <2>5. Nat \subseteq Good
    <3> HIDE DEF Good
    <3> QED
      BY <2>2, <2>4, NatSetInduction
  <2>6. ASSUME NEW k \in 1..n PROVE AtBest(b, h[k - 1], trades[k])
    <3>1. k - 1 \in Nat /\ k - 1 <= n /\ k - 1 + 1 = k /\ k <= n
      BY <1>1
    <3>2. Progress(x, s, g, h[k - 1], k - 1)
      BY <2>5, <3>1
    <3>3. AtBest(b, h[k - 1], trades[k - 1 + 1])
      BY <2>3, <3>1, <3>2
    <3> QED
      BY <3>1, <3>3
  <2>7. n <= n
    BY <1>1
  <2> QED
    BY <1>1, <2>5, <2>6, <2>7
<1>4. PICK h : TakesFrom(h, g, trades)
  BY <1>1, TakesFromExists
<1>5. PICK g2 : g2 = h[n]
  OBVIOUS
<1>6. Progress(x, s, g, g2, n)
  BY <1>3, <1>4, <1>5
<1>7. /\ g2 \in Tally
      /\ \A t \in x[s] : g2[<<s, t.price>>] = g[<<s, t.price>>] + t.quantity
      /\ \A p \in Position : (\A t \in x[s] : t.price # p) => g2[<<s, p>>] = g[<<s, p>>]
      /\ \A r \in Side, p \in Position : r # s => g2[<<r, p>>] = g[<<r, p>>]
  <2>1. \A t \in x[s] : Rank(x, s, t) < n
    BY <1>1, <1>2
  <2> QED
    BY <1>6, <2>1, Zenon DEF Progress
<1>8. Follows(b, g, trades, g2)
  <2>1. ASSUME NEW o, TakesFrom(o, g, trades) PROVE o[n] = g2
    <3>1. PICK f : f = o[n]
      OBVIOUS
    <3>2. Progress(x, s, g, f, n)
      BY <1>3, <2>1, <3>1
    <3>3. /\ f \in Tally
          /\ \A t \in x[s] : f[<<s, t.price>>] = g[<<s, t.price>>] + t.quantity
          /\ \A p \in Position : (\A t \in x[s] : t.price # p) => f[<<s, p>>] = g[<<s, p>>]
          /\ \A r \in Side, p \in Position : r # s => f[<<r, p>>] = g[<<r, p>>]
      <4>1. \A t \in x[s] : Rank(x, s, t) < n
        BY <1>1, <1>2
      <4> QED
        BY <3>2, <4>1, Zenon DEF Progress
    <3>4. ASSUME NEW r \in Side, NEW p \in Position PROVE f[<<r, p>>] = g2[<<r, p>>]
      <4>1. CASE r # s
        BY <1>7, <3>3, <4>1
      <4>2. CASE r = s /\ \A t \in x[s] : t.price # p
        BY <1>7, <3>3, <4>2
      <4>3. CASE r = s /\ \E t \in x[s] : t.price = p
        BY <1>7, <3>3, <4>3
      <4> QED
        BY <4>1, <4>2, <4>3
    <3>5. f = [place \in Side \X Position |-> f[place]]
          /\ g2 = [place \in Side \X Position |-> g2[place]]
      BY <1>7, <3>3 DEF Tally
    <3>6. \A place \in Side \X Position : f[place] = g2[place]
      BY <3>4
    <3> QED
      BY <3>1, <3>5, <3>6
  <2> QED
    BY <1>1, <1>3, <2>1, Zenon DEF Follows
<1>9. \A p \in Position : g[<<s, p>>] \in Int
  BY DEF Tally
<1>10. \A l \in b[s] : l.price \in Position /\ l.quantity \in Nat
  BY SimulatorAssumption DEF Level
<1>11. ASSUME NEW r \in Rest(levels, x[s])
       PROVE  \E was \in b[s] :
                /\ was.price = r.price /\ g2[<<s, was.price>>] < was.quantity
                /\ r.quantity = was.quantity - g2[<<s, was.price>>]
  <2>1. CASE r \in levels /\ \A t \in x[s] : t.price # r.price
    <3>1. PICK was \in b[s] : /\ was.price = r.price /\ g[<<s, was.price>>] < was.quantity
                              /\ r.quantity = was.quantity - g[<<s, was.price>>]
      BY <2>1, Zenon DEF LeftOf
    <3>2. g2[<<s, was.price>>] = g[<<s, was.price>>]
      BY <1>7, <1>10, <2>1, <3>1
    <3> QED
      BY <3>1, <3>2
  <2>2. CASE \E l \in levels, t \in x[s] :
               /\ l.price = t.price /\ l.quantity > t.quantity
               /\ r = [price |-> l.price, quantity |-> l.quantity - t.quantity]
    <3>1. PICK l \in levels, t \in x[s] :
               /\ l.price = t.price /\ l.quantity > t.quantity
               /\ r = [price |-> l.price, quantity |-> l.quantity - t.quantity]
      BY <2>2
    <3>2. PICK was \in b[s] : /\ was.price = l.price /\ g[<<s, was.price>>] < was.quantity
                              /\ l.quantity = was.quantity - g[<<s, was.price>>]
      BY Zenon DEF LeftOf
    <3>3. g2[<<s, was.price>>] = g[<<s, was.price>>] + t.quantity
      BY <1>7, <3>1, <3>2
    <3>4. r.price = was.price /\ r.quantity = l.quantity - t.quantity
      BY <3>1, <3>2
    <3>5. /\ t.quantity \in Nat /\ l.quantity > t.quantity
          /\ was.quantity \in Nat /\ g[<<s, was.price>>] \in Int
      BY <1>0, <1>9, <1>10, <3>1
    <3>6. /\ g2[<<s, was.price>>] < was.quantity
          /\ r.quantity = was.quantity - g2[<<s, was.price>>]
      BY <3>2, <3>3, <3>4, <3>5
    <3> QED
      BY <3>4, <3>6
  <2> QED
    BY <2>1, <2>2, RestTells
<1>12. ASSUME NEW was \in b[s], g2[<<s, was.price>>] < was.quantity
       PROVE  \E r \in Rest(levels, x[s]) : /\ r.price = was.price
                                            /\ r.quantity = was.quantity - g2[<<s, was.price>>]
  <2>1. was.price \in Position /\ was.quantity \in Nat /\ g[<<s, was.price>>] \in Int
    BY <1>9, <1>10
  <2>2. CASE \A t \in x[s] : t.price # was.price
    <3>1. g2[<<s, was.price>>] = g[<<s, was.price>>]
      BY <1>7, <2>1, <2>2
    <3>2. PICK l \in levels : /\ l.price = was.price
                              /\ l.quantity = was.quantity - g[<<s, was.price>>]
      BY <1>12, <3>1, Zenon DEF LeftOf
    <3>3. l \in Rest(levels, x[s])
      BY <2>2, <3>2, RestTells
    <3> QED
      BY <3>1, <3>2, <3>3
  <2>3. CASE \E t \in x[s] : t.price = was.price
    <3>1. PICK t \in x[s] : t.price = was.price
      BY <2>3
    <3>2. g2[<<s, was.price>>] = g[<<s, was.price>>] + t.quantity /\ t.quantity \in Nat
      BY <1>0, <1>7, <3>1
    <3>3. g[<<s, was.price>>] < was.quantity
      BY <1>12, <2>1, <3>2
    <3>4. PICK l \in levels : /\ l.price = was.price
                              /\ l.quantity = was.quantity - g[<<s, was.price>>]
      BY <3>3, Zenon DEF LeftOf
    <3>5. l.quantity > t.quantity
      BY <1>12, <2>1, <3>2, <3>4
    <3>6. PICK r : r = [price |-> l.price, quantity |-> l.quantity - t.quantity]
      OBVIOUS
    <3>7. r \in Rest(levels, x[s])
      BY <3>1, <3>4, <3>5, <3>6, RestTells
    <3>8. r.price = was.price /\ r.quantity = was.quantity - g2[<<s, was.price>>]
      BY <2>1, <3>2, <3>4, <3>6
    <3> QED
      BY <3>7, <3>8
  <2> QED
    BY <2>2, <2>3
<1>13. LeftOf(b[s], s, g2, Rest(levels, x[s]))
  BY <1>11, <1>12, Zenon DEF LeftOf
<1> QED
  BY <1>7, <1>8, <1>13 DEF trades

------------------------------------------------------------------------------
(* Sums over levels, whichever is added first.                             *)

Sum(levels) == MapThenSumSet(LAMBDA l : l.quantity, levels)

(* h sums the quantities of every set of these levels.                     *)
SumsAll(h, levels) ==
    /\ h[{}] = 0
    /\ \A s \in SUBSET levels : s # {} => h[s] = Pick(s).quantity + h[s \ {Pick(s)}]

(* What SumExists gives, for one family of sets.                           *)
LEMMA SumsUnfold ==
  ASSUME NEW levels, NEW h, Sums(h, SUBSET levels)
  PROVE  SumsAll(h, levels)
<1>1. \A s \in SUBSET levels : h[s] = IF s = {} THEN 0 ELSE Pick(s).quantity + h[s \ {Pick(s)}]
  BY DEF Sums
<1>2. {} \in SUBSET levels
  OBVIOUS
<1> QED
  BY <1>1, <1>2, Zenon DEF SumsAll

LEMMA SubsetsShrink ==
  ASSUME NEW levels, IsFiniteSet(levels)
  PROVE  /\ \A s \in SUBSET levels : /\ Cardinality(s) \in Nat /\ IsFiniteSet(s)
                                     /\ Cardinality(s) = 0 <=> s = {}
         /\ \A s \in SUBSET levels : \A l \in s :
              s \ {l} \in SUBSET levels /\ Cardinality(s \ {l}) = Cardinality(s) - 1
         /\ \A s \in SUBSET levels : s # {} => Pick(s) \in s
<1>1. \A s \in SUBSET levels : /\ Cardinality(s) \in Nat /\ IsFiniteSet(s)
                               /\ Cardinality(s) = 0 <=> s = {}
  BY FS_Subset, FS_CardinalityType, FS_EmptySet
<1>2. ASSUME NEW s \in SUBSET levels, NEW l \in s
      PROVE  s \ {l} \in SUBSET levels /\ Cardinality(s \ {l}) = Cardinality(s) - 1
  BY <1>1, FS_RemoveElement
<1>3. \A s \in SUBSET levels : s # {} => Pick(s) \in s
  BY DEF Pick
<1> QED
  BY <1>1, <1>2, <1>3

(* One function on the subsets of the levels gives the sum of each.        *)
LEMMA SumIsSummed ==
  ASSUME NEW levels, IsFiniteSet(levels), NEW h, SumsAll(h, levels), NEW S \in SUBSET levels
  PROVE  Sum(S) = h[S]
<1> DEFINE iter == CHOOSE f : Sums(f, SUBSET S)
           Good == {n \in Nat : \A s \in SUBSET S : Cardinality(s) = n => iter[s] = h[s]}
<1>0. IsFiniteSet(S) /\ SUBSET S \subseteq SUBSET levels
  BY FS_Subset
<1>1. Sums(iter, SUBSET S)
  BY <1>0, SumExists, Zenon
<1>2. Sum(S) = iter[S]
  BY DEF Sum, MapThenSumSet, MapThenFoldSet, Sums, Pick
<1> HIDE DEF iter
<1>3. SumsAll(iter, S)
  BY <1>1, SumsUnfold
<1>4. 0 \in Good
  <2>1. \A s \in SUBSET S : Cardinality(s) = 0 => s = {}
    BY <1>0, SubsetsShrink
  <2>2. iter[{}] = h[{}]
    BY <1>3, Zenon DEF SumsAll
  <2> QED
    BY <2>1, <2>2
<1>5. ASSUME NEW n \in Nat, n \in Good PROVE n + 1 \in Good
  <2>1. ASSUME NEW s \in SUBSET S, Cardinality(s) = n + 1 PROVE iter[s] = h[s]
    <3>1. s # {} /\ Pick(s) \in s
      BY <1>0, <2>1, SubsetsShrink
    <3>2. s \ {Pick(s)} \in SUBSET S /\ Cardinality(s \ {Pick(s)}) = n
      BY <1>0, <2>1, <3>1, SubsetsShrink
    <3>3. iter[s \ {Pick(s)}] = h[s \ {Pick(s)}]
      BY <1>5, <3>2
    <3>4. iter[s] = Pick(s).quantity + iter[s \ {Pick(s)}]
      BY <1>3, <3>1, Zenon DEF SumsAll
    <3>5. h[s] = Pick(s).quantity + h[s \ {Pick(s)}]
      BY <1>0, <3>1, Zenon DEF SumsAll
    <3> QED
      BY <3>3, <3>4, <3>5
  <2> QED
    BY <2>1
<1> HIDE DEF Good
<1>6. Cardinality(S) \in Good /\ S \in SUBSET S
  BY <1>0, <1>4, <1>5, FS_CardinalityType, NatSetInduction
<1> QED
  BY <1>2, <1>6 DEF Good

(* The sum is the same whichever level Pick takes first.                   *)
LEMMA AnyFirst ==
  ASSUME NEW levels \in SUBSET Level, IsFiniteSet(levels), NEW h, SumsAll(h, levels)
  PROVE  \A s \in SUBSET levels : h[s] \in Nat /\ \A l \in s : h[s] = l.quantity + h[s \ {l}]
<1> DEFINE Good == {n \in Nat : \A s \in SUBSET levels : Cardinality(s) <= n =>
                       h[s] \in Nat /\ \A l \in s : h[s] = l.quantity + h[s \ {l}]}
<1>0. \A l \in levels : l.quantity \in Nat
  BY SimulatorAssumption DEF Level
<1>1. 0 \in Good
  <2>1. \A s \in SUBSET levels : Cardinality(s) <= 0 => s = {}
    BY SubsetsShrink
  <2>2. h[{}] = 0
    BY DEF SumsAll
  <2> QED
    BY <2>1, <2>2
<1>2. ASSUME NEW n \in Nat, n \in Good PROVE n + 1 \in Good
  <2>1. ASSUME NEW s \in SUBSET levels, Cardinality(s) = n + 1
        PROVE  h[s] \in Nat /\ \A l \in s : h[s] = l.quantity + h[s \ {l}]
    <3>1. PICK p : p = Pick(s)
      OBVIOUS
    <3>2. s # {} /\ p \in s
      BY <2>1, <3>1, SubsetsShrink
    <3>3. s \ {p} \in SUBSET levels /\ Cardinality(s \ {p}) = n /\ Cardinality(s \ {p}) <= n
      BY <2>1, <3>2, SubsetsShrink
    <3>4. h[s] = p.quantity + h[s \ {p}]
      BY <3>1, <3>2, Zenon DEF SumsAll
    <3>5. h[s \ {p}] \in Nat /\ \A l \in s \ {p} : h[s \ {p}] = l.quantity + h[(s \ {p}) \ {l}]
      BY <1>2, <3>3, Zenon
    <3>6. ASSUME NEW l \in s PROVE h[s] = l.quantity + h[s \ {l}]
      <4>1. CASE l = p
        BY <3>4, <4>1
      <4>2. CASE l # p
        <5>1. l \in s \ {p} /\ p \in s \ {l}
          BY <3>2, <4>2
        <5>2. s \ {l} \in SUBSET levels /\ Cardinality(s \ {l}) = n /\ Cardinality(s \ {l}) <= n
          BY <2>1, SubsetsShrink
        <5>3. h[s \ {p}] = l.quantity + h[(s \ {p}) \ {l}]
          BY <3>5, <5>1, Zenon
        <5>4. h[s \ {l}] = p.quantity + h[(s \ {l}) \ {p}]
          BY <1>2, <5>1, <5>2, Zenon
        <5>5. (s \ {p}) \ {l} = (s \ {l}) \ {p}
          OBVIOUS
        <5>6. h[(s \ {p}) \ {l}] \in Nat
          <6>1. (\A t \in SUBSET levels : Cardinality(t) \in Nat)
                /\ (s \ {p}) \ {l} \in SUBSET levels
                /\ Cardinality((s \ {p}) \ {l}) = Cardinality(s \ {p}) - 1
            BY <3>3, <5>1, SubsetsShrink
          <6>2. Cardinality((s \ {p}) \ {l}) <= n
            BY <3>3, <6>1
          <6> QED
            BY <1>2, <6>1, <6>2, Zenon
        <5>7. PICK q1, q2, rest : q1 = p.quantity /\ q2 = l.quantity /\ rest = h[(s \ {p}) \ {l}]
          OBVIOUS
        <5>8. q1 \in Nat /\ q2 \in Nat /\ rest \in Nat
          BY <1>0, <3>2, <5>6, <5>7
        <5>9. h[s] = q1 + (q2 + rest) /\ h[s \ {l}] = q1 + rest
          BY <3>4, <5>3, <5>4, <5>5, <5>7
        <5>10. q1 + (q2 + rest) = q2 + (q1 + rest)
          BY <5>8
        <5> QED
          BY <5>7, <5>9, <5>10
      <4> QED
        BY <4>1, <4>2
    <3>7. PICK q1, rest : q1 = p.quantity /\ rest = h[s \ {p}]
      OBVIOUS
    <3>8. q1 \in Nat /\ rest \in Nat /\ h[s] = q1 + rest
      BY <1>0, <3>2, <3>4, <3>5, <3>7
    <3>9. h[s] \in Nat
      BY <3>8
    <3> QED
      BY <3>6, <3>9
  <2>2. \A s \in SUBSET levels : Cardinality(s) \in Nat
    BY SubsetsShrink
  <2>3. \A s \in SUBSET levels : Cardinality(s) <= n + 1 => Cardinality(s) <= n \/ Cardinality(s) = n + 1
    BY <2>2
  <2>4. ASSUME NEW s \in SUBSET levels, Cardinality(s) <= n + 1
        PROVE  h[s] \in Nat /\ \A l \in s : h[s] = l.quantity + h[s \ {l}]
    <3>1. CASE Cardinality(s) <= n
      BY <1>2, <3>1, Zenon
    <3>2. CASE Cardinality(s) = n + 1
      BY <2>1, <3>2, Zenon
    <3> QED
      BY <2>3, <2>4, <3>1, <3>2
  <2> QED
    BY <1>2, <2>4
<1>3. Nat \subseteq Good
  <2> HIDE DEF Good
  <2> QED
    BY <1>1, <1>2, NatSetInduction
<1>4. \A s \in SUBSET levels : Cardinality(s) \in Nat /\ Cardinality(s) <= Cardinality(s)
  BY SubsetsShrink
<1> QED
  BY <1>3, <1>4

(* More levels and one more hold at least as much more.                    *)
LEMMA SumGrows ==
  ASSUME NEW levels \in SUBSET Level, IsFiniteSet(levels),
         NEW l \in levels, NEW S \in SUBSET (levels \ {l})
  PROVE  Sum(S) \in Nat /\ Sum(levels) \in Nat /\ Sum(S) + l.quantity <= Sum(levels)
<1>1. PICK h : SumsAll(h, levels)
  BY SumExists, SumsUnfold
<1>2. \A s \in SUBSET levels : h[s] \in Nat /\ \A m \in s : h[s] = m.quantity + h[s \ {m}]
  BY <1>1, AnyFirst
<1>3. \A m \in levels : m.quantity \in Nat
  BY SimulatorAssumption DEF Level
<1> DEFINE Good == {n \in Nat : \A s \in SUBSET levels :
                      Cardinality(s) = n => (S \subseteq s => h[S] <= h[s])}
<1>4. 0 \in Good
  <2>1. \A s \in SUBSET levels : Cardinality(s) = 0 => s = {}
    BY SubsetsShrink
  <2>2. {} \in SUBSET levels /\ h[{}] \in Nat
    BY <1>2
  <2>3. S \subseteq {} => S = {}
    OBVIOUS
  <2> QED
    BY <2>1, <2>2, <2>3
<1>5. ASSUME NEW n \in Nat, n \in Good PROVE n + 1 \in Good
  <2>1. ASSUME NEW s \in SUBSET levels, Cardinality(s) = n + 1, S \subseteq s
        PROVE  h[S] <= h[s]
    <3>1. CASE S = s
      BY <1>2, <3>1
    <3>2. CASE S # s
      <4>1. PICK m \in s : m \notin S
        BY <2>1, <3>2
      <4>2. s \ {m} \in SUBSET levels /\ Cardinality(s \ {m}) = n /\ S \subseteq s \ {m}
        BY <2>1, <4>1, SubsetsShrink
      <4>3. h[S] <= h[s \ {m}] /\ h[s \ {m}] \in Nat /\ h[S] \in Nat
        BY <1>2, <1>5, <4>2
      <4>4. h[s] = m.quantity + h[s \ {m}] /\ m.quantity \in Nat
        BY <1>2, <1>3
      <4> QED
        BY <4>3, <4>4
    <3> QED
      BY <3>1, <3>2
  <2> QED
    BY <2>1
<1>6. Nat \subseteq Good
  <2> HIDE DEF Good
  <2> QED
    BY <1>4, <1>5, NatSetInduction
<1>7. levels \ {l} \in SUBSET levels /\ Cardinality(levels \ {l}) \in Nat
  BY FS_Subset, FS_CardinalityType
<1>8. h[S] <= h[levels \ {l}]
  BY <1>6, <1>7
<1>9. h[levels] = l.quantity + h[levels \ {l}] /\ h[levels \ {l}] \in Nat /\ l.quantity \in Nat
  BY <1>2, <1>3
<1>10. Sum(S) = h[S] /\ Sum(levels) = h[levels] /\ h[S] \in Nat /\ h[levels] \in Nat
  BY <1>1, <1>2, SumIsSummed
<1> QED
  BY <1>8, <1>9, <1>10

------------------------------------------------------------------------------
(* Each kind of trade takes from the best.                                 *)

(* What a sound book has on a side.                                        *)
LEMMA SoundSide ==
  ASSUME NEW b, SoundBook(b), NEW s \in Side
  PROVE  /\ b[s] \in SUBSET Level /\ Distinct(b[s]) /\ IsFiniteSet(b[s])
         /\ \A l \in b[s] : l.price \in Position /\ l.price \in Nat /\ l.quantity \in Nat \ {0}
<1>1. b[s] \in SUBSET Level /\ Distinct(b[s])
  BY DEF SoundBook, Side
<1>2. \A l \in Level : l.price \in Position /\ l.quantity \in Nat \ {0}
  BY SimulatorAssumption DEF Level
<1>3. IsFiniteSet(b[s])
  BY <1>1, AsManyAsPrices
<1> QED
  BY <1>1, <1>2, <1>3, PositionsAreNumbers

(* Taking nothing, and taking the levels the new targets have passed.      *)
LEMMA NothingIsFromTheBest == \A s, levels : FromTheBest(s, levels, {})
BY DEF FromTheBest, Parts, Distinct

(* Whole levels, and every better one with each.                           *)
LEMMA WholeLevels ==
  ASSUME NEW b, SoundBook(b), NEW s \in Side, NEW X \in SUBSET b[s],
         \A t \in X, l \in b[s] : Better(s, l.price, t.price) => l \in X
  PROVE  FromTheBest(s, b[s], X)
<1>1. /\ Distinct(b[s])
      /\ \A l \in b[s] : l.price \in Position /\ l.quantity \in Nat
  BY SoundSide
<1>2. Parts(X)
  BY <1>1 DEF Parts, Distinct
<1>3. \A t \in X : t \in b[s] /\ t.price = t.price /\ t.quantity <= t.quantity
  BY <1>1
<1> QED
  BY <1>2, <1>3 DEF FromTheBest

LEMMA StaleFromTheBest ==
  ASSUME NEW b, SoundBook(b), NEW bid \in Nat, NEW ask \in Nat, NEW s \in Side
  PROVE  FromTheBest(s, b[s], Stale(b, bid, ask)[s])
<1>1. \A l \in b[s] : l.price \in Nat
  BY SoundSide
<1>2. CASE s = "bid"
  <2>1. Stale(b, bid, ask)[s] = {l \in b[s] : l.price > bid}
    BY <1>2 DEF Stale
  <2>2. \A p, q : Better(s, p, q) <=> p > q
    BY <1>2 DEF Better
  <2>3. \A t \in Stale(b, bid, ask)[s], l \in b[s] :
          Better(s, l.price, t.price) => l \in Stale(b, bid, ask)[s]
    BY <1>1, <2>1, <2>2
  <2> QED
    BY <2>1, <2>3, WholeLevels
<1>3. CASE s = "ask"
  <2>1. Stale(b, bid, ask)[s] = {l \in b[s] : l.price < ask}
    BY <1>3 DEF Stale
  <2>2. \A p, q : Better(s, p, q) <=> p < q
    BY <1>3 DEF Better
  <2>3. \A t \in Stale(b, bid, ask)[s], l \in b[s] :
          Better(s, l.price, t.price) => l \in Stale(b, bid, ask)[s]
    BY <1>1, <2>1, <2>2
  <2> QED
    BY <2>1, <2>3, WholeLevels
<1> QED
  BY <1>2, <1>3 DEF Side

(* Fewer are ahead of a better level.                                      *)
LEMMA FewerAhead ==
  ASSUME NEW b, SoundBook(b), NEW s \in Side, NEW l \in b[s], NEW t \in b[s],
         Better(s, l.price, t.price)
  PROVE  /\ Ahead(b, s, t) \in SUBSET b[s] /\ IsFiniteSet(Ahead(b, s, t))
         /\ l \in Ahead(b, s, t) /\ Ahead(b, s, l) \in SUBSET (Ahead(b, s, t) \ {l})
<1>1. IsFiniteSet(b[s]) /\ \A m \in b[s] : m.price \in Nat
  BY SoundSide
<1>2. \A m : Ahead(b, s, m) = {k \in b[s] : Better(s, k.price, m.price)}
  BY DEF Ahead
<1>3. Ahead(b, s, t) \in SUBSET b[s] /\ l \in Ahead(b, s, t)
  BY <1>2
<1>4. \A m \in b[s] : Better(s, m.price, l.price) => m # l /\ Better(s, m.price, t.price)
  BY <1>1 DEF Better
<1> QED
  BY <1>1, <1>2, <1>3, <1>4, FS_Subset

(* A cascade takes from the best: a level better than a swept one has      *)
(* fewer ahead.                                                            *)
LEMMA SweptFromTheBest ==
  ASSUME NEW b, SoundBook(b), NEW side \in Side, NEW count \in Int, NEW s \in Side
  PROVE  FromTheBest(s, b[s], Swept(b, side, count)[s])
<1>1. CASE s = side
  <2> DEFINE X == {l \in b[s] : Cardinality(Ahead(b, s, l)) < count}
  <2>1. Swept(b, side, count)[s] = X
    BY <1>1 DEF Swept, Empty, Side
  <2>2. ASSUME NEW t \in X, NEW l \in b[s], Better(s, l.price, t.price) PROVE l \in X
    <3>1. /\ IsFiniteSet(Ahead(b, s, t))
          /\ Ahead(b, s, l) \in SUBSET Ahead(b, s, t)
      BY <2>2, FewerAhead
    <3>2. /\ Cardinality(Ahead(b, s, t)) \in Nat /\ Cardinality(Ahead(b, s, l)) \in Nat
          /\ Cardinality(Ahead(b, s, l)) <= Cardinality(Ahead(b, s, t))
      BY <3>1, FS_Subset, FS_CardinalityType
    <3> QED
      BY <3>2
  <2>3. FromTheBest(s, b[s], X)
    <3>1. X \in SUBSET b[s]
      OBVIOUS
    <3> HIDE DEF X
    <3> QED
      BY <2>2, <3>1, WholeLevels
  <2> QED
    BY <2>1, <2>3
<1>2. CASE s # side
  <2>1. Swept(b, side, count)[s] = {}
    BY <1>2 DEF Swept, Empty, Side
  <2> QED
    BY <2>1, NothingIsFromTheBest
<1> QED
  BY <1>1, <1>2

(* So does a stray trade: what is ahead of a level is spent before it, so  *)
(* a level better than one it reaches is taken whole.                      *)
LEMMA StrayFromTheBest ==
  ASSUME NEW b, SoundBook(b), NEW side \in Side, NEW quantity \in Nat, NEW s \in Side
  PROVE  FromTheBest(s, b[s], Stray(b, side, quantity)[s])
<1>1. CASE s = side
  <2> DEFINE Spent(l) == MapThenSumSet(LAMBDA m : m.quantity, Ahead(b, s, l))
             Part(l) == [l EXCEPT !.quantity = Least(l.quantity, quantity - Spent(l))]
             X == {Part(l) : l \in {m \in b[s] : Spent(m) < quantity}}
  <2>1. Stray(b, side, quantity)[s] = X
    BY <1>1 DEF Stray, Empty, Side
  <2>2. /\ b[s] \in SUBSET Level /\ Distinct(b[s]) /\ IsFiniteSet(b[s])
        /\ \A l \in b[s] : l.price \in Position /\ l.price \in Nat /\ l.quantity \in Nat
    BY SoundSide
  <2>3. ASSUME NEW l \in b[s] PROVE Spent(l) \in Nat
    <3>1. Ahead(b, s, l) \in SUBSET b[s]
      BY DEF Ahead
    <3>2. Ahead(b, s, l) \in SUBSET Level /\ IsFiniteSet(Ahead(b, s, l))
      BY <2>2, <3>1, FS_Subset
    <3> QED
      BY <3>2, SumIsNatural
  <2>4. ASSUME NEW l \in b[s], NEW t \in b[s], Better(s, l.price, t.price)
        PROVE  Spent(l) + l.quantity <= Spent(t)
    <3>1. /\ Ahead(b, s, t) \in SUBSET Level /\ IsFiniteSet(Ahead(b, s, t))
          /\ l \in Ahead(b, s, t) /\ Ahead(b, s, l) \in SUBSET (Ahead(b, s, t) \ {l})
      BY <2>2, <2>4, FewerAhead
    <3>2. Sum(Ahead(b, s, l)) + l.quantity <= Sum(Ahead(b, s, t))
      BY <3>1, SumGrows
    <3> QED
      BY <3>2 DEF Sum
  <2> HIDE DEF Spent
  <2>5. ASSUME NEW l \in b[s], Spent(l) < quantity
        PROVE  /\ Part(l).price = l.price /\ Part(l).quantity \in Nat
               /\ Part(l).quantity <= l.quantity
               /\ Spent(l) + l.quantity <= quantity => Part(l) = l
    <3>1. l \in Level /\ l.quantity \in Nat /\ Spent(l) \in Nat
      BY <2>2, <2>3
    <3>2. PICK q : q = Least(l.quantity, quantity - Spent(l))
      OBVIOUS
    <3>3. /\ q \in Nat /\ q <= l.quantity
          /\ Spent(l) + l.quantity <= quantity => q = l.quantity
      BY <2>5, <3>1, <3>2 DEF Least
    <3>4. Part(l) = [l EXCEPT !.quantity = q]
      BY <3>2
    <3>5. Part(l).price = l.price /\ Part(l).quantity = q
      BY <3>1, <3>4 DEF Level
    <3>6. q = l.quantity => Part(l) = l
      BY <3>1, <3>4 DEF Level
    <3> HIDE DEF Part
    <3> QED
      BY <3>3, <3>5, <3>6
  <2> HIDE DEF Part
  <2>6. Parts(X)
    BY <2>2, <2>5 DEF Parts, Distinct
  <2>7. \A t \in X : \E l \in b[s] : l.price = t.price /\ t.quantity <= l.quantity
    BY <2>5
  <2>8. ASSUME NEW t \in X, NEW l \in b[s], Better(s, l.price, t.price) PROVE l \in X
    <3>1. PICK m \in b[s] : Spent(m) < quantity /\ t = Part(m)
      OBVIOUS
    <3>2. t.price = m.price
      BY <2>5, <3>1
    <3>3. Spent(l) + l.quantity <= Spent(m)
      BY <2>4, <2>8, <3>2
    <3>4. Spent(l) + l.quantity <= quantity /\ Spent(l) < quantity
      BY <2>2, <2>3, <3>1, <3>3
    <3>5. Part(l) = l
      BY <2>5, <3>4
    <3> QED
      BY <3>4, <3>5
  <2> HIDE DEF X
  <2> QED
    BY <2>1, <2>6, <2>7, <2>8, Zenon DEF FromTheBest
<1>2. CASE s # side
  <2>1. Stray(b, side, quantity)[s] = {}
    BY <1>2 DEF Stray, Empty, Side
  <2> QED
    BY <2>1, NothingIsFromTheBest
<1> QED
  BY <1>1, <1>2

------------------------------------------------------------------------------
(* The tape follows the book.                                              *)

(* Only what was taken of a side matters to what is left of it.            *)
LEMMA LeftOfSide ==
  ASSUME NEW s \in Side, NEW side \in SUBSET Level, NEW g, NEW g2, NEW levels,
         \A p \in Position : g2[<<s, p>>] = g[<<s, p>>], LeftOf(side, s, g, levels)
  PROVE  LeftOf(side, s, g2, levels)
<1>1. \A was \in side : g2[<<s, was.price>>] = g[<<s, was.price>>]
  BY DEF Level
<1>2. ASSUME NEW l \in levels
      PROVE  \E was \in side : /\ was.price = l.price /\ g2[<<s, was.price>>] < was.quantity
                               /\ l.quantity = was.quantity - g2[<<s, was.price>>]
  <2>1. PICK was \in side : /\ was.price = l.price /\ g[<<s, was.price>>] < was.quantity
                            /\ l.quantity = was.quantity - g[<<s, was.price>>]
    BY Zenon DEF LeftOf
  <2> QED
    BY <1>1, <2>1
<1>3. ASSUME NEW was \in side, g2[<<s, was.price>>] < was.quantity
      PROVE  \E l \in levels : /\ l.price = was.price
                               /\ l.quantity = was.quantity - g2[<<s, was.price>>]
  <2>1. g[<<s, was.price>>] < was.quantity
    BY <1>1, <1>3
  <2>2. PICK l \in levels : /\ l.price = was.price
                            /\ l.quantity = was.quantity - g[<<s, was.price>>]
    BY <2>1, Zenon DEF LeftOf
  <2> QED
    BY <1>1, <2>2
<1> QED
  BY <1>2, <1>3, Zenon DEF LeftOf

(* A book less what g was taken of it.                                     *)
Remains(b, g, now) == \A s \in Side : LeftOf(b[s], s, g, now[s])

(* The trades of one kind, the asks taken before the bids.                 *)
LEMMA TapeFollows ==
  ASSUME NEW b, SoundBook(b), NEW g \in Tally, NEW now, Remains(b, g, now),
         NEW x, \A s \in Side : FromTheBest(s, now[s], x[s])
  PROVE  /\ Tape(x) \in Seq(Printable)
         /\ \E g2 \in Tally : Follows(b, g, Tape(x), g2) /\ Remains(b, g2, After(now, x))
<1>0. "ask" \in Side /\ "bid" \in Side /\ "ask" # "bid"
  BY DEF Side
<1>1. \A s \in Side : b[s] \in SUBSET Level /\ LeftOf(b[s], s, g, now[s])
  BY SoundSide DEF Remains
<1>2. \A s \in Side : Printed(x, s) \in Seq(Printable)
  BY PrintedTells DEF FromTheBest
<1>3. PICK g1 \in Tally :
        /\ Follows(b, g, Printed(x, "ask"), g1)
        /\ LeftOf(b["ask"], "ask", g1, Rest(now["ask"], x["ask"]))
        /\ \A r \in Side, p \in Position : r # "ask" => g1[<<r, p>>] = g[<<r, p>>]
  <2>1. PICK s : s = "ask"
    OBVIOUS
  <2>2. s \in Side /\ b[s] \in SUBSET Level /\ LeftOf(b[s], s, g, now[s]) /\ FromTheBest(s, now[s], x[s])
    BY <1>0, <1>1, <2>1
  <2>3. \E g2 \in Tally :
          /\ Follows(b, g, Printed(x, s), g2)
          /\ LeftOf(b[s], s, g2, Rest(now[s], x[s]))
          /\ \A r \in Side, p \in Position : r # s => g2[<<r, p>>] = g[<<r, p>>]
    BY <2>2, SideFollows
  <2> QED
    BY <2>1, <2>3
<1>4. LeftOf(b["bid"], "bid", g1, now["bid"])
  <2>1. \A p \in Position : g1[<<"bid", p>>] = g[<<"bid", p>>]
    BY <1>0, <1>3
  <2> QED
    BY <1>0, <1>1, <2>1, LeftOfSide
<1>5. PICK g2 \in Tally :
        /\ Follows(b, g1, Printed(x, "bid"), g2)
        /\ LeftOf(b["bid"], "bid", g2, Rest(now["bid"], x["bid"]))
        /\ \A r \in Side, p \in Position : r # "bid" => g2[<<r, p>>] = g1[<<r, p>>]
  <2>1. PICK s : s = "bid"
    OBVIOUS
  <2>2. s \in Side /\ b[s] \in SUBSET Level /\ LeftOf(b[s], s, g1, now[s]) /\ FromTheBest(s, now[s], x[s])
    BY <1>0, <1>1, <1>4, <2>1
  <2>3. \E g3 \in Tally :
          /\ Follows(b, g1, Printed(x, s), g3)
          /\ LeftOf(b[s], s, g3, Rest(now[s], x[s]))
          /\ \A r \in Side, p \in Position : r # s => g3[<<r, p>>] = g1[<<r, p>>]
    BY <2>2, SideFollows
  <2> QED
    BY <2>1, <2>3
<1>6. LeftOf(b["ask"], "ask", g2, Rest(now["ask"], x["ask"]))
  <2>1. \A p \in Position : g2[<<"ask", p>>] = g1[<<"ask", p>>]
    BY <1>0, <1>5
  <2> QED
    BY <1>0, <1>1, <1>3, <2>1, LeftOfSide
<1>7. Follows(b, g, Tape(x), g2)
  BY <1>0, <1>2, <1>3, <1>5, FollowsJoin DEF Tape
<1>8. \A s \in Side : After(now, x)[s] = Rest(now[s], x[s])
  BY DEF After, Side
<1>9. Remains(b, g2, After(now, x))
  BY <1>5, <1>6, <1>8 DEF Remains, Side
<1>10. Tape(x) \in Seq(Printable)
  BY <1>0, <1>2, ConcatProperties DEF Tape
<1> QED
  BY <1>7, <1>9, <1>10

(* The three kinds of a tick, each on the book the ones before it left.    *)
LEMMA TradesFollow ==
  ASSUME SoundBook(book), NEW walked \in Floor..Ceiling,
         NEW cascade \in Cascade, NEW noise \in Noise
  PROVE  LET trades == Traded(walked, cascade, noise).trades
         IN  /\ trades \in Seq(Printable)
             /\ \E g : Follows(book, [place \in Side \X Position |-> 0], trades, g)
<1> DEFINE bid == BidTarget(walked)
           ask == AskTarget(walked)
           stale == Stale(book, bid, ask)
           found == After(book, stale)
           swept == IF cascade = NoTrade THEN Empty ELSE Swept(found, cascade.side, cascade.count)
           left == After(found, swept)
           stray == IF noise = NoTrade THEN Empty ELSE Stray(left, noise.side, noise.quantity)
           zero == [place \in Side \X Position |-> 0]
<1>1. bid \in Nat /\ ask \in Nat
  BY TargetsInBand
<1>2. Traded(walked, cascade, noise).trades = Tape(stale) \o Tape(swept) \o Tape(stray)
  BY Zenon DEF Traded
<1> HIDE DEF bid, ask
<1>3. SoundBook(found) /\ \A s \in Side : FromTheBest(s, book[s], stale[s])
  BY <1>1, StaleLeavesWithin, StaleFromTheBest
<1>4. zero \in Tally /\ Remains(book, zero, book)
  <2>1. \A s \in Side : \A l \in book[s] :
           l.price \in Position /\ l.quantity \in Nat \ {0}
    BY SoundSide
  <2>2. \A s \in Side, p \in Position : zero[<<s, p>>] = 0
    OBVIOUS
  <2>3. zero \in Tally
    BY DEF Tally
  <2> HIDE DEF zero
  <2>4. ASSUME NEW s \in Side, NEW l \in book[s]
        PROVE  zero[<<s, l.price>>] < l.quantity /\ l.quantity = l.quantity - zero[<<s, l.price>>]
    BY <2>1, <2>2
  <2>5. \A s \in Side : LeftOf(book[s], s, zero, book[s])
    BY <2>4, Zenon DEF LeftOf
  <2> QED
    BY <2>3, <2>5 DEF Remains
<1> HIDE DEF zero
<1>5. Tape(stale) \in Seq(Printable) /\ \E g2 \in Tally :
         Follows(book, zero, Tape(stale), g2) /\ Remains(book, g2, found)
  <2> HIDE DEF stale
  <2> QED
    BY <1>3, <1>4, TapeFollows
<1> HIDE DEF stale, found
<1>6. cascade = NoTrade \/ (cascade.side \in Side /\ cascade.count \in Int)
  BY DEF Cascade
<1>7. noise = NoTrade \/ (noise.side \in Side /\ noise.quantity \in Nat)
  BY SimulatorAssumption DEF Noise
<1>8. Empty.bid = {} /\ Empty.ask = {} /\ \A s \in Side : Empty[s] = {}
  BY DEF Empty, Side
<1>9. Takes(swept.bid) /\ Takes(swept.ask)
  BY <1>3, <1>6, <1>8, SweptIsTakes, PartsAreTakes
<1>10. \A s \in Side : FromTheBest(s, found[s], swept[s])
  BY <1>3, <1>6, <1>8, SweptFromTheBest, NothingIsFromTheBest
<1> HIDE DEF swept
<1>11. SoundBook(left)
  BY <1>3, <1>9, AfterKeeps
<1>12. PICK g1 \in Tally : Follows(book, zero, Tape(stale), g1) /\ Remains(book, g1, found)
  BY <1>5
<1>13. Tape(swept) \in Seq(Printable) /\ \E g2 \in Tally :
          Follows(book, g1, Tape(swept), g2) /\ Remains(book, g2, left)
  BY <1>10, <1>12, TapeFollows
<1> HIDE DEF left
<1>14. \A s \in Side : FromTheBest(s, left[s], stray[s])
  BY <1>7, <1>8, <1>11, StrayFromTheBest, NothingIsFromTheBest
<1> HIDE DEF stray
<1>15. PICK g2 \in Tally : Follows(book, g1, Tape(swept), g2) /\ Remains(book, g2, left)
  BY <1>13
<1>16. Tape(stray) \in Seq(Printable) /\ \E g3 \in Tally : Follows(book, g2, Tape(stray), g3)
  BY <1>14, <1>15, TapeFollows
<1>17. PICK g3 \in Tally : Follows(book, g2, Tape(stray), g3)
  BY <1>16
<1>18. Tape(stale) \o Tape(swept) \in Seq(Printable) /\ Follows(book, zero, Tape(stale) \o Tape(swept), g2)
  BY <1>5, <1>12, <1>13, <1>15, FollowsJoin, ConcatProperties
<1>19. /\ Tape(stale) \o Tape(swept) \o Tape(stray) \in Seq(Printable)
       /\ Follows(book, zero, Tape(stale) \o Tape(swept) \o Tape(stray), g3)
  BY <1>16, <1>17, <1>18, FollowsJoin, ConcatProperties
<1> QED
  BY <1>2, <1>19 DEF zero

(* TakenBy is the tally that TakesFrom determines.                         *)
LEMMA TakenByTakes ==
  ASSUME NEW trades, Len(trades) \in Nat
  PROVE  TakesFrom(TakenBy(trades), [place \in Side \X Position |-> 0], trades)
<1> DEFINE zero == [place \in Side \X Position |-> 0]
<1>1. \E h : TakesFrom(h, zero, trades)
  BY TakesFromExists
<1>2. TakenBy(trades) = CHOOSE h : TakesFrom(h, zero, trades)
  BY DEF TakenBy, TakesFrom
<1> HIDE DEF zero
<1>3. TakesFrom(TakenBy(trades), zero, trades)
  BY <1>1, <1>2, Zenon
<1> QED
  BY <1>3 DEF zero

(* No more of the state is needed than one level at a price, and a fair    *)
(* value to walk from.                                                     *)
LEMMA SoundBookExplains == TypeOK /\ SoundBook(book) => TapeFollowsBook
<1> SUFFICES ASSUME TypeOK, SoundBook(book),
                    NEW step \in -2 * Volatility..2 * Volatility,
                    NEW cascade \in Cascade, NEW noise \in Noise,
                    NEW trades, trades = Traded(Walked(step, 0), cascade, noise).trades,
                    NEW taken, taken = TakenBy(trades), NEW n \in 1..Len(trades)
             PROVE  AtBest(book, taken[n - 1], trades[n])
  BY Zenon DEF TapeFollowsBook
<1>1. Walked(step, 0) \in Floor..Ceiling
  <2>1. fairValue + step + 0 \in Int
    BY SimulatorAssumption DEF TypeOK
  <2> QED
    BY <2>1, ClampInBand DEF Walked
<1>2. PICK walked \in Floor..Ceiling : walked = Walked(step, 0)
  BY <1>1
<1>3. trades \in Seq(Printable) /\ \E g : Follows(book, [place \in Side \X Position |-> 0], trades, g)
  BY <1>2, TradesFollow
<1>4. Len(trades) \in Nat
  BY <1>3, LenProperties
<1>5. TakesFrom(taken, [place \in Side \X Position |-> 0], trades)
  BY <1>4, TakenByTakes
<1> QED
  BY <1>3, <1>5, Zenon DEF Follows

(* Whatever trades in a tick, stale quotes, a cascade and a stray trade    *)
(* after one another, replayed in the order of the tape on the book shown  *)
(* before the tick every trade is at the best price its side has left and  *)
(* no larger than what is left there.                                      *)
(* (#fill and #executeCascade, each on what the others left)               *)
THEOREM TapeExplainsBook == Spec => []TapeFollowsBook
<1>1. Spec => []SimulatorInv
  BY SimulatorAlways
<1>2. SimulatorInv => TapeFollowsBook
  BY SoundBookExplains DEF SimulatorInv, LadderIsWhole
<1> QED
  BY <1>1, <1>2, PTL
================================================================================
