-------------------------- MODULE MarketEngineProofs --------------------------
(***************************************************************************)
(* The delta chain of the server's book reproduces the book, for every set *)
(* of prices, every window and every bound.  The engine drives the book as *)
(* OrderBook says, never runs a tick ahead of the wall clock, and leaves the*)
(* book whole between two passes, for every length of a tick and of a pass *)
(* and every course of the clock.                                          *)
(***************************************************************************)
EXTENDS MarketEngine, TLAPS

\* A write through setLevel keeps the types, and keeps `touched` an
\* explanation of how the client's copy differs: the first write to a level
\* records the value the client still has, later ones leave the record alone.
LEMMA WriteKeepsRecord ==
    ASSUME TypeOK, TouchedExplainsDifference,
           NEW where \in [Side -> SUBSET Price],
           NEW value \in [Side -> [Price -> Quantity]],
           Write(where, value), UNCHANGED <<sequence, serving, mirror>>
    PROVE  TypeOK' /\ TouchedExplainsDifference'
<1>1. TypeOK'
  BY DEF TypeOK, Write
<1>2. TouchedExplainsDifference'
  <2> SUFFICES ASSUME serving, NEW s \in Side, NEW p \in Price
               PROVE  mirror[s][p] = IF touched'[s][p] = Untouched
                                     THEN levels'[s][p] ELSE touched'[s][p]
    BY DEF TouchedExplainsDifference
  <2>1. mirror[s][p] = IF touched[s][p] = Untouched THEN levels[s][p] ELSE touched[s][p]
    BY DEF TouchedExplainsDifference
  <2>2. /\ levels[s][p] \in Quantity
        /\ levels[s][p] # Untouched
    BY BoundAssumption DEF TypeOK, Quantity, Untouched
  <2>3. /\ touched'[s][p] = IF p \in where[s] /\ touched[s][p] = Untouched
                            THEN levels[s][p] ELSE touched[s][p]
        /\ levels'[s][p] = IF p \in where[s] THEN value[s][p] ELSE levels[s][p]
    BY DEF Write
  <2>4. QED
    BY <2>1, <2>2, <2>3
<1>3. QED
  BY <1>1, <1>2

\* What setLevel and trim pass to Write is of the right type.
LEMMA WriteArguments ==
    /\ \A s \in Side, p \in Price : Only(s, p) \in [Side -> SUBSET Price]
    /\ \A q \in Quantity : Everywhere(q) \in [Side -> [Price -> Quantity]]
    /\ Empty \in [Side -> [Price -> Quantity]]
    /\ [s \in Side |-> Beyond(s)] \in [Side -> SUBSET Price]
BY BoundAssumption DEF Only, Everywhere, Empty, Quantity, Beyond, Held

LEMMA SetLevelKeepsRecord ==
    ASSUME TypeOK, TouchedExplainsDifference,
           NEW s \in Side, NEW p \in Price, NEW q \in Quantity, SetLevel(s, p, q)
    PROVE  TypeOK' /\ TouchedExplainsDifference'
BY WriteKeepsRecord, WriteArguments DEF SetLevel

\* After a flush the client's copy is the book: a level that is no change
\* was either not written, or written back to what the client has.
LEMMA FlushMeetsBook ==
    ASSUME TypeOK, TouchedExplainsDifference, FlushDelta
    PROVE  /\ mirror' = levels
           /\ sequence' = sequence + (IF mirror' = mirror THEN 0 ELSE 1)
<1>1. \A s \in Side, p \in Price :
         p \notin Changes(s) => mirror[s][p] = levels[s][p]
  BY DEF TouchedExplainsDifference, Changes, FlushDelta
<1>2. \A s \in Side, p \in Price :
         p \in Changes(s) => mirror[s][p] # levels[s][p]
  BY DEF TouchedExplainsDifference, Changes, FlushDelta
<1>3. CASE NothingChanged
  <2>1. \A s \in Side : \A p \in Price : mirror[s][p] = levels[s][p]
    BY <1>1, <1>3 DEF NothingChanged
  <2>2. mirror = levels
    BY <2>1 DEF TypeOK
  <2>3. sequence \in Int
    BY BoundAssumption DEF TypeOK
  <2>4. QED
    BY <1>3, <2>2, <2>3 DEF FlushDelta
<1>4. CASE ~NothingChanged
  <2>1. mirror' = [s \in Side |-> [p \in Price |->
                     IF p \in Changes(s) THEN levels[s][p] ELSE mirror[s][p]]]
    BY <1>4 DEF FlushDelta, ApplyLevels
  <2>2. \A s \in Side : \A p \in Price : mirror'[s][p] = levels[s][p]
    BY <1>1, <2>1
  <2>3. mirror' = levels
    <3>1. mirror' \in [Side -> [Price -> Quantity]]
      BY <2>1 DEF TypeOK
    <3>2. \A s \in Side : mirror'[s] = levels[s]
      BY <3>1, <2>2 DEF TypeOK
    <3>3. QED
      BY <3>1, <3>2 DEF TypeOK
  <2>4. PICK s \in Side, p \in Price : p \in Changes(s)
    BY <1>4 DEF NothingChanged, Changes
  <2>5. mirror' # mirror
    BY <1>2, <2>3, <2>4
  <2>6. QED
    BY <1>4, <2>3, <2>5 DEF FlushDelta
<1>5. QED
  BY <1>3, <1>4

\* The invariant holds of a fresh book and every operation keeps it.
LEMMA Initial == Init => TypeOK /\ TouchedExplainsDifference
<1> SUFFICES ASSUME Init
             PROVE  TypeOK /\ TouchedExplainsDifference
  OBVIOUS
<1>1. TouchedExplainsDifference
  BY DEF Init, TouchedExplainsDifference
<1>2. Empty \in [Side -> [Price -> Quantity]]
  BY WriteArguments
<1>3. Clean \in [Side -> [Price -> Quantity \cup {Untouched}]]
  BY DEF Clean
<1>4. 0 \in 0..MaxSequence
  BY BoundAssumption
<1>5. QED
  BY <1>1, <1>2, <1>3, <1>4 DEF Init, TypeOK

LEMMA Step ==
    TypeOK /\ TouchedExplainsDifference /\ [Next]_vars
      => TypeOK' /\ TouchedExplainsDifference'
<1> SUFFICES ASSUME TypeOK, TouchedExplainsDifference, [Next]_vars
             PROVE  TypeOK' /\ TouchedExplainsDifference'
  OBVIOUS
<1>1. ASSUME NEW s \in Side, NEW p \in Price, NEW q \in Quantity, SetLevel(s, p, q)
      PROVE  TypeOK' /\ TouchedExplainsDifference'
  BY <1>1, SetLevelKeepsRecord
<1>2. ASSUME NEW s \in Side, NEW p \in Price,
             NEW d \in -MaxQuantity..MaxQuantity, AddQuantity(s, p, d)
      PROVE  TypeOK' /\ TouchedExplainsDifference'
  <2> DEFINE next == levels[s][p] + d
  <2>1. levels[s][p] \in Quantity
    BY DEF TypeOK
  <2>2. (IF next > 0 THEN next ELSE 0) \in Quantity
    BY <1>2, <2>1, BoundAssumption DEF AddQuantity, Quantity
  <2>3. SetLevel(s, p, IF next > 0 THEN next ELSE 0)
    BY <1>2 DEF AddQuantity
  <2>4. QED
    BY <2>2, <2>3, SetLevelKeepsRecord
<1>3. CASE Trim
  BY <1>3, WriteKeepsRecord, WriteArguments DEF Trim
<1>4. CASE FlushDelta
  <2>1. mirror' = levels'
    BY <1>4, FlushMeetsBook DEF FlushDelta
  <2>2. sequence' \in 0..MaxSequence
    BY <1>4, BoundAssumption DEF FlushDelta, TypeOK
  <2>3. touched' = Clean
    BY <1>4 DEF FlushDelta
  <2>4. TypeOK'
    BY <1>4, <2>1, <2>2, <2>3 DEF FlushDelta, TypeOK, Clean
  <2>5. QED
    BY <2>1, <2>3, <2>4 DEF TouchedExplainsDifference, Clean
<1>5. CASE ClearPendingChanges
  <2>1. /\ touched' = Clean
        /\ mirror' = levels'
        /\ UNCHANGED <<levels, sequence>>
        /\ serving' = TRUE
    BY <1>5 DEF ClearPendingChanges
  <2>2. TypeOK'
    BY <2>1 DEF TypeOK, Clean
  <2>3. QED
    BY <2>1, <2>2 DEF TouchedExplainsDifference, Clean
<1>6. CASE UNCHANGED vars
  BY <1>6 DEF vars, TypeOK, TouchedExplainsDifference
<1>7. QED
  BY <1>1, <1>2, <1>3, <1>4, <1>5, <1>6 DEF Next

\* The variables keep their types.
THEOREM TypeCorrect == Spec => []TypeOK
<1>1. QED
  BY Initial, Step, PTL DEF Spec

\* No write escapes the next delta (order-book.ts:83-90): where the client's
\* copy and the book differ, `touched` holds what the client has.
THEOREM NoChangeEscapes == Spec => []TouchedExplainsDifference
<1>1. QED
  BY Initial, Step, PTL DEF Spec

\* The chain of deltas reproduces the authoritative book (order-book.ts:12-15)
\* and spends a sequence number exactly when the book changed.
THEOREM ChainIsExact == Spec => ChainReproducesBook
<1>1. TypeOK /\ TouchedExplainsDifference
        => (FlushDelta => /\ mirror' = levels'
                          /\ sequence' = sequence + (IF mirror' = mirror THEN 0 ELSE 1))
  BY FlushMeetsBook DEF FlushDelta
<1>2. QED
  BY <1>1, Initial, Step, PTL DEF Spec, ChainReproducesBook

(* What BookSync takes for granted of the server it follows (its Tick and  *)
(* its Difference): a book being served changes by deltas alone, each has  *)
(* the next number and takes the book to a different one, and lists the    *)
(* levels on which the two differ, no other and none left out              *)
(* (order-book.ts:120-138 and 146-156).                                    *)
DeltasAreDifferences ==
    [][serving /\ (mirror' # mirror \/ sequence' # sequence)
         => /\ FlushDelta
            /\ mirror' # mirror /\ sequence' = sequence + 1
            /\ \A s \in Side, p \in Price :
                 p \in Changes(s) <=> mirror'[s][p] # mirror[s][p]]_vars

LEMMA OnlyDeltasPublish ==
    ASSUME Next, serving, mirror' # mirror \/ sequence' # sequence
    PROVE  FlushDelta
<1>1. ASSUME NEW s \in Side, NEW p \in Price, NEW q, SetLevel(s, p, q)
      PROVE  FALSE
  BY <1>1 DEF SetLevel
<1>2. ASSUME NEW s \in Side, NEW p \in Price, NEW d, AddQuantity(s, p, d)
      PROVE  FALSE
  BY <1>1, <1>2 DEF AddQuantity
<1>3. ~Trim /\ ~ClearPendingChanges
  BY DEF Trim, ClearPendingChanges
<1> QED
  BY <1>1, <1>2, <1>3 DEF Next

\* The deltas a client receives are the differences of successive books: the
\* server's side of BookSync is what OrderBook publishes (order-book.ts:12-15).
THEOREM BookPublishesDifferences == Spec => DeltasAreDifferences
<1>1. ASSUME TypeOK, TouchedExplainsDifference, Next,
             serving, mirror' # mirror \/ sequence' # sequence
      PROVE  /\ FlushDelta
             /\ mirror' # mirror /\ sequence' = sequence + 1
             /\ \A s \in Side, p \in Price :
                  p \in Changes(s) <=> mirror'[s][p] # mirror[s][p]
  <2>1. FlushDelta
    BY <1>1, OnlyDeltasPublish
  <2>2. mirror' = levels /\ sequence' = sequence + (IF mirror' = mirror THEN 0 ELSE 1)
    BY <1>1, <2>1, FlushMeetsBook
  <2>3. mirror' # mirror /\ sequence' = sequence + 1
    <3>1. sequence \in Int
      BY <1>1, BoundAssumption DEF TypeOK
    <3> QED
      BY <1>1, <2>2, <3>1
  <2>4. ASSUME NEW s \in Side, NEW p \in Price
        PROVE  p \in Changes(s) <=> mirror[s][p] # levels[s][p]
    BY <1>1 DEF TouchedExplainsDifference, Changes
  <2> QED
    BY <2>1, <2>2, <2>3, <2>4
<1>2. TypeOK /\ TouchedExplainsDifference /\ [Next]_vars
        => [serving /\ (mirror' # mirror \/ sequence' # sequence)
              => /\ FlushDelta
                 /\ mirror' # mirror /\ sequence' = sequence + 1
                 /\ \A s \in Side, p \in Price :
                      p \in Changes(s) <=> mirror'[s][p] # mirror[s][p]]_vars
  BY <1>1
<1> QED
  BY <1>2, Initial, Step, PTL DEF Spec, DeltasAreDifferences

------------------------------------------------------------------------------
(* The engine and its clock.                                               *)

\* Every step of the engine is a step of the book or leaves the book alone.
LEMMA EngineStepIsBookStep == [EngineNext]_engineVars => [Next]_vars
<1> SUFFICES ASSUME [EngineNext]_engineVars
             PROVE  [Next]_vars
  OBVIOUS
<1>1. CASE WriteBook
  BY <1>1 DEF WriteBook, Next
<1>2. CASE EndTick
  BY <1>2 DEF EndTick, Next
<1>3. CASE Seeded
  BY <1>3 DEF Seeded, Next
<1>4. CASE Pass \/ StepBack \/ Start \/ Stop \/ Pump
  BY <1>4 DEF Pass, StepBack, Start, Stop, Pump, vars
<1>5. CASE UNCHANGED engineVars
  BY <1>5 DEF engineVars
<1>6. QED
  BY <1>1, <1>2, <1>3, <1>4, <1>5 DEF EngineNext

\* The engine with its clock implements the abstract book: what is proved of
\* OrderBook's histories holds of those the timer and the clock produce
\* (market-engine.ts:34-43, symbol-engine.ts:55-57).
THEOREM EngineDrivesBook == EngineSpec => Spec
<1>1. EngineInit => Init
  BY DEF EngineInit
<1>2. QED
  BY <1>1, EngineStepIsBookStep, PTL DEF EngineSpec, Spec

\* What a pass may run never exceeds what is owed, and what is owed has been
\* shown by the wall clock in full.
LEMMA OwedIsDue ==
    ASSUME NEW now \in 0..MaxWall, tick \in Nat
    PROVE  /\ OwedTicks(now) \in Nat
           /\ OwedTicks(now) > 0 => TimeAt(tick + OwedTicks(now)) <= now
<1> DEFINE due == (now - StartTime) \div TickMs
<1>1. CASE now < StartTime \/ due < tick
  BY <1>1 DEF OwedTicks
<1>2. CASE ~(now < StartTime \/ due < tick)
  <2>1. now - StartTime \in Nat
    BY <1>2, ClockAssumption
  <2>2. due \in Nat /\ due * TickMs <= now - StartTime
    BY <2>1, ClockAssumption, Z3
  <2>3. OwedTicks(now) = due - tick
    BY <1>2 DEF OwedTicks
  <2>4. tick + OwedTicks(now) = due
    BY <2>2, <2>3
  <2>5. TimeAt(tick + OwedTicks(now)) <= now
    BY <2>2, <2>4, ClockAssumption DEF TimeAt
  <2>6. OwedTicks(now) \in Nat
    BY <1>2, <2>2, <2>3
  <2>7. QED
    BY <2>5, <2>6
<1>3. QED
  BY <1>1, <1>2

\* A part of the ticks that are owed is not ahead of time either.
LEMMA EarlierIsSooner ==
    ASSUME NEW m \in Nat, NEW n \in Nat, m <= n
    PROVE  TimeAt(m) <= TimeAt(n) /\ TimeAt(m) \in Nat
<1>1. m * TickMs <= n * TickMs
  BY ClockAssumption, Z3
<1>2. m * TickMs \in Nat /\ n * TickMs \in Nat
  BY ClockAssumption
<1>3. QED
  BY <1>1, <1>2, ClockAssumption DEF TimeAt

LEMMA PassIsBounded ==
    ASSUME NEW due \in Nat
    PROVE  PassLength(due) \in 0..MaxCatchUp /\ PassLength(due) <= due
BY CatchUpAssumption DEF PassLength

\* The wall clock's own invariant: it never shows more than it ever has, and
\* the ticks run and owed are behind what it has shown.
ClockInv ==
    /\ wall \in 0..MaxWall /\ highest \in 0..MaxWall /\ wall <= highest
    /\ tick \in Nat /\ owed \in 0..MaxCatchUp
    /\ running \in BOOLEAN /\ stepsBack \in 0..MaxStepsBack
    /\ NeverAhead

LEMMA ClockInit == EngineInit => ClockInv
<1> SUFFICES ASSUME EngineInit
             PROVE  ClockInv
  OBVIOUS
<1>1. StartTime \in 0..MaxWall
  BY ClockAssumption, RoomForDeltas
<1>2. 0 \in 0..MaxCatchUp /\ 0 \in 0..MaxStepsBack
  BY CatchUpAssumption
<1>3. NeverAhead
  <2>1. TimeAt(0) = StartTime
    BY ClockAssumption DEF TimeAt
  <2>2. tick + owed = 0 /\ highest = StartTime
    BY DEF EngineInit
  <2>3. QED
    BY <2>1, <2>2, ClockAssumption DEF NeverAhead
<1>4. /\ wall = StartTime /\ highest = StartTime /\ tick = 0 /\ owed = 0
      /\ running = FALSE /\ stepsBack = 0
  BY DEF EngineInit
<1>5. wall <= highest
  BY <1>4, ClockAssumption
<1>6. QED
  BY <1>1, <1>2, <1>3, <1>4, <1>5 DEF ClockInv

LEMMA ClockStep == ClockInv /\ [EngineNext]_engineVars => ClockInv'
<1> SUFFICES ASSUME ClockInv, [EngineNext]_engineVars
             PROVE  ClockInv'
  OBVIOUS
<1> USE DEF ClockInv, NeverAhead
<1>1. CASE Pass
  <2>1. TimeAt(tick + owed) \in Int
    BY EarlierIsSooner, CatchUpAssumption
  <2>2. /\ wall' \in 0..MaxWall
        /\ highest' \in 0..MaxWall
        /\ wall' <= highest' /\ highest <= highest'
    BY <1>1, ClockAssumption DEF Pass
  <2>3. UNCHANGED <<tick, owed, running, stepsBack>>
    BY <1>1 DEF Pass
  <2>4. TimeAt(tick + owed)' = TimeAt(tick + owed)
    BY <2>3 DEF TimeAt
  <2>5. TimeAt(tick + owed)' <= highest'
    BY <2>1, <2>2, <2>4
  <2>6. QED
    BY <2>2, <2>3, <2>5
<1>2. CASE StepBack
  <2>1. UNCHANGED <<highest, tick, owed, running>> /\ wall' \in 0..(wall - 1)
    BY <1>2 DEF StepBack
  <2>2. wall' \in 0..MaxWall /\ wall' <= highest'
    BY <2>1, ClockAssumption
  <2>3. stepsBack' \in 0..MaxStepsBack
    BY <1>2, CatchUpAssumption DEF StepBack
  <2>4. QED
    BY <2>1, <2>2, <2>3 DEF TimeAt
<1>3. CASE Start
  <2>1. OwedTicks(StartTime) = 0
    <3>1. (StartTime - StartTime) \div TickMs = 0
      BY ClockAssumption, Z3
    <3>2. QED
      BY <3>1 DEF OwedTicks
  <2>2. owed' = 0 /\ owed = 0 /\ UNCHANGED <<wall, highest, tick, stepsBack>>
    BY <1>3, <2>1 DEF Start
  <2>3. QED
    BY <1>3, <2>2 DEF Start, TimeAt
<1>4. CASE Stop
  BY <1>4 DEF Stop, TimeAt
<1>5. CASE Pump
  <2>1. /\ OwedTicks(wall) \in Nat
        /\ OwedTicks(wall) > 0 => TimeAt(tick + OwedTicks(wall)) <= wall
    BY OwedIsDue
  <2>2. /\ owed' = PassLength(OwedTicks(wall)) /\ owed = 0
        /\ UNCHANGED <<wall, highest, tick, running, stepsBack>>
    BY <1>5 DEF Pump
  <2>3. owed' \in 0..MaxCatchUp /\ owed' <= OwedTicks(wall)
    BY <2>1, <2>2, PassIsBounded
  <2>4. CASE OwedTicks(wall) = 0
    <3>1. owed' = 0
      BY <2>3, <2>4
    <3>2. QED
      BY <2>2, <2>3, <3>1 DEF TimeAt
  <2>5. CASE OwedTicks(wall) > 0
    <3>1. tick + owed' \in Nat /\ tick + OwedTicks(wall) \in Nat
      <4>1. tick \in Nat /\ owed' \in Nat /\ OwedTicks(wall) \in Nat
        BY <2>1, <2>3, CatchUpAssumption
      <4>2. \A m, n \in Nat : m + n \in Nat
        OBVIOUS
      <4>3. QED
        BY <4>1, <4>2, Zenon
    <3>2. /\ TimeAt(tick + owed') <= TimeAt(tick + OwedTicks(wall))
          /\ TimeAt(tick + owed') \in Nat /\ TimeAt(tick + OwedTicks(wall)) \in Nat
      BY <2>1, <2>3, <3>1, EarlierIsSooner
    <3>3. TimeAt(tick + owed') <= highest
      BY <2>1, <2>5, <3>2
    <3>4. TimeAt(tick' + owed') <= highest'
      BY <3>3, <2>2 DEF TimeAt
    <3>5. QED
      BY <2>2, <2>3, <3>4 DEF TimeAt
  <2>6. QED
    BY <2>1, <2>4, <2>5
<1>6. CASE WriteBook
  BY <1>6 DEF WriteBook, clock, TimeAt
<1>7. CASE EndTick
  <2>1. /\ tick' \in Nat /\ owed' \in 0..MaxCatchUp
        /\ tick' + owed' = tick + owed
        /\ UNCHANGED <<wall, highest, running, stepsBack>>
    BY <1>7, CatchUpAssumption DEF EndTick
  <2>2. TimeAt(tick' + owed') <= highest
    BY <2>1
  <2>3. TimeAt(tick + owed)' <= highest'
    BY <2>1, <2>2 DEF TimeAt
  <2>4. QED
    BY <2>1, <2>3
<1>8. CASE Seeded
  BY <1>8 DEF Seeded, clock, TimeAt
<1>9. CASE UNCHANGED engineVars
  BY <1>9 DEF engineVars, clock, TimeAt
<1>10. QED
  BY <1>1, <1>2, <1>3, <1>4, <1>5, <1>6, <1>7, <1>8, <1>9 DEF EngineNext

\* The variables of the book and of the clock keep their types.
THEOREM EngineTypeCorrect == EngineSpec => []EngineTypeOK
<1>1. ClockInv /\ TypeOK => EngineTypeOK
  BY DEF ClockInv, EngineTypeOK
<1>2. EngineSpec => []ClockInv
  BY ClockInit, ClockStep, PTL DEF EngineSpec
<1>3. QED
  BY <1>1, <1>2, EngineDrivesBook, TypeCorrect, PTL

\* No tick runs ahead of the wall clock (clock.ts:40-45), whatever the length
\* of a pass and however often the clock is set back.
THEOREM TicksAreDue == EngineSpec => []NeverAhead
<1>1. ClockInv => NeverAhead
  BY DEF ClockInv
<1>2. QED
  BY <1>1, ClockInit, ClockStep, PTL DEF EngineSpec

\* The deltas that the engine's ticks flush lose no write: what OrderBook
\* promises carries over along the refinement.
THEOREM EngineLosesNoChange == EngineSpec => []TouchedExplainsDifference
<1>1. QED
  BY EngineDrivesBook, NoChangeEscapes, PTL

\* Nor does the client of a running engine receive anything but differences
\* of successive books, one number each.
THEOREM EnginePublishesDifferences == EngineSpec => DeltasAreDifferences
<1>1. QED
  BY EngineDrivesBook, BookPublishesDifferences, PTL

\* Between two passes nothing is written that no delta has reported: the
\* bookkeeping is clean, so what `touched` explains is no difference at all.
Rested == (serving /\ owed = 0) => touched = Clean

LEMMA RestedStep ==
    Rested /\ ClockInv /\ TypeOK /\ [EngineNext]_engineVars => Rested'
<1> SUFFICES ASSUME Rested, ClockInv, TypeOK, [EngineNext]_engineVars
             PROVE  Rested'
  OBVIOUS
<1>1. CASE WriteBook
  <2>1. UNCHANGED <<serving, owed>>
    BY <1>1 DEF WriteBook, clock, SetLevel, AddQuantity, Trim
  <2>2. ~(serving /\ owed = 0)
    BY <1>1 DEF WriteBook, Writing
  <2>3. QED
    BY <2>1, <2>2 DEF Rested
<1>2. CASE EndTick
  BY <1>2 DEF EndTick, FlushDelta, Rested, Clean
<1>3. CASE Seeded
  BY <1>3 DEF Seeded, ClearPendingChanges, Rested, Clean
<1>4. CASE Pass \/ StepBack \/ Stop
  BY <1>4 DEF Pass, StepBack, Stop, vars, Rested, Clean
<1>5. CASE Start \/ Pump
  BY <1>5 DEF Start, Pump, vars, Rested, Clean
<1>6. CASE UNCHANGED engineVars
  BY <1>6 DEF engineVars, vars, clock, Rested, Clean
<1>7. QED
  BY <1>1, <1>2, <1>3, <1>4, <1>5, <1>6 DEF EngineNext

\* A snapshot served between two passes is what a client has that followed
\* the deltas (order-book.ts:12-15, market-repository.ts:25-28).
THEOREM ServedSnapshotsAreWhole == EngineSpec => []SnapshotsAreWhole
<1>1. EngineInit => Rested
  BY DEF EngineInit, Init, Rested
<1>2. Rested /\ TypeOK /\ TouchedExplainsDifference => SnapshotsAreWhole
  <2> SUFFICES ASSUME Rested, TypeOK, TouchedExplainsDifference, serving, owed = 0
               PROVE  mirror = levels
    BY DEF SnapshotsAreWhole
  <2>1. touched = Clean
    BY DEF Rested
  <2>2. \A s \in Side : \A p \in Price : mirror[s][p] = levels[s][p]
    BY <2>1 DEF TouchedExplainsDifference, Clean
  <2>3. \A s \in Side : mirror[s] = levels[s]
    BY <2>2 DEF TypeOK
  <2>4. QED
    BY <2>3 DEF TypeOK
<1>3. EngineSpec => []ClockInv
  BY ClockInit, ClockStep, PTL DEF EngineSpec
<1>4. EngineSpec => []TypeOK
  BY EngineDrivesBook, TypeCorrect, PTL
<1>5. EngineSpec => []Rested
  BY <1>1, <1>3, <1>4, RestedStep, PTL DEF EngineSpec
<1>6. QED
  BY <1>2, <1>4, <1>5, EngineLosesNoChange, PTL
==============================================================================
