------------------------------ MODULE OrderBook ------------------------------
(***************************************************************************)
(* The canonical order book of one symbol (apps/api, class OrderBook) and  *)
(* the copy a client holds of it (apps/web, class LocalOrderBook).         *)
(*                                                                         *)
(* The server publishes its book as one snapshot and a chain of deltas.    *)
(* A delta is computed from `touched`, which remembers what each level     *)
(* held when the current tick first wrote it.  The hazard is that this     *)
(* bookkeeping loses a change, or reports one that did not happen: every   *)
(* client would then hold a wrong book with no sequence gap to notice.     *)
(*                                                                         *)
(* A Map from price to a positive quantity is a total function here; 0     *)
(* stands for an absent level, which is how both classes read one.         *)
(***************************************************************************)
EXTENDS Integers, FiniteSets

CONSTANTS
    Price,        \* prices a level can have
    MaxQuantity,  \* bound: largest quantity of a level
    Depth,        \* levels a side may show
    MaxSequence   \* bound: deltas emitted

ASSUME PriceAssumption == Price \subseteq Int
ASSUME DepthAssumption == Depth \in Nat \ {0}
ASSUME BoundAssumption == MaxQuantity \in Nat /\ MaxSequence \in Nat

VARIABLES
    levels,    \* #bids and #asks
    touched,   \* #touchedBids and #touchedAsks: values at the start of the tick
    sequence,  \* #sequence
    serving,   \* the opening book is seeded and its changes cleared
    mirror     \* the levels of a client that took the first snapshot and every delta

vars == <<levels, touched, sequence, serving, mirror>>

Side == {"bid", "ask"}
Quantity == 0..MaxQuantity
Untouched == -1
Clean == [s \in Side |-> [p \in Price |-> Untouched]]
Empty == [s \in Side |-> [p \in Price |-> 0]]

TypeOK ==
    /\ levels \in [Side -> [Price -> Quantity]]
    /\ touched \in [Side -> [Price -> Quantity \cup {Untouched}]]
    /\ sequence \in 0..MaxSequence
    /\ serving \in BOOLEAN
    /\ mirror \in [Side -> [Price -> Quantity]]

------------------------------------------------------------------------------
Held(s) == {p \in Price : levels[s][p] > 0}

\* Bids are best when high, asks when low.
Better(s, p, q) == IF s = "bid" THEN p > q ELSE p < q

\* The levels that prices(side).slice(depth) returns.
Beyond(s) == {p \in Held(s) : Cardinality({q \in Held(s) : Better(s, q, p)}) >= Depth}

\* Every write goes through setLevel: the first one of a tick to a level
\* records what it held.  `where` says which levels, `value` what they get.
WriteRecordingLast(where, value) ==
    /\ touched' = [s \in Side |-> [p \in Price |->
                     IF p \in where[s] THEN levels[s][p] ELSE touched[s][p]]]
    /\ levels' = [s \in Side |-> [p \in Price |->
                     IF p \in where[s] THEN value[s][p] ELSE levels[s][p]]]
Write(where, value) ==
    /\ touched' = [s \in Side |-> [p \in Price |->
                     IF p \in where[s] /\ touched[s][p] = Untouched
                     THEN levels[s][p] ELSE touched[s][p]]]
    /\ levels' = [s \in Side |-> [p \in Price |->
                     IF p \in where[s] THEN value[s][p] ELSE levels[s][p]]]

Only(side, price) == [s \in Side |-> IF s = side THEN {price} ELSE {}]
Everywhere(q) == [s \in Side |-> [p \in Price |-> q]]

SetLevel(side, price, quantity) ==
    /\ Write(Only(side, price), Everywhere(quantity))
    /\ UNCHANGED <<sequence, serving, mirror>>

\* The quantity is clamped at zero from below; MaxQuantity bounds the model.
AddQuantity(side, price, delta) ==
    LET next == levels[side][price] + delta
    IN  /\ next <= MaxQuantity
        /\ SetLevel(side, price, IF next > 0 THEN next ELSE 0)

Trim ==
    /\ Write([s \in Side |-> Beyond(s)], Empty)
    /\ UNCHANGED <<sequence, serving, mirror>>

\* A level touched and put back exactly as it was is not a change.
ChangesTouched(s) == {p \in Price : touched[s][p] # Untouched}
Changes(s) == {p \in Price : touched[s][p] # Untouched /\ touched[s][p] # levels[s][p]}
NothingChanged == \A s \in Side : Changes(s) = {}

\* A client overwrites the levels a delta lists and leaves the others.
ApplyLevels(book, where) ==
    [s \in Side |-> [p \in Price |-> IF p \in where[s] THEN levels[s][p] ELSE book[s][p]]]

\* One sequence number per delta, and none for a tick that changed nothing.
FlushDelta ==
    /\ serving
    /\ touched' = Clean
    /\ IF NothingChanged
       THEN UNCHANGED <<sequence, mirror>>
       ELSE /\ sequence < MaxSequence
            /\ sequence' = sequence + 1
            /\ mirror' = ApplyLevels(mirror, [s \in Side |-> Changes(s)])
    /\ UNCHANGED <<levels, serving>>

\* Ends the seeding of the opening book; only then can a snapshot be read.
ClearPendingChanges ==
    /\ ~serving
    /\ touched' = Clean
    /\ serving' = TRUE
    /\ mirror' = levels
    /\ UNCHANGED <<levels, sequence>>

------------------------------------------------------------------------------
Init ==
    /\ levels = Empty
    /\ touched = Clean
    /\ sequence = 0
    /\ serving = FALSE
    /\ mirror = Empty

Next ==
    \/ \E s \in Side, p \in Price, q \in Quantity : SetLevel(s, p, q)
    \/ \E s \in Side, p \in Price, d \in -MaxQuantity..MaxQuantity : AddQuantity(s, p, d)
    \/ Trim
    \/ FlushDelta
    \/ ClearPendingChanges

Spec == Init /\ [][Next]_vars

------------------------------------------------------------------------------
\* What a client has differs from the server's book only where the current
\* tick has written, and there `touched` still knows the value the client
\* has: no write of any kind, trim included, escapes the next delta.
TouchedExplainsDifference ==
    serving => \A s \in Side, p \in Price :
        mirror[s][p] = IF touched[s][p] = Untouched THEN levels[s][p] ELSE touched[s][p]

\* Once flushed, the chain of deltas reproduces the authoritative book
\* (order-book.ts:12-15), and a tick that left every level as it was before
\* it burns no sequence number (order-book.ts:115-119).
ChainReproducesBook ==
    [][FlushDelta => /\ mirror' = levels'
                     /\ sequence' = sequence + (IF mirror' = mirror THEN 0 ELSE 1)]_vars

==============================================================================
