---------------------------- MODULE WatchlistOrder ----------------------------
(***************************************************************************)
(* The order of the watchlist (apps/web, watchlist/order.ts and the        *)
(* Watchlist component): what the browser has stored, the symbols that the *)
(* server lists, and the list a page makes of both.                        *)
(*                                                                         *)
(* Anything may be in the storage: another tab's order, one saved when     *)
(* other symbols were listed, repetitions, or what cannot be read at all.  *)
(***************************************************************************)
EXTENDS Integers, SequencesExt

CONSTANTS
    Registered,  \* every symbol there may be, in the order of the registry
    Unknown,     \* a symbol or a value that is none of them
    MaxStored    \* bound: the length of what is stored

ASSUME WatchlistAssumption ==
    /\ Registered \in Seq(ToSet(Registered)) /\ IsInjective(Registered)
    /\ Unknown \notin ToSet(Registered) /\ MaxStored \in Nat

VARIABLES
    stored,    \* the sequence in the storage; <<>> also when there is none
    registry,  \* the symbols listed, as the page has them
    order,     \* the list of the page
    chosen     \* history: the order the user last saw or left

watchVars == <<stored, registry, order, chosen>>

------------------------------------------------------------------------------
\* A loop of reconcileWatchlistOrder: of the candidates, in their order, those
\* that are known and not in the list yet.
Added(list, candidates, known) ==
    LET added[n \in 0..Len(candidates)] ==
          IF n = 0 THEN list
          ELSE IF candidates[n] \in known \ ToSet(added[n - 1])
               THEN Append(added[n - 1], candidates[n])
               ELSE added[n - 1]
    IN  added[Len(candidates)]

\* The known symbols as they are stored, each once; then those that are new.
ReconciledRepeating(storedOrder, symbols) ==
    LET known == SelectSeq(storedOrder, LAMBDA x : x \in ToSet(symbols))
    IN  Added(known, symbols, ToSet(symbols))
Reconciled(storedOrder, symbols) ==
    LET known == ToSet(symbols)
    IN  Added(Added(<<>>, storedOrder, known), symbols, known)

\* moveWatchlistItem; an index out of range, or the same one, moves nothing.
Moved(list, from, to) ==
    IF {from, to} \subseteq 1..Len(list)
    THEN InsertAt(RemoveAt(list, from), to, list[from])
    ELSE list

------------------------------------------------------------------------------
\* A page is loaded with the symbols the server lists, and reads the storage.
Load(symbols) ==
    /\ registry' = symbols
    /\ order' = Reconciled(stored, symbols)
    /\ chosen' = stored
    /\ UNCHANGED stored

\* A drop or an arrow key; the storage may refuse the write.
Move(from, to, written) ==
    /\ order' = Moved(order, from, to)
    /\ stored' = IF written THEN order' ELSE stored
    /\ chosen' = Moved(order, from, to)
    /\ UNCHANGED registry

\* Another tab, another version, the user.
StorageChanges(sequence) ==
    /\ stored' = sequence
    /\ UNCHANGED <<registry, order, chosen>>

Value == ToSet(Registered) \cup {Unknown}
Listed == {Added(<<>>, Registered, S) : S \in SUBSET ToSet(Registered)}
Storable == UNION {[1..n -> Value] : n \in 0..MaxStored}

WatchInit == stored = <<>> /\ registry = <<>> /\ order = <<>> /\ chosen = <<>>

WatchNext ==
    \/ \E symbols \in Listed : Load(symbols)
    \/ \E from, to \in 0..Len(order), written \in BOOLEAN : Move(from, to, written)
    \/ \E sequence \in Storable : StorageChanges(sequence)

WatchSpec == WatchInit /\ [][WatchNext]_watchVars

------------------------------------------------------------------------------
First(s, i) == \A j \in 1..i - 1 : s[j] # s[i]
Before(s, x, y) ==
    \E i, j \in 1..Len(s) : i < j /\ s[i] = x /\ s[j] = y /\ First(s, i) /\ First(s, j)

(* The page lists every symbol of the registry once and no other, in the   *)
(* order the user last chose, what the user never placed coming after it   *)
(* in the order of the registry -- whatever was in the storage.            *)
(* (order.ts:6-9, "the server registry as authoritative")                  *)
ListIsTheRegistryAsChosen ==
    LET placed == ToSet(chosen)
    IN  /\ IsInjective(order) /\ ToSet(order) = ToSet(registry)
        /\ \A x, y \in ToSet(registry) : x # y =>
             (Before(order, x, y) <=>
                \/ x \in placed /\ (y \in placed => Before(chosen, x, y))
                \/ x \notin placed /\ y \notin placed /\ Before(registry, x, y))

==============================================================================
