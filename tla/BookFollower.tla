----------------------------- MODULE BookFollower -----------------------------
(***************************************************************************)
(* What a client is promised about the book of the symbol on screen        *)
(* (docs/07-invariants.md I1): whatever is shown as synchronised is a book *)
(* the server has published, and it never goes back to an older one.       *)
(***************************************************************************)
EXTENDS Naturals, Sequences

CONSTANTS
    Book,    \* contents a book can have
    NoBook   \* nothing is shown as synchronised

VARIABLES
    published,  \* every book of this run of the server, oldest first
    shown,      \* the book the client vouches for, or NoBook
    floor       \* position in `published` of the newest book shown so far

followerVars == <<published, shown, floor>>

Init ==
    /\ \E b \in Book : published = <<b>>
    /\ shown = NoBook
    /\ floor = 1

Publish ==
    /\ \E b \in Book : published' = Append(published, b)
    /\ UNCHANGED <<shown, floor>>

\* A restarted server counts from a new first book and drops every connection.
Restart ==
    /\ \E b \in Book : published' = <<b>>
    /\ shown' = NoBook
    /\ floor' = 1

Follow ==
    /\ \E n \in floor..Len(published) : shown' = published[n] /\ floor' = n
    /\ UNCHANGED published

Distrust ==
    /\ shown' = NoBook
    /\ UNCHANGED <<published, floor>>

Next == Publish \/ Restart \/ Follow \/ Distrust

Spec == Init /\ [][Next]_followerVars
==============================================================================
