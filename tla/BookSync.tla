------------------------------- MODULE BookSync -------------------------------
(***************************************************************************)
(* One symbol's order book between the server that publishes it and the    *)
(* client that follows it: OrderBookSynchronizer fed by two channels that  *)
(* nothing orders, the deltas of the WebSocket and the REST snapshot.      *)
(*                                                                         *)
(* The server's side is the chain OrderBook.tla proves exact.  A delta     *)
(* carries the levels it changes, so a delta applied to the wrong book     *)
(* leaves wrong contents and not only a wrong number.  Sessions end and    *)
(* the server restarts, with its sequence back at zero, at any moment.     *)
(***************************************************************************)
EXTENDS Integers, Sequences, FiniteSets

CONSTANTS
    Level,        \* price levels of the book
    Quantity,     \* what a level can hold; 0 is an absent level
    MaxSequence,  \* bound: deltas of one run of the server
    MaxRestarts,  \* bound: restarts of the server
    MaxUplink,    \* bound: frames on their way to the server
    MaxBuffered   \* MAX_BUFFERED_DELTAS

ASSUME QuantityAssumption == Quantity \subseteq Nat /\ 0 \in Quantity
ASSUME BoundAssumption ==
    /\ MaxSequence \in Nat /\ MaxRestarts \in Nat /\ MaxUplink \in Nat
    /\ MaxBuffered \in Nat \ {0}

Book == [Level -> Quantity]
NoLevels == [k \in Level |-> 0]
Same == -1            \* a level the delta does not list
NoSequence == -1      \* #sequence === null
Status == {"IDLE", "SYNCING", "SYNCHRONIZED", "RESYNCING"}

Delta == [previous : Nat, sequence : Nat, changes : [Level -> Quantity \cup {Same}]]
Snapshot == [sequence : Nat, book : Book]
Request == [state : {"none", "sent", "answered", "failed"}, answer : Snapshot]

VARIABLES
    \* the server
    published,  \* published[n + 1] is the book at sequence n of this run
    restarts,   \* runs before this one
    alive,      \* the server holds the client's session
    streaming,  \* that session is subscribed to the symbol
    \* the connection
    uplink,     \* subscribe and unsubscribe frames on their way
    feed,       \* deltas on their way
    joined,     \* the client has the hello and has not noticed a loss
    greeted,    \* the first hello was received (#helloReceived)
    \* the client
    selected,   \* this symbol is the one on screen
    desired,    \* the client wants the subscription
    status, sequence, buffer, book,  \* the synchroniser
    merging,    \* inside applySnapshot's loop over the buffer
    retry,      \* the snapshot left a hole: another one is to be requested
    loading,    \* the last request was #loadSelected's, along with a history
    request,    \* the request of the current generation
    late,       \* the answer to a request of an earlier generation, if it still comes
    floor       \* newest sequence vouched for in this run (history variable)

serverVars == <<published, restarts, alive, streaming>>
linkVars == <<uplink, joined, greeted>>
syncVars == <<status, sequence, buffer, book, merging, retry, loading, request, late>>
scopeVars == <<selected, desired>>
vars == <<serverVars, linkVars, feed, syncVars, scopeVars, floor>>

NoRequest == [state |-> "none", answer |-> [sequence |-> 0, book |-> NoLevels]]
FailedRequest == [NoRequest EXCEPT !.state = "failed"]

TypeOK ==
    /\ published \in Seq(Book) \ {<<>>}
    /\ restarts \in Nat /\ greeted \in BOOLEAN
    /\ alive \in BOOLEAN /\ streaming \in BOOLEAN /\ joined \in BOOLEAN
    /\ selected \in BOOLEAN /\ desired \in BOOLEAN
    /\ merging \in BOOLEAN /\ retry \in BOOLEAN /\ loading \in BOOLEAN
    /\ uplink \in Seq({"subscribe", "unsubscribe"})
    /\ feed \in Seq(Delta)
    /\ status \in Status
    /\ sequence \in Nat \cup {NoSequence}
    /\ buffer \subseteq Delta
    /\ book \in Book
    /\ request \in Request
    /\ late \subseteq Snapshot
    /\ floor \in Nat

------------------------------------------------------------------------------
(* The synchroniser.  These operators prime its variables.                 *)

Current == Len(published) - 1
HasBook == \E k \in Level : book[k] # 0
Syncing == status \in {"SYNCING", "RESYNCING"}

StatusToSync == IF HasBook THEN "RESYNCING" ELSE "SYNCING"

\* An answer on its way when its request is superseded becomes a late one;
\* one such answer is kept.
Superseded == IF request.state = "answered" THEN {request.answer} ELSE late

\* beginSync, and the request that follows it in the same call: buffering
\* starts before the snapshot is asked for.
BeginSync(load) ==
    /\ buffer' = {}
    /\ sequence' = NoSequence
    /\ status' = StatusToSync
    /\ merging' = FALSE
    /\ retry' = FALSE
    /\ loading' = load
    /\ request' = [NoRequest EXCEPT !.state = "sent"]
    /\ late' = Superseded
    /\ UNCHANGED book

\* Levels the delta lists are overwritten, the others left alone.
PatchedWithoutDeletes(d) ==
    [k \in Level |-> IF d.changes[k] \in {Same, 0} THEN book[k] ELSE d.changes[k]]
Patched(d) == [k \in Level |-> IF d.changes[k] = Same THEN book[k] ELSE d.changes[k]]
Apply(d) == book' = Patched(d) /\ sequence' = d.sequence

IsOldest(d, ds) == \A e \in ds : d.sequence <= e.sequence

\* At the cap the oldest buffered delta makes room for the new one.
Buffered(d) ==
    {e \in buffer : Cardinality(buffer) < MaxBuffered \/ ~IsOldest(e, buffer)} \cup {d}

\* OrderBookSynchronizer.applyDelta, and refreshBook when it finds a gap.
ApplyDelta(d) ==
    \/ /\ Syncing \/ sequence = NoSequence
       /\ buffer' = Buffered(d)
       /\ UNCHANGED <<status, sequence, book, merging, retry, loading, request, late>>
    \/ /\ ~Syncing /\ sequence # NoSequence
       /\ d.previous = sequence
       /\ Apply(d)
       /\ UNCHANGED <<status, buffer, merging, retry, loading, request, late>>
    \/ /\ ~Syncing /\ sequence # NoSequence
       /\ d.previous # sequence
       /\ d.sequence <= sequence
       /\ UNCHANGED syncVars
    \/ /\ ~Syncing /\ sequence # NoSequence
       /\ d.previous # sequence
       /\ d.sequence > sequence
       /\ BeginSync(FALSE)

\* applySnapshot up to its loop.
TakeSnapshot(s) ==
    /\ book' = s.book
    /\ sequence' = s.sequence
    /\ merging' = TRUE
    /\ UNCHANGED <<status, buffer, retry, loading>>

\* Honest recovery from a hole in the buffer is another snapshot.
BufferHasHoleUnnoticed ==
    /\ status' = "RESYNCING"
    /\ buffer' = {}
    /\ merging' = FALSE
    /\ retry' = FALSE
    /\ UNCHANGED <<book, sequence, loading>>
BufferHasHole ==
    /\ status' = "RESYNCING"
    /\ buffer' = {}
    /\ merging' = FALSE
    /\ retry' = TRUE
    /\ UNCHANGED <<book, sequence, loading>>

\* One round of the loop.  Deltas the snapshot contains are skipped; the
\* first one that does not continue the chain sends for another snapshot.
MergeNext ==
    LET rest == {d \in buffer : d.sequence > sequence}
    IN  /\ merging
        /\ \/ /\ rest = {}
              /\ status' = "SYNCHRONIZED"
              /\ buffer' = {}
              /\ merging' = FALSE
              /\ UNCHANGED <<book, sequence, retry, loading>>
           \/ \E d \in rest :
              /\ IsOldest(d, rest)
              /\ \/ /\ d.previous = sequence
                    /\ Apply(d)
                    /\ buffer' = rest \ {d}
                    /\ UNCHANGED <<status, merging, retry, loading>>
                 \/ /\ d.previous # sequence
                    /\ BufferHasHole
        /\ UNCHANGED <<serverVars, linkVars, feed, scopeVars, request, late>>

------------------------------------------------------------------------------
(* The server.                                                             *)

Difference(old, new) == [k \in Level |-> IF new[k] = old[k] THEN Same ELSE new[k]]

\* A tick that changes the book emits one delta, to subscribed sessions.
Tick(b) ==
    LET old == published[Len(published)]
    IN  /\ Current < MaxSequence
        /\ b # old
        /\ published' = Append(published, b)
        /\ feed' = IF streaming
                   THEN Append(feed, [previous |-> Current, sequence |-> Current + 1,
                                      changes |-> Difference(old, b)])
                   ELSE feed
        /\ UNCHANGED <<restarts, alive, streaming, linkVars, syncVars, scopeVars>>

\* The process restarts: sequences from zero, no sessions, and requests it
\* had not answered fail with the process.
Restart(b) ==
    /\ restarts < MaxRestarts
    /\ restarts' = restarts + 1
    /\ published' = <<b>>
    /\ alive' = FALSE
    /\ streaming' = FALSE
    /\ uplink' = <<>>
    /\ request' = IF request.state = "sent" THEN FailedRequest ELSE request
    /\ UNCHANGED <<feed, joined, greeted, status, sequence, buffer, book, merging,
                   retry, loading, late, scopeVars>>

\* Backpressure, the heartbeat or the network ends the session.
EndSession ==
    /\ alive
    /\ alive' = FALSE
    /\ streaming' = FALSE
    /\ uplink' = <<>>
    /\ UNCHANGED <<published, restarts, feed, joined, greeted, syncVars, scopeVars>>

\* applyFrame: subscribe starts the stream and unsubscribe ends it, unless
\* the rate limiter drops the frame.
HandleFrame ==
    /\ alive
    /\ uplink # <<>>
    /\ uplink' = Tail(uplink)
    /\ streaming' \in {Head(uplink) = "subscribe", streaming}
    /\ UNCHANGED <<published, restarts, alive, feed, joined, greeted, syncVars, scopeVars>>

\* GET /v1/markets/:symbol/book, answered between two ticks.
ServeSnapshot ==
    /\ request.state = "sent"
    /\ request' = [state |-> "answered",
                   answer |-> [sequence |-> Current, book |-> published[Len(published)]]]
    /\ UNCHANGED <<serverVars, linkVars, feed, status, sequence, buffer, book, merging,
                   retry, loading, late, scopeVars>>

------------------------------------------------------------------------------
(* The client.                                                             *)

\* A new session: the client re-sends what it wants and rebuilds the book
\* on screen (hello, then resync or the first selectMarket).
HelloWithoutResync ==
    /\ ~joined /\ ~alive
    /\ greeted' = TRUE
    /\ joined' = TRUE
    /\ alive' = TRUE
    /\ uplink' = IF desired THEN <<"subscribe">> ELSE <<>>
    /\ IF selected /\ ~greeted THEN BeginSync(TRUE) ELSE UNCHANGED syncVars
    /\ UNCHANGED <<published, restarts, streaming, feed, scopeVars>>
Hello ==
    /\ ~joined /\ ~alive
    /\ greeted' = TRUE
    /\ joined' = TRUE
    /\ alive' = TRUE
    /\ uplink' = IF desired THEN <<"subscribe">> ELSE <<>>
    /\ IF selected THEN BeginSync(TRUE) ELSE UNCHANGED syncVars
    /\ UNCHANGED <<published, restarts, streaming, feed, scopeVars>>

\* onclose: what was in flight is lost.
Closed ==
    /\ joined /\ ~alive
    /\ joined' = FALSE
    /\ feed' = <<>>
    /\ UNCHANGED <<serverVars, uplink, greeted, syncVars, scopeVars>>

\* onBookDelta ignores the deltas of a symbol that is not on screen.
Deliver ==
    /\ feed # <<>>
    /\ feed' = Tail(feed)
    /\ IF selected THEN ApplyDelta(Head(feed)) ELSE UNCHANGED syncVars
    /\ UNCHANGED <<serverVars, linkVars, scopeVars>>

Sent(frame) ==
    /\ Len(uplink) < MaxUplink
    /\ uplink' = IF alive /\ joined THEN Append(uplink, frame) ELSE uplink

\* selectMarket(this symbol), also while the connection is down.
Select ==
    /\ ~selected /\ greeted
    /\ selected' = TRUE
    /\ desired' = TRUE
    /\ Sent("subscribe")
    /\ BeginSync(TRUE)
    /\ UNCHANGED <<serverVars, joined, greeted, feed>>

\* selectMarket(another symbol): its snapshot request aborts this one's.
Deselect ==
    /\ selected
    /\ selected' = FALSE
    /\ retry' = FALSE
    /\ request' = NoRequest
    /\ late' = Superseded
    /\ UNCHANGED <<serverVars, linkVars, feed, status, sequence, buffer, book, merging,
                   loading, desired>>

\* The other symbol's history has landed: unsubscribe and drop this one.
Remove ==
    /\ ~selected /\ desired
    /\ desired' = FALSE
    /\ Sent("unsubscribe")
    /\ book' = NoLevels
    /\ buffer' = {}
    /\ sequence' = NoSequence
    /\ status' = "IDLE"
    /\ UNCHANGED <<serverVars, joined, greeted, feed, merging, retry, loading, request, late,
                   selected>>

\* refreshSelected, for a tab that was hidden too long.
Refresh ==
    /\ selected /\ greeted
    /\ BeginSync(TRUE)
    /\ UNCHANGED <<serverVars, linkVars, feed, selected, desired>>

\* refreshBook after a snapshot that left a hole.
Retry ==
    /\ retry
    /\ BeginSync(FALSE)
    /\ UNCHANGED <<serverVars, linkVars, feed, scopeVars>>

\* #loadSelected drops the retry when its history failed or was superseded.
GiveUp ==
    /\ retry /\ loading
    /\ retry' = FALSE
    /\ request' = FailedRequest
    /\ UNCHANGED <<serverVars, linkVars, feed, scopeVars, status, sequence, buffer, book,
                   merging, loading, late>>

SnapshotArrives ==
    /\ request.state = "answered"
    /\ TakeSnapshot(request.answer)
    /\ request' = NoRequest
    /\ UNCHANGED <<serverVars, linkVars, feed, scopeVars, late>>

\* An answer to a request of an earlier generation is dropped, not merged.
LateSnapshotMerged ==
    /\ \E s \in late : late' = late \ {s} /\ selected /\ TakeSnapshot(s)
    /\ UNCHANGED <<serverVars, linkVars, feed, scopeVars, request>>
LateSnapshotArrives ==
    /\ \E s \in late : late' = late \ {s}
    /\ UNCHANGED <<serverVars, linkVars, feed, scopeVars, status, sequence, buffer, book,
                   merging, retry, loading, request>>

\* The request fails; refreshBook's caller swallows the error.
SnapshotFails ==
    /\ request.state \in {"sent", "answered"}
    /\ request' = FailedRequest
    /\ UNCHANGED <<serverVars, linkVars, feed, scopeVars, status, sequence, buffer, book,
                   merging, retry, loading, late>>

------------------------------------------------------------------------------
Init ==
    /\ \E b \in Book : published = <<b>>
    /\ restarts = 0 /\ greeted = FALSE
    /\ alive = FALSE /\ streaming = FALSE /\ joined = FALSE
    /\ uplink = <<>> /\ feed = <<>>
    /\ selected = TRUE /\ desired = TRUE
    /\ status = "IDLE" /\ sequence = NoSequence /\ buffer = {} /\ book = NoLevels
    /\ merging = FALSE /\ retry = FALSE /\ loading = FALSE
    /\ request = NoRequest /\ late = {}
    /\ floor = 0

\* applySnapshot runs to its end before the client does anything else.
Step ==
    \/ MergeNext
    \/ /\ ~merging
       /\ \/ \E b \in Book : Tick(b)
          \/ \E b \in Book : Restart(b)
          \/ EndSession \/ HandleFrame \/ ServeSnapshot
          \/ Hello \/ Closed \/ Deliver
          \/ Select \/ Deselect \/ Remove \/ Refresh \/ Retry \/ GiveUp
          \/ SnapshotArrives \/ LateSnapshotArrives \/ SnapshotFails

\* The client is attached to the running server and vouches for its book.
Attached == joined /\ alive /\ selected
Trusted == Attached /\ status = "SYNCHRONIZED"

Next ==
    /\ Step
    /\ floor' = IF restarts' # restarts THEN 0
                ELSE IF Trusted' THEN sequence' ELSE floor

Spec == Init /\ [][Next]_vars

\* The event loop runs what is ready and the network answers.  Nothing makes
\* a request succeed: SnapshotFails may always come first.  A request is
\* superseded again and again only by a user who never stops switching, so
\* an answer that is due time after time does arrive (strong fairness).
Fairness ==
    /\ WF_vars(MergeNext /\ Next)
    /\ WF_vars(ServeSnapshot /\ Next)
    /\ SF_vars(SnapshotArrives /\ Next)
    /\ WF_vars(Retry /\ Next)
    /\ WF_vars(Deliver /\ Next)
    /\ WF_vars(HandleFrame /\ Next)

FairSpec == Spec /\ Fairness

------------------------------------------------------------------------------
\* I1 in terms of contents: whenever the client holds a sequence number for
\* the symbol on screen, in the middle of a merge or of a resync included,
\* its levels are exactly the server's levels at that number.
LocalBookExact ==
    Attached /\ sequence # NoSequence
        => /\ sequence \in 0..Current
           /\ book = published[sequence + 1]

\* d took the server from one of this run's books to the next.
Genuine(run, d) ==
    /\ d.sequence \in 1..Len(run) - 1
    /\ d.previous = d.sequence - 1
    /\ d.changes = Difference(run[d.sequence], run[d.sequence + 1])

\* Everything on its way to an attached client, or held by it, is about the
\* run of the server it is attached to: the deltas in flight, those buffered
\* across a resync, and the answer to the current request.  A restart or a
\* change of session leaves nothing of the run before it to be merged.
SessionConsistent ==
    /\ alive => joined /\ \A i \in 1..Len(feed) : Genuine(published, feed[i])
    /\ streaming => alive
    /\ ~joined => feed = <<>>
    /\ Attached => \A d \in buffer : Genuine(published, d)
    /\ Attached /\ request.state = "answered"
         => /\ request.answer.sequence \in 0..Current
            /\ request.answer.book = published[request.answer.sequence + 1]

\* The client implements BookFollower: what it vouches for was published by
\* the server it is attached to and never goes back in time, whatever order
\* snapshots, deltas, resyncs and restarts come in.
Follower == INSTANCE BookFollower WITH
    NoBook <- [k \in Level |-> Same],
    shown <- IF Trusted THEN book ELSE [k \in Level |-> Same],
    floor <- floor + 1
FollowsServer == Follower!Spec

\* Buffer overflow, holes, gaps, a late subscription and superseded requests
\* never leave the book on screen syncing for good: only a failed request, a
\* lost session or a change of selection keeps it from being synchronised.
Resyncs ==
    (Attached /\ Syncing /\ request.state # "failed")
        ~> (~Attached \/ status = "SYNCHRONIZED" \/ request.state = "failed")
==============================================================================
