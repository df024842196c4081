---------------------------- MODULE BookSyncProofs ----------------------------
(***************************************************************************)
(* I1 for every book, every bound and any number of restarts, sessions and *)
(* resyncs: what the client holds at a sequence number is the server's     *)
(* book at that number.                                                    *)
(***************************************************************************)
EXTENDS BookSync, TLAPS

\* A book counted as synchronised, or being merged, has a number.
Numbered == status = "SYNCHRONIZED" \/ merging => sequence # NoSequence

\* The inductive invariant.  I1 alone is not inductive: the next delta or
\* snapshot could be of another run, which SessionConsistent excludes.
Kept == TypeOK /\ SessionConsistent /\ LocalBookExact /\ Numbered

SyncTypes ==
    /\ status \in Status
    /\ sequence \in Nat \cup {NoSequence}
    /\ buffer \subseteq Delta
    /\ book \in Book
    /\ merging \in BOOLEAN /\ retry \in BOOLEAN /\ loading \in BOOLEAN
    /\ request \in Request
    /\ late \subseteq Snapshot

LinkTypes ==
    /\ published \in Seq(Book) \ {<<>>}
    /\ restarts \in Nat /\ greeted \in BOOLEAN
    /\ alive \in BOOLEAN /\ streaming \in BOOLEAN /\ joined \in BOOLEAN
    /\ selected \in BOOLEAN /\ desired \in BOOLEAN
    /\ uplink \in Seq({"subscribe", "unsubscribe"})
    /\ feed \in Seq(Delta)

LinkConsistent ==
    /\ alive => joined /\ \A i \in 1..Len(feed) : Genuine(published, feed[i])
    /\ streaming => alive
    /\ ~joined => feed = <<>>

AnswerGenuine ==
    request.state = "answered"
         => /\ request.answer.sequence \in 0..Current
            /\ request.answer.book = published[request.answer.sequence + 1]

SyncConsistent ==
    /\ Attached => (\A d \in buffer : Genuine(published, d)) /\ AnswerGenuine
    /\ LocalBookExact
    /\ Numbered

\* Kept in the parts that different actions disturb, without the floor.
Parts == LinkTypes /\ SyncTypes /\ LinkConsistent /\ SyncConsistent

------------------------------------------------------------------------------
(* Types.                                                                  *)

LEMMA NoRequestType ==
    /\ NoLevels \in Book
    /\ NoRequest \in Request /\ FailedRequest \in Request
    /\ [NoRequest EXCEPT !.state = "sent"] \in Request
<1>1. NoLevels \in Book
  BY QuantityAssumption DEF NoLevels, Book
<1>2. QED
  BY <1>1 DEF NoRequest, FailedRequest, Request, Snapshot

LEMMA SupersededType ==
    ASSUME TypeOK
    PROVE  Superseded \subseteq Snapshot
BY DEF TypeOK, Superseded, Request

LEMMA BeginSyncTypes ==
    ASSUME TypeOK, NEW load \in BOOLEAN, BeginSync(load)
    PROVE  SyncTypes'
BY NoRequestType, SupersededType DEF BeginSync, StatusToSync, SyncTypes, TypeOK, Status

LEMMA ApplyTypes ==
    ASSUME TypeOK, NEW d \in Delta, Apply(d)
    PROVE  book' \in Book /\ sequence' \in Nat
BY DEF Apply, Patched, Delta, Book, TypeOK

LEMMA ApplyDeltaTypes ==
    ASSUME TypeOK, NEW d \in Delta, ApplyDelta(d)
    PROVE  SyncTypes'
<1>1. CASE buffer' = Buffered(d) /\ UNCHANGED <<status, sequence, book, merging, retry, loading, request, late>>
  BY <1>1 DEF Buffered, TypeOK, SyncTypes
<1>2. CASE Apply(d) /\ UNCHANGED <<status, buffer, merging, retry, loading, request, late>>
  BY <1>2, ApplyTypes DEF TypeOK, SyncTypes
<1>3. CASE UNCHANGED syncVars
  BY <1>3 DEF syncVars, TypeOK, SyncTypes
<1>4. CASE BeginSync(FALSE)
  BY <1>4, BeginSyncTypes
<1>5. QED
  BY <1>1, <1>2, <1>3, <1>4 DEF ApplyDelta

LEMMA TickDelta ==
    ASSUME TypeOK, NEW b \in Book
    PROVE  [previous |-> Current, sequence |-> Current + 1,
            changes |-> Difference(published[Len(published)], b)] \in Delta
<1>1. Current \in Nat
  BY DEF TypeOK, Current
<1>2. Difference(published[Len(published)], b) \in [Level -> Quantity \cup {Same}]
  BY DEF Difference, Book
<1>3. QED
  BY <1>1, <1>2 DEF Delta
------------------------------------------------------------------------------
(* The synchroniser.                                                       *)

\* A resync starts from nothing, so nothing of another run is left in it.
LEMMA BeginSyncConsistent ==
    ASSUME NEW load, BeginSync(load)
    PROVE  SyncConsistent'
BY DEF BeginSync, SyncConsistent, LocalBookExact, AnswerGenuine, Numbered,
       StatusToSync, NoRequest

\* A genuine delta applied to the book before it gives the book after it.
LEMMA PatchGivesNext ==
    ASSUME TypeOK, NEW d \in Delta, Genuine(published, d),
           d.previous = sequence, book = published[sequence + 1]
    PROVE  Patched(d) = published[d.sequence + 1]
<1> DEFINE old == published[d.sequence]
           new == published[d.sequence + 1]
<1>1. /\ d.sequence \in 1..Len(published) - 1
      /\ d.sequence = sequence + 1
  BY DEF Genuine, Delta
<1>2. old \in Book /\ new \in Book
  BY <1>1 DEF TypeOK, Current
<1>3. book = old
  BY <1>1
<1>4. \A k \in Level : d.changes[k] = IF new[k] = old[k] THEN Same ELSE new[k]
  BY DEF Genuine, Difference
<1>5. \A k \in Level : new[k] # Same
  BY <1>2, QuantityAssumption DEF Book, Same
<1>6. \A k \in Level : Patched(d)[k] = new[k]
  BY <1>3, <1>4, <1>5 DEF Patched
<1>7. Patched(d) \in [Level -> Quantity] /\ DOMAIN Patched(d) = Level
  BY <1>2, <1>6 DEF Patched, Book
<1> HIDE DEF old, new
<1>8. Patched(d) = new
  BY <1>2, <1>6, <1>7 DEF Book
<1>9. QED
  BY <1>8 DEF new

\* Applying a genuine delta in sequence keeps the book exact.
LEMMA ApplyExact ==
    ASSUME TypeOK, NEW d \in Delta, Genuine(published, d), Apply(d),
           d.previous = sequence, book = published[sequence + 1],
           UNCHANGED published
    PROVE  /\ sequence' \in 0..Current'
           /\ book' = published'[sequence' + 1]
<1>1. book' = published[d.sequence + 1]
  BY PatchGivesNext DEF Apply
<1>2. QED
  BY <1>1 DEF Apply, Genuine, Current, TypeOK

LEMMA ApplyDeltaConsistent ==
    ASSUME Kept, NEW d \in Delta, ApplyDelta(d), Attached => Genuine(published, d),
           UNCHANGED <<serverVars, linkVars, scopeVars>>
    PROVE  SyncConsistent'
<1> USE DEF Kept
<1>1. Attached' = Attached /\ published' = published
  BY DEF Attached, serverVars, linkVars, scopeVars
<1>2. \A e : Genuine(published', e) <=> Genuine(published, e)
  BY <1>1 DEF Genuine, Current
<1>3. SyncConsistent
  BY DEF SyncConsistent, SessionConsistent, AnswerGenuine
<1>4. CASE /\ Syncing \/ sequence = NoSequence
           /\ buffer' = Buffered(d)
           /\ UNCHANGED <<status, sequence, book, merging, retry, loading, request, late>>
  <2>1. \A e \in buffer' : e \in buffer \/ e = d
    BY <1>4 DEF Buffered
  <2>2. QED
    BY <1>1, <1>2, <1>3, <1>4, <2>1
       DEF SyncConsistent, AnswerGenuine, Current, LocalBookExact, Numbered
<1>5. CASE /\ ~Syncing /\ sequence # NoSequence
           /\ d.previous = sequence
           /\ Apply(d)
           /\ UNCHANGED <<status, buffer, merging, retry, loading, request, late>>
  <2>1. Attached' => /\ sequence' \in 0..Current'
                     /\ book' = published'[sequence' + 1]
    BY <1>1, <1>5, ApplyExact DEF LocalBookExact
  <2>2. sequence' # NoSequence
    BY <1>5, ApplyTypes DEF NoSequence
  <2>3. QED
    BY <1>1, <1>2, <1>3, <1>5, <2>1, <2>2
       DEF SyncConsistent, AnswerGenuine, Current, LocalBookExact, Numbered
<1>6. CASE UNCHANGED syncVars
  BY <1>1, <1>2, <1>3, <1>6
     DEF syncVars, SyncConsistent, AnswerGenuine, Current, LocalBookExact, Numbered
<1>7. CASE BeginSync(FALSE)
  BY <1>7, BeginSyncConsistent
<1>8. QED
  BY <1>4, <1>5, <1>6, <1>7 DEF ApplyDelta

LEMMA MergeNextKeeps ==
    ASSUME Kept, MergeNext
    PROVE  Parts'
<1> USE DEF Kept
<1> DEFINE rest == {d \in buffer : d.sequence > sequence}
<1>1. /\ Attached' = Attached
      /\ UNCHANGED <<serverVars, linkVars, feed, scopeVars, request, late>>
  BY DEF MergeNext, Attached, serverVars, linkVars, scopeVars
<1>2. LinkTypes' /\ LinkConsistent'
  BY <1>1 DEF TypeOK, LinkTypes, SessionConsistent, LinkConsistent, Genuine, Current,
              serverVars, linkVars, scopeVars
<1>3. sequence \in Nat
  BY DEF MergeNext, Numbered, TypeOK
<1>4. \A e : Genuine(published', e) <=> Genuine(published, e)
  BY <1>1 DEF Genuine, Current, serverVars
<1>5. (Attached => AnswerGenuine) /\ (Attached' => AnswerGenuine')
  BY <1>1 DEF SessionConsistent, AnswerGenuine, Current, serverVars
<1>6. CASE /\ status' = "SYNCHRONIZED"
           /\ buffer' = {}
           /\ merging' = FALSE
           /\ UNCHANGED <<book, sequence, retry, loading>>
  <2>1. SyncTypes'
    BY <1>1, <1>6 DEF TypeOK, SyncTypes, Status
  <2>2. SyncConsistent'
    BY <1>1, <1>3, <1>5, <1>6
       DEF SyncConsistent, LocalBookExact, Numbered, NoSequence, Current, serverVars
  <2>3. QED
    BY <1>2, <2>1, <2>2 DEF Parts
<1>7. ASSUME NEW d \in rest, d.previous = sequence, Apply(d), buffer' = rest \ {d},
             UNCHANGED <<status, merging, retry, loading>>
      PROVE  Parts'
  <2>1. d \in Delta /\ (Attached => Genuine(published, d))
    BY DEF TypeOK, SessionConsistent
  <2>2. SyncTypes'
    BY <1>1, <1>7, <2>1, ApplyTypes DEF TypeOK, SyncTypes
  <2>3. Attached' => /\ sequence' \in 0..Current'
                     /\ book' = published'[sequence' + 1]
    BY <1>1, <1>3, <1>7, <2>1, ApplyExact DEF LocalBookExact, NoSequence, serverVars
  <2>4. sequence' # NoSequence
    BY <1>7, <2>1, ApplyTypes DEF NoSequence
  <2>5. Attached' => \A e \in buffer' : Genuine(published', e)
    BY <1>1, <1>4, <1>7 DEF SessionConsistent
  <2>6. SyncConsistent'
    BY <1>5, <2>3, <2>4, <2>5 DEF SyncConsistent, LocalBookExact, Numbered
  <2>7. QED
    BY <1>2, <2>2, <2>6 DEF Parts
<1>8. CASE /\ status' = "RESYNCING"
           /\ buffer' = {}
           /\ merging' = FALSE
           /\ retry' = TRUE
           /\ UNCHANGED <<book, sequence, loading>>
  <2>1. SyncTypes'
    BY <1>1, <1>8 DEF TypeOK, SyncTypes, Status
  <2>2. SyncConsistent'
    BY <1>1, <1>3, <1>5, <1>8
       DEF SyncConsistent, LocalBookExact, Numbered, NoSequence, Current, serverVars
  <2>3. QED
    BY <1>2, <2>1, <2>2 DEF Parts
<1>9. QED
  BY <1>6, <1>7, <1>8 DEF MergeNext, BufferHasHole

------------------------------------------------------------------------------
(* The server.                                                             *)

LEMMA TickKeeps ==
    ASSUME Kept, NEW b \in Book, Tick(b)
    PROVE  Parts'
<1> USE DEF Kept
<1> DEFINE old == published[Len(published)]
           delta == [previous |-> Current, sequence |-> Current + 1,
                     changes |-> Difference(old, b)]
<1>1. /\ published' = Append(published, b)
      /\ feed' = IF streaming THEN Append(feed, delta) ELSE feed
      /\ UNCHANGED <<restarts, alive, streaming, linkVars, syncVars, scopeVars>>
  BY DEF Tick
<1>2. Len(published) \in Nat \ {0} /\ published \in Seq(Book)
  BY DEF TypeOK
<1>3. /\ Len(published') = Len(published) + 1
      /\ \A n \in 1..Len(published) : published'[n] = published[n]
      /\ published'[Len(published) + 1] = b
      /\ published' \in Seq(Book) \ {<<>>}
  BY <1>1, <1>2
<1>4. Current \in Nat /\ Current' = Current + 1
  BY <1>2, <1>3 DEF Current
<1>5. \A e : Genuine(published, e) => Genuine(published', e)
  BY <1>2, <1>3, <1>4 DEF Genuine, Current
<1>6. delta \in Delta
  BY TickDelta
<1>7. Genuine(published', delta)
  <2>1. delta.sequence = Len(published) /\ delta.previous = Len(published) - 1
    BY <1>2 DEF Current
  <2>2. /\ published'[delta.sequence] = old
        /\ published'[delta.sequence + 1] = b
    BY <1>2, <1>3, <2>1
  <2>3. delta.changes = Difference(published'[delta.sequence], published'[delta.sequence + 1])
    BY <2>2
  <2>4. delta.sequence \in 1..Current'
    BY <1>2, <1>4, <2>1 DEF Current
  <2> HIDE DEF delta
  <2>5. QED
    BY <1>2, <2>1, <2>3, <2>4 DEF Genuine, Current
<1> HIDE DEF delta
<1>8. LinkTypes'
  BY <1>1, <1>3, <1>6 DEF TypeOK, LinkTypes, linkVars, scopeVars
<1>9. SyncTypes'
  BY <1>1 DEF TypeOK, SyncTypes, syncVars
<1>10. LinkConsistent'
  <2>1. streaming => alive
    BY DEF SessionConsistent
  <2>2. alive => \A i \in 1..Len(feed') : Genuine(published', feed'[i])
    <3>1. alive => \A i \in 1..Len(feed) : Genuine(published', feed[i])
      BY <1>5 DEF SessionConsistent
    <3>2. CASE streaming
      <4>1. /\ Len(feed') = Len(feed) + 1
            /\ \A i \in 1..Len(feed) : feed'[i] = feed[i]
            /\ feed'[Len(feed) + 1] = delta
        BY <1>1, <1>6, <3>2 DEF TypeOK
      <4>2. \A i \in 1..Len(feed') : i \in 1..Len(feed) \/ i = Len(feed) + 1
        <5>1. Len(feed) \in Nat
          BY DEF TypeOK
        <5> QED
          BY <4>1, <5>1
      <4>3. QED
        BY <1>7, <3>1, <4>1, <4>2
    <3>3. CASE ~streaming
      BY <1>1, <3>1, <3>3
    <3>4. QED
      BY <3>2, <3>3
  <2>3. alive => joined
    BY DEF SessionConsistent
  <2>4. ~joined => feed' = <<>>
    BY <1>1, <2>1, <2>3 DEF SessionConsistent
  <2>5. QED
    BY <1>1, <2>1, <2>2, <2>3, <2>4 DEF LinkConsistent, linkVars, Genuine, Current
<1>11. SyncConsistent'
  <2>1. Attached' = Attached
    BY <1>1 DEF Attached, linkVars, scopeVars
  <2>2. Attached' => \A e \in buffer' : Genuine(published', e)
    BY <1>1, <1>5, <2>1 DEF SessionConsistent, syncVars
  <2>3. Attached' => AnswerGenuine'
    BY <1>1, <1>2, <1>3, <1>4, <2>1 DEF SessionConsistent, AnswerGenuine, syncVars, Current
  <2>4. LocalBookExact'
    BY <1>1, <1>2, <1>3, <1>4, <2>1 DEF LocalBookExact, syncVars, Current
  <2>5. Numbered'
    BY <1>1 DEF Numbered, syncVars
  <2>6. QED
    BY <2>2, <2>3, <2>4, <2>5 DEF SyncConsistent
<1>12. QED
  BY <1>8, <1>9, <1>10, <1>11 DEF Parts

\* Without a session nothing is claimed of what the client holds.
LEMMA DetachedConsistent ==
    ASSUME ~Attached', Numbered'
    PROVE  SyncConsistent'
BY DEF SyncConsistent, LocalBookExact

LEMMA ServerKeeps ==
    ASSUME Kept, ~merging,
           \/ \E b \in Book : Restart(b)
           \/ EndSession \/ HandleFrame \/ ServeSnapshot
    PROVE  Parts'
<1> USE DEF Kept
<1>1. ASSUME NEW b \in Book, Restart(b)
      PROVE  Parts'
  <2>1. <<b>> \in Seq(Book) \ {<<>>} /\ <<>> \in Seq({"subscribe", "unsubscribe"})
    OBVIOUS
  <2>2. LinkTypes'
    <3>1. /\ published' \in Seq(Book) \ {<<>>}
          /\ uplink' \in Seq({"subscribe", "unsubscribe"})
      BY <1>1, <2>1 DEF Restart
    <3>2. /\ restarts' \in Nat
          /\ alive' \in BOOLEAN /\ streaming' \in BOOLEAN
      <4>1. restarts \in Nat
        BY DEF TypeOK
      <4>2. restarts' = restarts + 1
        BY <1>1 DEF Restart
      <4>3. alive' \in BOOLEAN /\ streaming' \in BOOLEAN
        BY <1>1 DEF Restart
      <4>4. QED
        BY <4>1, <4>2, <4>3
    <3>3. UNCHANGED <<feed, joined, greeted, selected, desired>>
      BY <1>1 DEF Restart, scopeVars
    <3>4. QED
      BY <3>1, <3>2, <3>3 DEF TypeOK, LinkTypes
  <2>3. SyncTypes'
    BY <1>1, NoRequestType DEF Restart, TypeOK, SyncTypes
  <2>4. LinkConsistent'
    BY <1>1 DEF Restart, SessionConsistent, LinkConsistent
  <2>5. SyncConsistent'
    BY <1>1, DetachedConsistent DEF Restart, Attached, Numbered
  <2>6. QED
    BY <2>2, <2>3, <2>4, <2>5 DEF Parts
<1>2. CASE EndSession
  <2>1. <<>> \in Seq({"subscribe", "unsubscribe"})
    OBVIOUS
  <2>2. LinkTypes' /\ SyncTypes'
    BY <1>2, <2>1 DEF EndSession, TypeOK, LinkTypes, SyncTypes, scopeVars, syncVars
  <2>3. LinkConsistent'
    BY <1>2 DEF EndSession, SessionConsistent, LinkConsistent
  <2>4. SyncConsistent'
    BY <1>2, DetachedConsistent DEF EndSession, Attached, Numbered, syncVars
  <2>5. QED
    BY <2>2, <2>3, <2>4 DEF Parts
<1>3. CASE HandleFrame
  <2>1. Tail(uplink) \in Seq({"subscribe", "unsubscribe"})
    BY <1>3 DEF HandleFrame, TypeOK
  <2>2. LinkTypes' /\ SyncTypes'
    BY <1>3, <2>1 DEF HandleFrame, TypeOK, LinkTypes, SyncTypes, scopeVars, syncVars
  <2>3. LinkConsistent'
    BY <1>3 DEF HandleFrame, SessionConsistent, LinkConsistent
  <2>4. SyncConsistent'
    BY <1>3 DEF HandleFrame, SessionConsistent, SyncConsistent, AnswerGenuine, LocalBookExact,
                Numbered, Attached, Current, syncVars, scopeVars
  <2>5. QED
    BY <2>2, <2>3, <2>4 DEF Parts
<1>4. CASE ServeSnapshot
  <2>1. /\ Current \in Nat
        /\ published[Len(published)] \in Book
        /\ Current + 1 = Len(published)
    BY DEF TypeOK, Current
  <2>2. request' \in Request
    BY <1>4, <2>1 DEF ServeSnapshot, Request, Snapshot
  <2>3. LinkTypes' /\ SyncTypes'
    BY <1>4, <2>2 DEF ServeSnapshot, TypeOK, LinkTypes, SyncTypes, serverVars, linkVars, scopeVars
  <2>4. LinkConsistent'
    BY <1>4 DEF ServeSnapshot, SessionConsistent, LinkConsistent, serverVars, linkVars
  <2>5. /\ request'.answer.sequence = Current
        /\ request'.answer.book = published[Len(published)]
        /\ published' = published
    BY <1>4 DEF ServeSnapshot, serverVars
  <2>6. AnswerGenuine'
    BY <2>1, <2>5 DEF AnswerGenuine, Current
  <2>7. SyncConsistent'
    BY <1>4, <2>6 DEF ServeSnapshot, SessionConsistent, SyncConsistent, LocalBookExact,
                Numbered, Attached, Current, serverVars, linkVars, scopeVars
  <2>8. QED
    BY <2>3, <2>4, <2>7 DEF Parts
<1>5. QED
  BY <1>1, <1>2, <1>3, <1>4

------------------------------------------------------------------------------
(* The client.                                                             *)

LEMMA SentType ==
    ASSUME TypeOK, NEW f \in {"subscribe", "unsubscribe"}, Sent(f)
    PROVE  uplink' \in Seq({"subscribe", "unsubscribe"})
BY DEF Sent, TypeOK

LEMMA ResyncKeeps ==
    ASSUME Kept, ~merging, Select \/ Refresh \/ Retry
    PROVE  Parts'
<1> USE DEF Kept
<1>1. BeginSync(TRUE) \/ BeginSync(FALSE)
  BY DEF Select, Refresh, Retry
<1>2. LinkTypes'
  <2>1. uplink' \in Seq({"subscribe", "unsubscribe"})
    BY SentType DEF Select, Refresh, Retry, linkVars, TypeOK
  <2>2. QED
    BY <2>1 DEF Select, Refresh, Retry, TypeOK, LinkTypes, serverVars, linkVars, scopeVars
<1>3. LinkConsistent'
  <2>1. UNCHANGED <<published, alive, streaming, joined, feed>>
    BY DEF Select, Refresh, Retry, serverVars, linkVars
  <2>2. QED
    BY <2>1 DEF SessionConsistent, LinkConsistent
<1>4. SyncTypes' /\ SyncConsistent'
  <2>1. CASE BeginSync(TRUE)
    BY <2>1, BeginSyncTypes, BeginSyncConsistent
  <2>2. CASE BeginSync(FALSE)
    BY <2>2, BeginSyncTypes, BeginSyncConsistent
  <2>3. QED
    BY <1>1, <2>1, <2>2
<1>5. QED
  BY <1>2, <1>3, <1>4 DEF Parts

LEMMA SessionKeeps ==
    ASSUME Kept, ~merging, Hello \/ Closed \/ Deliver
    PROVE  Parts'
<1> USE DEF Kept
<1>1. CASE Hello
  <2>1. uplink' \in Seq({"subscribe", "unsubscribe"})
    <3>1. /\ <<"subscribe">> \in Seq({"subscribe", "unsubscribe"})
          /\ <<>> \in Seq({"subscribe", "unsubscribe"})
      OBVIOUS
    <3>2. QED
      BY <1>1, <3>1 DEF Hello
  <2>2. LinkTypes'
    BY <1>1, <2>1 DEF Hello, TypeOK, LinkTypes, scopeVars
  <2>3. feed' = <<>>
    BY <1>1 DEF Hello, SessionConsistent
  <2>4. LinkConsistent'
    BY <1>1, <2>3 DEF Hello, LinkConsistent
  <2>5. CASE selected
    BY <1>1, <2>2, <2>4, <2>5, BeginSyncTypes, BeginSyncConsistent DEF Hello, Parts
  <2>6. CASE ~selected
    <3>1. UNCHANGED syncVars /\ ~Attached'
      BY <1>1, <2>6 DEF Hello, Attached, scopeVars
    <3>2. SyncTypes' /\ Numbered'
      BY <3>1 DEF TypeOK, SyncTypes, Numbered, syncVars
    <3>3. QED
      BY <2>2, <2>4, <3>1, <3>2, DetachedConsistent DEF Parts
  <2>7. QED
    BY <2>5, <2>6
<1>2. CASE Closed
  <2>1. LinkTypes' /\ SyncTypes'
    <3>1. feed' \in Seq(Delta)
      BY <1>2 DEF Closed
    <3>2. QED
      BY <1>2, <3>1 DEF Closed, TypeOK, LinkTypes, SyncTypes, serverVars, scopeVars, syncVars
  <2>2. LinkConsistent'
    BY <1>2 DEF Closed, SessionConsistent, LinkConsistent, serverVars
  <2>3. SyncConsistent'
    BY <1>2, DetachedConsistent DEF Closed, Attached, Numbered, syncVars, serverVars
  <2>4. QED
    BY <2>1, <2>2, <2>3 DEF Parts
<1>3. CASE Deliver
  <2>1. /\ feed # <<>>
        /\ feed' = Tail(feed)
        /\ IF selected THEN ApplyDelta(Head(feed)) ELSE UNCHANGED syncVars
        /\ UNCHANGED <<serverVars, linkVars, scopeVars>>
    BY <1>3 DEF Deliver
  <2>2. /\ Head(feed) \in Delta
        /\ feed' \in Seq(Delta)
        /\ \A i \in 1..Len(feed') : feed'[i] = feed[i + 1] /\ i + 1 \in 1..Len(feed)
        /\ Head(feed) = feed[1] /\ 1 \in 1..Len(feed)
    BY <2>1 DEF TypeOK
  <2>3. LinkTypes'
    BY <2>1, <2>2 DEF TypeOK, LinkTypes, serverVars, linkVars, scopeVars
  <2>4. alive => \A i \in 1..Len(feed') : Genuine(published, feed'[i])
    BY <2>2 DEF SessionConsistent
  <2>5. LinkConsistent'
    BY <2>1, <2>2, <2>4 DEF SessionConsistent, LinkConsistent, serverVars, linkVars
  <2>6. CASE selected
    <3>1. Attached => Genuine(published, Head(feed))
      BY <2>2 DEF SessionConsistent, Attached
    <3>2. SyncTypes' /\ SyncConsistent'
      BY <2>1, <2>2, <2>6, <3>1, ApplyDeltaTypes, ApplyDeltaConsistent
    <3>3. QED
      BY <2>3, <2>5, <3>2 DEF Parts
  <2>7. CASE ~selected
    <3>1. UNCHANGED syncVars /\ ~Attached'
      BY <2>1, <2>7 DEF Attached, scopeVars
    <3>2. SyncTypes' /\ Numbered'
      BY <3>1 DEF TypeOK, SyncTypes, Numbered, syncVars
    <3>3. QED
      BY <2>3, <2>5, <3>1, <3>2, DetachedConsistent DEF Parts
  <2>8. QED
    BY <2>6, <2>7
<1>4. QED
  BY <1>1, <1>2, <1>3

LEMMA DropKeeps ==
    ASSUME Kept, ~merging, Deselect \/ Remove
    PROVE  Parts'
<1> USE DEF Kept
<1>1. uplink' \in Seq({"subscribe", "unsubscribe"})
  <2>1. CASE Deselect
    BY <2>1 DEF Deselect, linkVars, TypeOK
  <2>2. CASE Remove
    BY <2>2, SentType DEF Remove
  <2>3. QED
    BY <2>1, <2>2
<1>2. LinkTypes'
  BY <1>1 DEF Deselect, Remove, TypeOK, LinkTypes, serverVars, linkVars
<1>3. LinkConsistent'
  BY DEF Deselect, Remove, SessionConsistent, LinkConsistent, serverVars, linkVars
<1>4. SyncTypes'
  BY NoRequestType, SupersededType DEF Deselect, Remove, TypeOK, SyncTypes, Superseded, Status
<1>5. ~Attached' /\ Numbered'
  BY DEF Deselect, Remove, Attached, Numbered
<1>6. QED
  BY <1>2, <1>3, <1>4, <1>5, DetachedConsistent DEF Parts

LEMMA AnswerKeeps ==
    ASSUME Kept, ~merging, SnapshotArrives \/ LateSnapshotArrives \/ SnapshotFails \/ GiveUp
    PROVE  Parts'
<1> USE DEF Kept
<1>1. LinkTypes'
  BY DEF SnapshotArrives, LateSnapshotArrives, SnapshotFails, GiveUp, TypeOK, LinkTypes,
         serverVars, linkVars, scopeVars
<1>2. LinkConsistent'
  BY DEF SnapshotArrives, LateSnapshotArrives, SnapshotFails, GiveUp, SessionConsistent,
         LinkConsistent, serverVars, linkVars
<1>3. Attached' = Attached /\ published' = published
  BY DEF SnapshotArrives, LateSnapshotArrives, SnapshotFails, GiveUp, Attached, serverVars, linkVars,
         scopeVars
<1>4. CASE SnapshotArrives
  <2>1. request.answer.sequence \in Nat /\ request.answer.book \in Book
    BY DEF TypeOK, Request, Snapshot
  <2>2. SyncTypes'
    BY <1>4, <2>1, NoRequestType DEF SnapshotArrives, TakeSnapshot, TypeOK, SyncTypes
  <2>3. Attached' => LocalBookExact' /\ \A d \in buffer' : Genuine(published', d)
    BY <1>3, <1>4 DEF SnapshotArrives, TakeSnapshot, SessionConsistent, LocalBookExact, Current
  <2>4. Numbered' /\ AnswerGenuine'
    BY <1>4, <2>1 DEF SnapshotArrives, TakeSnapshot, Numbered, NoSequence, AnswerGenuine, NoRequest
  <2>5. SyncConsistent'
    BY <2>3, <2>4 DEF SyncConsistent, LocalBookExact
  <2>6. QED
    BY <1>1, <1>2, <2>2, <2>5 DEF Parts
<1>5. CASE LateSnapshotArrives \/ SnapshotFails \/ GiveUp
  <2>1. /\ UNCHANGED <<status, sequence, buffer, book, merging, loading>>
        /\ retry' = retry \/ retry' = FALSE
        /\ request' = request \/ request' = FailedRequest
        /\ late' \subseteq late
    BY <1>5 DEF LateSnapshotArrives, SnapshotFails, GiveUp
  <2>2. SyncTypes'
    BY <2>1, NoRequestType DEF TypeOK, SyncTypes
  <2>3. AnswerGenuine => AnswerGenuine'
    BY <1>3, <2>1 DEF AnswerGenuine, FailedRequest, NoRequest, Current
  <2>4. SyncConsistent'
    BY <1>3, <2>1, <2>3
       DEF SessionConsistent, SyncConsistent, AnswerGenuine, LocalBookExact, Numbered, Current
  <2>5. QED
    BY <1>1, <1>2, <2>2, <2>4 DEF Parts
<1>6. QED
  BY <1>4, <1>5

------------------------------------------------------------------------------
(* The theorems.                                                           *)

LEMMA InitKept == Init => Kept
<1> SUFFICES ASSUME Init
             PROVE  Kept
  OBVIOUS
<1>1. TypeOK
  <2>1. published \in Seq(Book) \ {<<>>}
    BY DEF Init
  <2>2. uplink \in Seq({"subscribe", "unsubscribe"}) /\ feed \in Seq(Delta)
    BY DEF Init
  <2>3. QED
    BY <2>1, <2>2, NoRequestType DEF Init, TypeOK, Status
<1>2. SessionConsistent /\ LocalBookExact /\ Numbered
  BY DEF Init, SessionConsistent, LocalBookExact, Numbered, Attached
<1>3. QED
  BY <1>1, <1>2 DEF Kept

LEMMA StepKeeps ==
    ASSUME Kept, [Next]_vars
    PROVE  Kept'
<1>1. CASE Next
  <2>1. Parts'
    <3>1. CASE MergeNext
      BY <3>1, MergeNextKeeps
    <3>2. ASSUME ~merging, NEW b \in Book, Tick(b)
          PROVE  Parts'
      BY <3>2, TickKeeps
    <3>3. ASSUME ~merging,
                 (\E b \in Book : Restart(b)) \/ EndSession \/ HandleFrame \/ ServeSnapshot
          PROVE  Parts'
      BY <3>3, ServerKeeps
    <3>4. ASSUME ~merging, Hello \/ Closed \/ Deliver
          PROVE  Parts'
      BY <3>4, SessionKeeps
    <3>5. ASSUME ~merging, Select \/ Refresh \/ Retry
          PROVE  Parts'
      BY <3>5, ResyncKeeps
    <3>6. ASSUME ~merging, Deselect \/ Remove
          PROVE  Parts'
      BY <3>6, DropKeeps
    <3>7. ASSUME ~merging, SnapshotArrives \/ LateSnapshotArrives \/ SnapshotFails \/ GiveUp
          PROVE  Parts'
      BY <3>7, AnswerKeeps
    <3>8. QED
      BY <1>1, <3>1, <3>2, <3>3, <3>4, <3>5, <3>6, <3>7 DEF Next, Step
  <2>2. floor' \in Nat
    <3>1. Trusted' => sequence' \in Nat
      BY <2>1 DEF Parts, SyncTypes, SyncConsistent, Numbered, Trusted
    <3>2. QED
      BY <1>1, <3>1 DEF Next, Kept, TypeOK
  <2>3. QED
    BY <2>1, <2>2 DEF Kept, Parts, TypeOK, LinkTypes, SyncTypes, SessionConsistent,
                      LinkConsistent, SyncConsistent, AnswerGenuine
<1>2. CASE UNCHANGED vars
  <2>1. UNCHANGED <<published, restarts, alive, streaming, uplink, feed, joined, greeted,
                    selected, desired, status, sequence, buffer, book, merging, retry, loading,
                    request, late, floor>>
    BY <1>2 DEF vars, serverVars, linkVars, syncVars, scopeVars
  <2>2. TypeOK'
    BY <2>1 DEF Kept, TypeOK
  <2>3. SessionConsistent'
    BY <2>1 DEF Kept, SessionConsistent, Attached, Current
  <2>4. LocalBookExact' /\ Numbered'
    BY <2>1 DEF Kept, LocalBookExact, Numbered, Attached, Current
  <2>5. QED
    BY <2>2, <2>3, <2>4 DEF Kept
<1>3. QED
  BY <1>1, <1>2

LEMMA AlwaysKept == Spec => []Kept
<1>1. QED
  BY InitKept, StepKeeps, PTL DEF Spec

\* The variables keep their types.
THEOREM TypeCorrect == Spec => []TypeOK
<1>1. Kept => TypeOK
  BY DEF Kept
<1>2. QED
  BY <1>1, AlwaysKept, PTL

\* I1, order book continuity (docs/07-invariants.md): the levels on screen are
\* the server's levels at the sequence number the client holds.
THEOREM BookContinuity == Spec => []LocalBookExact
<1>1. Kept => LocalBookExact
  BY DEF Kept
<1>2. QED
  BY <1>1, AlwaysKept, PTL

\* Deltas in flight or buffered, and the answer to the current request, are of
\* the run of the server the client is attached to.
THEOREM NothingOfAnotherRun == Spec => []SessionConsistent
<1>1. Kept => SessionConsistent
  BY DEF Kept
<1>2. QED
  BY <1>1, AlwaysKept, PTL

------------------------------------------------------------------------------
(* The client implements BookFollower.                                     *)

\* What the client vouches for never goes back in a run.  An answer is read
\* after the floor it must reach, because a resync vouches for nothing until
\* its own answer is merged and no two requests of a generation are open.
FloorKept ==
    /\ floor <= Current
    /\ merging => request.state = "none"
    /\ request.state \in {"sent", "answered"} => status # "SYNCHRONIZED"
    /\ Trusted => floor = sequence
    /\ Attached /\ request.state = "answered" => floor <= request.answer.sequence
    /\ Attached /\ merging => floor <= sequence

\* What every step but a restart keeps of FloorKept, the floor aside.
Rises ==
    /\ merging' => request'.state = "none"
    /\ request'.state \in {"sent", "answered"} => status' # "SYNCHRONIZED"
    /\ Attached' /\ request'.state = "answered" => floor <= request'.answer.sequence
    /\ Attached' /\ merging' => floor <= sequence'
    /\ Trusted' => floor <= sequence'

\* A resync vouches for nothing, asks anew and merges nothing (beginSync).
LEMMA BeginSyncRises ==
    ASSUME NEW load, BeginSync(load)
    PROVE  Rises
BY DEF BeginSync, Rises, Trusted, StatusToSync, NoRequest

\* A delta raises the number, or sends for a new snapshot (applyDelta).
LEMMA ApplyDeltaRises ==
    ASSUME Kept, FloorKept, NEW d \in Delta, ApplyDelta(d), Attached => Genuine(published, d),
           UNCHANGED <<serverVars, linkVars, scopeVars>>, ~merging
    PROVE  Rises
<1>1. Attached' = Attached /\ Trusted' = (Attached /\ status' = "SYNCHRONIZED")
  BY DEF Attached, Trusted, serverVars, linkVars, scopeVars
<1>2. CASE /\ Syncing \/ sequence = NoSequence
           /\ UNCHANGED <<status, sequence, book, merging, retry, loading, request, late>>
  BY <1>1, <1>2 DEF FloorKept, Rises, Trusted, Kept, TypeOK
<1>3. CASE /\ d.previous = sequence /\ Apply(d)
           /\ UNCHANGED <<status, buffer, merging, retry, loading, request, late>>
  <2>1. Attached => sequence' = sequence + 1
    BY <1>3 DEF Apply, Genuine, Delta
  <2>2. Trusted' => Trusted /\ floor = sequence /\ sequence \in Nat
    BY <1>1, <1>3 DEF FloorKept, Trusted, Kept, Numbered, TypeOK
  <2> QED
    BY <1>1, <1>3, <2>1, <2>2 DEF FloorKept, Rises, Trusted
<1>4. CASE UNCHANGED syncVars
  BY <1>1, <1>4 DEF FloorKept, Rises, Trusted, syncVars, Kept, TypeOK
<1>5. CASE BeginSync(FALSE)
  BY <1>5, BeginSyncRises
<1> QED
  BY <1>2, <1>3, <1>4, <1>5 DEF ApplyDelta

\* A merge starts from an answer that reached the floor and only rises
\* (applySnapshot).
LEMMA MergeNextRises ==
    ASSUME Kept, FloorKept, MergeNext
    PROVE  Rises
<1>1. /\ Attached' = Attached /\ Trusted' = (Attached /\ status' = "SYNCHRONIZED")
      /\ merging /\ request' = request /\ request.state = "none" /\ sequence \in Nat
      /\ floor \in Nat
  BY DEF MergeNext, FloorKept, Attached, Trusted, serverVars, linkVars, scopeVars, Kept, Numbered,
         TypeOK
<1>2. sequence' = sequence \/ (sequence' \in Nat /\ sequence' > sequence)
  <2>1. ASSUME NEW d \in {e \in buffer : e.sequence > sequence}, Apply(d)
        PROVE  sequence' \in Nat /\ sequence' > sequence
    BY <2>1 DEF Apply, Kept, TypeOK, Delta
  <2> QED
    BY <2>1 DEF MergeNext, BufferHasHole
<1>3. Attached' => floor <= sequence'
  <2>1. Attached => floor <= sequence
    BY <1>1 DEF FloorKept
  <2> QED
    BY <1>1, <1>2, <2>1
<1>4. request'.state = "none"
  BY <1>1
<1> QED
  BY <1>1, <1>3, <1>4 DEF Rises

\* The session and the server: only a tick publishes, and an answer is read
\* from the newest book (GET /v1/markets/:symbol/book).
LEMMA ServerRises ==
    ASSUME Kept, FloorKept, ~merging,
           \/ \E b \in Book : Tick(b)
           \/ EndSession \/ HandleFrame \/ ServeSnapshot
    PROVE  Rises
<1>1. floor \in Nat /\ Current \in Nat /\ (sequence \in Nat \/ ~Trusted)
  BY DEF Kept, TypeOK, Current, Trusted, Numbered
<1>2. CASE \E b \in Book : Tick(b)
  BY <1>1, <1>2 DEF Tick, FloorKept, Rises, Trusted, Attached, linkVars, syncVars, scopeVars
<1>3. CASE EndSession
  BY <1>3 DEF EndSession, FloorKept, Rises, Trusted, Attached, syncVars
<1>4. CASE HandleFrame
  BY <1>1, <1>4 DEF HandleFrame, FloorKept, Rises, Trusted, Attached, syncVars, scopeVars
<1>5. CASE ServeSnapshot
  BY <1>1, <1>5 DEF ServeSnapshot, FloorKept, Rises, Trusted, Attached, serverVars, linkVars, scopeVars
<1> QED
  BY <1>2, <1>3, <1>4, <1>5

\* The client: what it attaches to, it synchronises with anew (hello,
\* selectMarket, refreshSelected, refreshBook).
LEMMA ClientRises ==
    ASSUME Kept, FloorKept, ~merging,
           \/ Hello \/ Closed \/ Deliver \/ Select \/ Deselect \/ Remove \/ Refresh \/ Retry
    PROVE  Rises
<1>1. CASE Hello
  <2>1. CASE selected
    BY <1>1, <2>1, BeginSyncRises DEF Hello
  <2>2. CASE ~selected
    <3>1. UNCHANGED syncVars /\ ~Attached'
      BY <1>1, <2>2 DEF Hello, Attached, scopeVars
    <3> QED
      BY <3>1 DEF FloorKept, Rises, Trusted, syncVars
  <2> QED
    BY <2>1, <2>2
<1>2. CASE Closed
  BY <1>2 DEF Closed, FloorKept, Rises, Trusted, Attached, serverVars, syncVars
<1>3. CASE Deliver
  <2>1. Head(feed) \in Delta /\ Head(feed) = feed[1] /\ 1 \in 1..Len(feed)
    BY <1>3 DEF Deliver, Kept, TypeOK
  <2>2. CASE selected
    <3>1. ApplyDelta(Head(feed)) /\ UNCHANGED <<serverVars, linkVars, scopeVars>>
      BY <1>3, <2>2 DEF Deliver
    <3>2. Attached => Genuine(published, Head(feed))
      BY <2>1 DEF Kept, SessionConsistent, Attached
    <3> QED
      BY <2>1, <3>1, <3>2, ApplyDeltaRises
  <2>3. CASE ~selected
    <3>1. UNCHANGED syncVars /\ ~Attached'
      BY <1>3, <2>3 DEF Deliver, Attached, scopeVars
    <3> QED
      BY <3>1 DEF FloorKept, Rises, Trusted, syncVars
  <2> QED
    BY <2>2, <2>3
<1>4. CASE Select \/ Refresh \/ Retry
  <2>1. BeginSync(TRUE) \/ BeginSync(FALSE)
    BY <1>4 DEF Select, Refresh, Retry
  <2> QED
    BY <2>1, BeginSyncRises
<1>5. CASE Deselect \/ Remove
  BY <1>5 DEF Deselect, Remove, FloorKept, Rises, Trusted, Attached, NoRequest
<1> QED
  BY <1>1, <1>2, <1>3, <1>4, <1>5

\* An answer that arrives reached the floor when it was read, and the floor
\* has stood still since; a late or a failed one is not merged.
LEMMA AnswerRises ==
    ASSUME Kept, FloorKept, ~merging, SnapshotArrives \/ LateSnapshotArrives \/ SnapshotFails \/ GiveUp
    PROVE  Rises
<1>1. Attached' = Attached /\ status' = status
  BY DEF SnapshotArrives, TakeSnapshot, LateSnapshotArrives, SnapshotFails, GiveUp, Attached,
         serverVars, linkVars, scopeVars
<1>2. CASE SnapshotArrives
  <2>1. /\ sequence' = request.answer.sequence /\ request' = NoRequest /\ merging'
        /\ request.state = "answered"
    BY <1>2 DEF SnapshotArrives, TakeSnapshot
  <2> QED
    BY <1>1, <2>1 DEF FloorKept, Rises, Trusted, NoRequest
<1>3. CASE LateSnapshotArrives \/ SnapshotFails \/ GiveUp
  <2>1. /\ UNCHANGED <<sequence, merging>>
        /\ request' = request \/ request' = FailedRequest
    BY <1>3 DEF LateSnapshotArrives, SnapshotFails, GiveUp
  <2>2. FailedRequest.state = "failed"
    BY DEF FailedRequest, NoRequest
  <2>3. Trusted' => Trusted /\ floor = sequence /\ floor \in Nat
    BY <1>1 DEF Trusted, FloorKept, Kept, TypeOK
  <2> QED
    BY <1>1, <2>1, <2>2, <2>3 DEF FloorKept, Rises
<1> QED
  BY <1>2, <1>3

\* Publishing adds one book.
LEMMA AppendLength ==
    ASSUME NEW s \in Seq(Book), NEW b \in Book
    PROVE  Len(Append(s, b)) = Len(s) + 1
OBVIOUS

\* Every step but a restart raises what is vouched for, and publishes at most.
LEMMA StepRises ==
    ASSUME Kept, FloorKept, Next, restarts' = restarts
    PROVE  /\ Rises
           /\ published' = published \/ \E b \in Book : Tick(b)
<1>1. ~ \E b \in Book : Restart(b)
  BY DEF Restart, Kept, TypeOK
<1>2. CASE MergeNext
  BY <1>2, MergeNextRises DEF MergeNext, serverVars
<1>3. CASE ~merging /\ ((\E b \in Book : Tick(b)) \/ EndSession \/ HandleFrame \/ ServeSnapshot)
  BY <1>3, ServerRises DEF EndSession, HandleFrame, ServeSnapshot, serverVars
<1>4. CASE ~merging /\ (Hello \/ Closed \/ Deliver \/ Select \/ Deselect \/ Remove \/ Refresh \/ Retry)
  BY <1>4, ClientRises DEF Hello, Closed, Deliver, Select, Deselect, Remove, Refresh, Retry, serverVars
<1>5. CASE ~merging /\ (SnapshotArrives \/ LateSnapshotArrives \/ SnapshotFails \/ GiveUp)
  BY <1>5, AnswerRises DEF SnapshotArrives, LateSnapshotArrives, SnapshotFails, GiveUp, serverVars
<1> QED
  BY <1>1, <1>2, <1>3, <1>4, <1>5 DEF Next, Step

\* A restarted server counts from zero and has nobody attached (Restart).
LEMMA RestartStartsOver ==
    ASSUME Kept, FloorKept, Next, restarts' # restarts
    PROVE  /\ \E b \in Book : published' = <<b>>
           /\ ~Attached' /\ floor' = 0
           /\ merging' = merging /\ ~merging /\ status' = status
           /\ request'.state \in {"sent", "answered"} => request' = request
<1>1. PICK b \in Book : Restart(b) /\ ~merging
  BY DEF Next, Step, MergeNext, Tick, EndSession, HandleFrame, ServeSnapshot, Hello, Closed, Deliver,
         Select, Deselect, Remove, Refresh, Retry, GiveUp, SnapshotArrives, LateSnapshotArrives,
         SnapshotFails, serverVars
<1> QED
  BY <1>1 DEF Next, Restart, Attached, FailedRequest, NoRequest

\* Every step keeps the floor under what is vouched for, merged or answered.
LEMMA FloorStays ==
    ASSUME Kept, FloorKept, Kept', [Next]_vars
    PROVE  FloorKept'
<1>1. CASE Next /\ restarts' = restarts
  <2>1. Rises /\ (published' = published \/ \E b \in Book : Tick(b))
    BY <1>1, StepRises
  <2>2. floor' = IF Trusted' THEN sequence' ELSE floor
    BY <1>1 DEF Next
  <2>3. floor \in Nat /\ Current \in Nat /\ Current' \in Nat /\ Current <= Current'
    <3>1. Len(published) \in Nat \ {0} /\ published \in Seq(Book)
      BY DEF Kept, TypeOK
    <3>2. Len(published') = Len(published) \/ Len(published') = Len(published) + 1
      <4>1. ASSUME NEW b \in Book, Tick(b) PROVE Len(published') = Len(published) + 1
        BY <3>1, <4>1, AppendLength DEF Tick
      <4> QED
        BY <2>1, <4>1
    <3> QED
      BY <3>1, <3>2 DEF Kept, TypeOK, Current
  <2>4. CASE Trusted'
    <3>1. sequence' \in 0..Current' /\ floor' = sequence'
      BY <2>2, <2>4 DEF Trusted, Kept, LocalBookExact, Numbered
    <3> QED
      BY <2>1, <2>4, <3>1 DEF FloorKept, Rises, Trusted
  <2>5. CASE ~Trusted'
    BY <2>1, <2>2, <2>3, <2>5 DEF FloorKept, Rises
  <2> QED
    BY <2>4, <2>5
<1>2. CASE Next /\ restarts' # restarts
  <2>1. /\ ~Attached' /\ floor' = 0
        /\ ~merging' /\ status' = status
        /\ request'.state \in {"sent", "answered"} => request' = request
    BY <1>2, RestartStartsOver
  <2>2. Current' \in Nat
    BY DEF Kept, TypeOK, Current
  <2> QED
    BY <2>1, <2>2 DEF FloorKept, Trusted
<1>3. CASE UNCHANGED vars
  BY <1>3 DEF vars, serverVars, linkVars, syncVars, scopeVars, FloorKept, Trusted, Attached, Current
<1> QED
  BY <1>1, <1>2, <1>3

\* A number within what was published is a position from the floor on.
LEMMA NextPosition ==
    ASSUME NEW m \in Nat, NEW len \in Nat, NEW low \in Nat, low <= m, m < len
    PROVE  m + 1 \in low + 1..len
OBVIOUS

\* The book vouched for, as BookFollower sees it.
Shown == IF Trusted THEN book ELSE [k \in Level |-> Same]

\* A step is one of BookFollower's, or nothing it sees.
LEMMA StepIsFollowers ==
    ASSUME Kept, FloorKept, Kept', [Next]_vars
    PROVE  Follower!Next \/ UNCHANGED <<published, Shown, floor>>
<1>1. CASE Next /\ restarts' = restarts
  <2>1. Rises /\ (published' = published \/ \E b \in Book : Tick(b))
    BY <1>1, StepRises
  <2>2. floor' = (IF Trusted' THEN sequence' ELSE floor) /\ floor \in Nat
    BY <1>1 DEF Next, Kept, TypeOK
  <2>3. CASE \E b \in Book : Tick(b)
    <3>1. PICK b \in Book : Tick(b)
      BY <2>3
    <3>2. /\ published' = Append(published, b)
          /\ Trusted' = Trusted /\ book' = book /\ sequence' = sequence
      BY <3>1 DEF Tick, Trusted, Attached, linkVars, syncVars, scopeVars
    <3>3. floor' = floor /\ Shown' = Shown
      BY <2>2, <3>2 DEF FloorKept, Shown
    <3> QED
      BY <3>2, <3>3 DEF Follower!Next, Follower!Publish, Shown
  <2>4. CASE published' = published /\ Trusted'
    <3>1. sequence' \in 0..Len(published) - 1 /\ book' = published[sequence' + 1]
      BY <2>4 DEF Kept, LocalBookExact, Trusted, Numbered, Current
    <3>2. floor' = sequence' /\ floor <= sequence'
      BY <2>1, <2>2, <2>4 DEF Rises
    <3>3. PICK n \in floor + 1..Len(published) : n = sequence' + 1
      <4>1. Len(published) \in Nat
        BY DEF Kept, TypeOK
      <4>2. PICK m \in Nat, len \in Nat, low \in Nat :
               /\ m = sequence' /\ len = Len(published) /\ low = floor
               /\ m < len /\ low <= m
        BY <2>2, <3>1, <3>2, <4>1
      <4>3. m + 1 \in low + 1..len
        BY <4>2, NextPosition
      <4> QED
        BY <4>2, <4>3
    <3>4. Shown' = published[n] /\ floor' + 1 = n
      BY <2>4, <3>1, <3>2, <3>3 DEF Shown
    <3> QED
      BY <2>4, <3>3, <3>4 DEF Follower!Next, Follower!Follow, Shown
  <2>5. CASE published' = published /\ ~Trusted'
    <3>1. floor' = floor /\ Shown' = [k \in Level |-> Same]
      BY <2>2, <2>5 DEF Shown
    <3> QED
      BY <2>5, <3>1 DEF Follower!Next, Follower!Distrust, Shown
  <2> QED
    BY <2>1, <2>3, <2>4, <2>5
<1>2. CASE Next /\ restarts' # restarts
  <2>1. (\E b \in Book : published' = <<b>>) /\ ~Attached' /\ floor' = 0
    BY <1>2, RestartStartsOver
  <2>2. Shown' = [k \in Level |-> Same] /\ floor' + 1 = 1
    BY <2>1 DEF Shown, Trusted
  <2> QED
    BY <2>1, <2>2 DEF Follower!Next, Follower!Restart, Shown
<1>3. CASE UNCHANGED vars
  BY <1>3 DEF vars, serverVars, linkVars, syncVars, scopeVars, Shown, Trusted, Attached
<1> QED
  BY <1>1, <1>2, <1>3

\* The client implements BookFollower: whatever is shown as synchronised was
\* published by the server it is attached to, and it never goes back, under
\* any order of deltas, answers, resyncs, sessions and restarts.
THEOREM ImplementsFollower == Spec => FollowsServer
<1>1. Init => Follower!Init /\ FloorKept
  <2> SUFFICES ASSUME Init PROVE Follower!Init /\ FloorKept
    OBVIOUS
  <2>1. ~Trusted /\ floor = 0 /\ ~Attached /\ Len(published) = 1
    BY DEF Init, Trusted, Attached
  <2> QED
    BY <2>1 DEF Init, Follower!Init, FloorKept, NoRequest, Current
<1>2. Kept /\ FloorKept /\ Kept' /\ [Next]_vars => FloorKept'
  BY FloorStays
<1>3. Kept /\ FloorKept /\ Kept' /\ [Next]_vars => [Follower!Next]_(Follower!followerVars)
  <2> SUFFICES ASSUME Kept, FloorKept, Kept', [Next]_vars
               PROVE  [Follower!Next]_(Follower!followerVars)
    OBVIOUS
  <2>1. Follower!Next \/ UNCHANGED <<published, Shown, floor>>
    BY StepIsFollowers
  <2>2. UNCHANGED <<published, Shown, floor>> => UNCHANGED Follower!followerVars
    BY DEF Follower!followerVars, Shown
  <2> QED
    BY <2>1, <2>2
<1> QED
  BY <1>1, <1>2, <1>3, AlwaysKept, PTL DEF Spec, FollowsServer, Follower!Spec
==============================================================================
