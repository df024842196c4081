--------------------------------- MODULE Screen ---------------------------------
(***************************************************************************)
(* What the terminal of a page publishes to React, and when (apps/web,     *)
(* RafPublisher, the visibility controller and the wiring of both in       *)
(* TerminalRuntime): what has changed is shown with the next animation     *)
(* frame, and nothing is shown in a tab that is hidden.                    *)
(*                                                                         *)
(* A runtime is made, started, and ended by dispose(); another one on the  *)
(* same page has a publisher of its own.                                   *)
(***************************************************************************)
CONSTANT
    Source  \* the parts of the model that a snapshot is made of

VARIABLES
    mounted,  \* a runtime has been started and not disposed of
    hidden,   \* document.hidden
    unshown,  \* the parts that have changed since the snapshot on the screen
    pending,  \* #pendingHandle is set
    paused    \* #paused

screenVars == <<mounted, hidden, unshown, pending, paused>>

ScreenTypeOK ==
    /\ {mounted, hidden, pending, paused} \subseteq BOOLEAN
    /\ unshown \subseteq Source

------------------------------------------------------------------------------
\* markDirty: one frame at a time, and none while paused.
MarkDirty == pending' = (pending \/ ~paused)

\* setPaused takes back the frame that was asked for, and asks again later.
SetPausedKeepingStill(pause) ==
    /\ paused' = pause
    /\ pending' = (pending /\ ~pause)
SetPaused(pause) ==
    /\ paused' = pause
    /\ pending' = (~pause /\ (pending \/ paused))

\* start: connect() moves the state of the socket, which marks the publisher.
Mount ==
    /\ ~mounted /\ mounted' = TRUE
    /\ paused' = FALSE /\ pending' = TRUE /\ unshown' = Source
    /\ UNCHANGED hidden

\* dispose: the listeners go first, and the frame is taken back.
Dispose ==
    /\ mounted /\ mounted' = FALSE
    /\ paused' = FALSE /\ pending' = FALSE /\ unshown' = {}
    /\ UNCHANGED hidden

\* The page gives its container to one runtime, and takes it back.
MountChart == Mount \/ Dispose

\* A state of the socket, trades, a candle, a delta, a change of the book, a
\* selection and its history, or a second gone by.
Changes(part) ==
    /\ mounted
    /\ unshown' = unshown \cup {part}
    /\ MarkDirty
    /\ UNCHANGED <<mounted, hidden, paused>>

\* The visibility controller listens as long as the runtime lives.
VisibilityChanges ==
    /\ hidden' = ~hidden
    /\ IF mounted THEN SetPaused(hidden') ELSE UNCHANGED <<pending, paused>>
    /\ UNCHANGED <<mounted, unshown>>

\* The browser runs the callback, in a tab that is shown.
Frame ==
    /\ pending /\ ~hidden
    /\ pending' = FALSE /\ unshown' = {}
    /\ UNCHANGED <<mounted, hidden, paused>>

ScreenInit == mounted = FALSE /\ hidden = FALSE /\ unshown = {} /\ pending = FALSE /\ paused = FALSE

ScreenNext ==
    \/ MountChart
    \/ \E part \in Source : Changes(part)
    \/ VisibilityChanges
    \/ Frame

ScreenSpec == ScreenInit /\ [][ScreenNext]_screenVars

------------------------------------------------------------------------------
(* What the screen does not show yet is always on its way to it: a frame   *)
(* is asked for, or the tab is hidden and its return asks for one.  And a  *)
(* tab that is shown is never left paused.                                 *)
(* (raf-publisher.ts:31-49, with the visibility controller's events)       *)
NothingUnpublished ==
    mounted => /\ unshown # {} => pending \/ paused
               /\ paused => hidden /\ ~pending

==============================================================================
