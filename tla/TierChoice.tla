------------------------------- MODULE TierChoice -------------------------------
(***************************************************************************)
(* The tier a user chooses in the debug drawer, from the button to the     *)
(* session that is served at it and back to the drawer: SocketDesiredState *)
(* and the connection store (apps/web), the session and its announcements  *)
(* (apps/api), the frames under way between them, and the reconnects that  *)
(* lose the session and the frames but not the choice.                     *)
(*                                                                         *)
(* What moves the measured tier is in Connection, what the rate limiter    *)
(* refuses in FrameLimits; both may happen here at any time.               *)
(***************************************************************************)
EXTENDS Tiers, Sequences

CONSTANT MaxWire  \* bound: frames under way each way

ASSUME ChoiceAssumption == MaxWire \in Nat /\ DebugControls \in BOOLEAN /\ None \notin Tier

VARIABLES
    choice, explicit,  \* #tierOverride, #hasExplicitOverride of the desired state
    linked,    \* a socket is open, with its session
    greeted,   \*   and the client has seen its hello
    up,        \* overrides on their way to the server
    down,      \* hello and tier.changed on their way to the client
    measured, forced,  \* autoTier and tierOverride of the session
    shown,     \* effectiveTier of the connection store
    refused    \* history: the limiter refused an override of this session

choiceVars == <<choice, explicit, linked, greeted, up, down, measured, forced, shown, refused>>

Told == [hello : BOOLEAN, tier : Tier]

ChoiceTypeOK ==
    /\ choice \in Tier \cup {None} /\ forced \in Tier \cup {None}
    /\ {explicit, linked, greeted, refused} \subseteq BOOLEAN
    /\ up \in Seq(Tier \cup {None}) /\ down \in Seq(Told)
    /\ measured \in Tier /\ shown \in Tier
    /\ greeted => linked

Latest(first, wire) == IF wire = <<>> THEN first ELSE wire[Len(wire)]

------------------------------------------------------------------------------
(* The client.                                                             *)

\* A choice made without a socket is only remembered.
Choose(tier) ==
    /\ Len(up) < MaxWire
    /\ choice' = tier /\ explicit' = TRUE
    /\ up' = IF linked THEN Append(up, tier) ELSE up
    /\ UNCHANGED <<linked, greeted, down, measured, forced, shown, refused>>

\* reapply, of what was ever chosen, back to automatic included.
ReappliedIfOther == IF explicit /\ choice # Head(down).tier THEN Append(up, choice) ELSE up
Reapplied == IF explicit THEN Append(up, choice) ELSE up

Receive ==
    /\ down # <<>> /\ down' = Tail(down)
    /\ shown' = Head(down).tier
    /\ greeted' = (greeted \/ Head(down).hello)
    /\ up' = IF Head(down).hello THEN Reapplied ELSE up
    /\ UNCHANGED <<choice, explicit, linked, measured, forced, refused>>

------------------------------------------------------------------------------
(* The server.                                                             *)

\* announceTier: the client is told when the tier that governs moves.
Announces(override, auto) ==
    /\ Len(down) < MaxWire
    /\ forced' = override /\ measured' = auto
    /\ down' = IF Effective(override, auto) = Effective(forced, measured) THEN down
               ELSE Append(down, [hello |-> FALSE, tier |-> Effective(override, auto)])

Overrides ==
    /\ up # <<>> /\ up' = Tail(up)
    /\ Announces(IF DebugControls THEN Head(up) ELSE forced, measured)
    /\ UNCHANGED <<choice, explicit, linked, greeted, shown, refused>>

Refuses ==
    /\ up # <<>> /\ up' = Tail(up)
    /\ refused' = TRUE
    /\ UNCHANGED <<choice, explicit, linked, greeted, down, measured, forced, shown>>

\* A report, or silence.
Measures(tier) ==
    /\ linked
    /\ Announces(forced, tier)
    /\ UNCHANGED <<choice, explicit, linked, greeted, up, shown, refused>>

------------------------------------------------------------------------------
(* Sockets come and go.                                                    *)
Links ==
    /\ ~linked /\ linked' = TRUE
    /\ measured' = InitialTier /\ forced' = None /\ refused' = FALSE
    /\ down' = <<[hello |-> TRUE, tier |-> InitialTier]>>
    /\ UNCHANGED <<choice, explicit, greeted, up, shown>>

Unlinked ==
    /\ linked' = FALSE /\ greeted' = FALSE
    /\ up' = <<>> /\ down' = <<>>
    /\ UNCHANGED <<measured, forced, shown, refused>>

Breaks == linked /\ Unlinked /\ UNCHANGED <<choice, explicit>>

\* A new runtime has chosen nothing; the store is the page's.
NewRuntime == choice' = None /\ explicit' = FALSE /\ Unlinked

ChoiceInit ==
    /\ choice = None /\ explicit = FALSE
    /\ linked = FALSE /\ greeted = FALSE /\ up = <<>> /\ down = <<>>
    /\ measured = InitialTier /\ forced = None /\ shown = InitialTier
    /\ refused = FALSE

ChoiceNext ==
    \/ \E tier \in Tier \cup {None} : Choose(tier)
    \/ Receive \/ Overrides \/ Refuses
    \/ \E tier \in Tier : Measures(tier)
    \/ Links \/ Breaks \/ NewRuntime

ChoiceSpec == ChoiceInit /\ [][ChoiceNext]_choiceVars

------------------------------------------------------------------------------
(* Once every frame under way is handled, the session is governed by what  *)
(* was chosen last, before or during it or in a session before it, unless  *)
(* the limiter refused a frame.  (SocketDesiredState; "a reconnect must    *)
(* not resurrect an override", docs/04-frontend.md:567)                    *)
ChoiceIsKept ==
    (greeted /\ DebugControls /\ ~refused) => Latest(forced, up) = choice

(* And what the store shows, once every announcement has come, is the tier *)
(* that governs, whether a choice or the link moved it.  (announceTier)    *)
StoreIsTold ==
    linked => (IF down = <<>> THEN shown ELSE down[Len(down)].tier) = Effective(forced, measured)

(* So a tier that was chosen is the tier shown when both ways are quiet,   *)
(* however often the link broke and whatever it measured meanwhile.        *)
ChoiceIsInForce == ChoiceTypeOK /\ ChoiceIsKept /\ StoreIsTold
==============================================================================
