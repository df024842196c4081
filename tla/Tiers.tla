---------------------------------- MODULE Tiers ----------------------------------
(***************************************************************************)
(* The tiers of a connection, as the protocol names them, and which of     *)
(* them governs delivery.                                                  *)
(***************************************************************************)
EXTENDS Integers

CONSTANTS
    None,          \* no override
    DebugControls  \* enableDebugControls

Tier == {"full", "degraded", "minimal"}
InitialTier == "degraded"

Effective(override, auto) == IF override = None THEN auto ELSE override
==============================================================================
