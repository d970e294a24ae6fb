------------------------- MODULE MCPairingHandshake -------------------------
(***************************************************************************)
(* The pairing window on its own, called by an arbitrary caller: the real  *)
(* attempt budget, a code space of three codes, and a sample range whose   *)
(* two largest raw values are rejected and drawn again.                    *)
(***************************************************************************)
EXTENDS PairingHandshake
=============================================================================
