--------------------------- MODULE MCPairingFlow ---------------------------
(***************************************************************************)
(* Two phones, one of which may be paired and revoked before the first     *)
(* run, a window of two ticks, and two runs of `pair`.                     *)
(***************************************************************************)
EXTENDS PairingFlow

CONSTANTS p1, n1

MCInitialKeystores ==
    {NoKeystore,
     [identity |-> 0,
      pairings |-> {[phone_name |-> n1, client_spki |-> p1,
                     paired_at |-> 0, revoked |-> TRUE]}]}
=============================================================================
