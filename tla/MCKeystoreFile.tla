--------------------------- MODULE MCKeystoreFile ---------------------------
(***************************************************************************)
(* Saves of two or three tasks.  MCOwnProcess gives every task a process   *)
(* of its own (`pair`, `revoke`, `reauth-now`, a listener with a single    *)
(* connection); MCSharedProcess puts them in one process, as two           *)
(* connections of one listener are.                                        *)
(***************************************************************************)
EXTENDS KeystoreFile

CONSTANTS a, b, pa, pb

MCOwnProcess    == [s \in {a, b} |-> IF s = a THEN pa ELSE pb]
MCSharedProcess == [s \in {a, b} |-> pa]
=============================================================================
