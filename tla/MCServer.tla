------------------------------ MODULE MCServer ------------------------------
(***************************************************************************)
(* Instances of the listener.  Time is counted in days (DAY_MS = 1); the   *)
(* keystore starts with p1 paired, last authenticated on day 0 with an     *)
(* interval Off, and p2 revoked.                                           *)
(***************************************************************************)
EXTENDS Server, TLC

CONSTANTS p1, p2, c1, c2, k1, k2, ps, q1, q2

MCNameOf == [p \in {p1, p2} |-> p]

MCPidOf == [s \in Saver |->
    CASE s \in Conn -> ps
      [] s = k1 -> q1
      [] s = k2 -> q2]

\* Files differ only in what they hold.
Symmetry == Permutations(Inode)

MCSaver == Conn \cup Cli

MCKeystores ==
    {[pairing  |-> [p \in Phone |-> IF p = p1 THEN "active" ELSE "revoked"],
      address  |-> [p \in Phone |-> NoAddr],
      interval |-> 0, last_auth |-> 0]}
=============================================================================
