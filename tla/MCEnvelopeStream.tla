-------------------------- MODULE MCEnvelopeStream --------------------------
(***************************************************************************)
(* Every stream of up to MaxStream bytes, cut into chunks in every way.    *)
(* Bytes have three values, so that a prefix of two bytes announces        *)
(* lengths below, at and above the limits; tag 0 has no fields, tag 1 one, *)
(* and tag 2 is unknown.                                                   *)
(***************************************************************************)
EXTENDS EnvelopeStream

MCArity == [t \in {0, 1} |-> t]
=============================================================================
