--------------------------- MODULE EnvelopeStream ---------------------------
(***************************************************************************)
(* The byte framing (core/src/protocol/envelope.rs, message.rs) under the  *)
(* two read loops that use it: read_envelope of a connection of the        *)
(* listener and read_one_envelope of `pair`.                               *)
(*                                                                         *)
(* A frame is a big-endian length, a header that begins with the version,  *)
(* and a payload whose first byte is the tag of a message.  The stream     *)
(* delivers the bytes a peer wrote in chunks of any size; the peer writes  *)
(* any bytes at all and then closes, or the connection breaks.             *)
(***************************************************************************)
EXTENDS Integers, Sequences, SequencesExt

CONSTANTS
    BASE,               \* values of a byte, 256
    LENGTH_PREFIX_LEN,  \* 4
    ENVELOPE_HEADER_LEN,\* 9: version and nonce
    MAX_FRAME_LEN,      \* 64 KiB
    READ_CHUNK,         \* 4096: the most one read returns
    PROTOCOL_VERSION,
    Arity,              \* bytes of the fields of each message, by its tag
    MaxStream           \* bound: bytes a peer writes

MIN_FRAME_LEN == ENVELOPE_HEADER_LEN + 1

Byte == 0 .. BASE - 1

ASSUME EnvelopeAssumption ==
    /\ BASE \in Nat \ {0, 1}
    /\ LENGTH_PREFIX_LEN \in Nat \ {0}
    /\ ENVELOPE_HEADER_LEN \in Nat \ {0}
    /\ MAX_FRAME_LEN \in Nat
    /\ READ_CHUNK \in Nat \ {0}
    /\ PROTOCOL_VERSION \in Byte
    /\ MaxStream \in Nat

VARIABLES
    wire,     \* what the peer writes in the whole connection
    mode,     \* "serve" or "pair": which of the two loops reads
    arrived,  \* bytes of wire that were read
    buf,      \* the buffer of the loop
    st,       \* decode, read, handle; or how the connection ended
    env,      \* the envelope being handled
    out       \* observation: the envelopes the loop returned

vars == <<wire, mode, arrived, buf, st, env, out>>

-----------------------------------------------------------------------------
(* The codec *)

(* A big-endian number: the last byte is the remainder by BASE, and so on   *)
(* upwards; what does not fit into the prefix is cut off.                   *)
ToBytes(n) ==
    LET left[k \in 0 .. LENGTH_PREFIX_LEN] ==
            IF k = 0 THEN n ELSE left[k - 1] \div BASE
    IN  [i \in 1 .. LENGTH_PREFIX_LEN |-> left[LENGTH_PREFIX_LEN - i] % BASE]

FromBytes(bytes) ==
    LET value[i \in 0 .. Len(bytes)] ==
            IF i = 0 THEN 0 ELSE value[i - 1] * BASE + bytes[i]
    IN  value[Len(bytes)]

(* The length of every frame within the limits fits into the prefix.        *)
ASSUME PrefixAssumption ==
    \E bytes \in [1 .. LENGTH_PREFIX_LEN -> Byte] : FromBytes(bytes) = MAX_FRAME_LEN

(* The bytes of an envelope; the peer and the daemon both write with it. *)
encode_envelope(e) == ToBytes(Len(e)) \o e

Prefix(b) == FromBytes(SubSeq(b, 1, LENGTH_PREFIX_LEN))

NoEnvelope == <<>>

Outcome(kind, e) == [kind |-> kind, envelope |-> e]

\* The upper limit is only enforced on a frame that has arrived.
InLimits_Late(len, b) ==
    len \in MIN_FRAME_LEN .. IF Len(b) < LENGTH_PREFIX_LEN + len
                             THEN BASE ^ LENGTH_PREFIX_LEN ELSE MAX_FRAME_LEN

\* An envelope without a payload passes.
InLimits_NoPayload(len, b) == len \in ENVELOPE_HEADER_LEN .. MAX_FRAME_LEN

\* The largest frame is refused.
InLimits_Exclusive(len, b) == len \in MIN_FRAME_LEN .. MAX_FRAME_LEN - 1

InLimits(len, b) == len \in MIN_FRAME_LEN .. MAX_FRAME_LEN

(* The length is judged as soon as it is there, the version only once the   *)
(* whole frame is.                                                          *)
decode_envelope(b) ==
    LET len == Prefix(b)
        total == LENGTH_PREFIX_LEN + len IN
    IF Len(b) < LENGTH_PREFIX_LEN THEN Outcome("Incomplete", NoEnvelope)
    ELSE IF ~InLimits(len, b)
    THEN Outcome(IF len < MIN_FRAME_LEN THEN "UndersizedFrame"
                 ELSE "OversizedFrame", NoEnvelope)
    ELSE IF Len(b) < total THEN Outcome("Incomplete", NoEnvelope)
    ELSE IF b[LENGTH_PREFIX_LEN + 1] # PROTOCOL_VERSION
    THEN Outcome("VersionMismatch", NoEnvelope)
    ELSE Outcome("Frame", SubSeq(b, LENGTH_PREFIX_LEN + 1, total))

(* decode_payload: an unknown tag and missing fields do not decode, and     *)
(* neither does a message with bytes after it.                              *)
Decodes(e) ==
    LET payload == SubSeq(e, ENVELOPE_HEADER_LEN + 1, Len(e)) IN
    /\ payload[1] \in DOMAIN Arity
    /\ Len(payload) = 1 + Arity[payload[1]]

-----------------------------------------------------------------------------
(* The read loops *)

Init ==
    /\ wire \in UNION {[1 .. n -> Byte] : n \in 0 .. MaxStream}
    /\ mode \in {"serve", "pair"}
    /\ arrived = 0
    /\ buf = <<>>
    /\ st = "decode"
    /\ env = NoEnvelope
    /\ out = <<>>

Running == {"decode", "read", "handle"}

\* The frame is drained without its length prefix.
Drain_Body(b, e) == SubSeq(b, Len(e) + 1, Len(b))

(* buf.drain(..consumed) *)
Drain(b, e) == SubSeq(b, LENGTH_PREFIX_LEN + Len(e) + 1, Len(b))

(* An error of the framing ends the connection without an answer. *)
Decode ==
    LET o == decode_envelope(buf) IN
    /\ st = "decode"
    /\ st' = CASE o.kind = "Frame" -> "handle"
               [] o.kind = "Incomplete" -> "read"
               [] OTHER -> o.kind
    /\ buf' = IF o.kind = "Frame" THEN Drain(buf, o.envelope) ELSE buf
    /\ env' = o.envelope
    /\ out' = IF o.kind = "Frame" THEN Append(out, o.envelope) ELSE out
    /\ UNCHANGED <<wire, mode, arrived>>

(* A read returns what has arrived, at most a chunk of it. *)
Read(n) ==
    /\ st = "read"
    /\ n \in 1 .. READ_CHUNK
    /\ arrived + n <= Len(wire)
    /\ buf' = buf \o SubSeq(wire, arrived + 1, arrived + n)
    /\ arrived' = arrived + n
    /\ st' = "decode"
    /\ UNCHANGED <<wire, mode, env, out>>

\* A read of no bytes is taken for an empty chunk.
EofVerdict_Loops(m, b) == "decode"

(* read_envelope takes the end of the stream between two envelopes for a    *)
(* clean end; read_one_envelope needs one envelope.                         *)
EofVerdict(m, b) == IF m = "serve" /\ b = <<>> THEN "Eof" ELSE "MidFrame"

ReadEof ==
    /\ st = "read"
    /\ arrived = Len(wire)
    /\ st' = EofVerdict(mode, buf)
    /\ UNCHANGED <<wire, mode, arrived, buf, env, out>>

(* The connection breaks under a read. *)
ReadFails ==
    /\ st = "read"
    /\ st' = "Broken"
    /\ UNCHANGED <<wire, mode, arrived, buf, env, out>>

\* The loop reads again before it looks at what the buffer still holds.
AfterReply_Reads == "read"

AfterReply == "decode"

(* The envelope is handled: an error and close if the payload does not      *)
(* decode.  pair handles one envelope per connection; the listener goes on  *)
(* unless the answer closes (Server!ReceiveReplay, WriteReply).             *)
Handle ==
    /\ st = "handle"
    /\ \/ ~Decodes(env) /\ st' = "MalformedFrame"
       \/ Decodes(env) /\ mode = "serve" /\ st' = AfterReply
       \/ Decodes(env) /\ st' = "Closed"
    /\ env' = NoEnvelope
    /\ UNCHANGED <<wire, mode, arrived, buf, out>>

Next == Decode \/ (\E n \in 1 .. READ_CHUNK : Read(n)) \/ ReadEof \/ ReadFails \/ Handle

Spec == Init /\ [][Next]_vars

(* The task is scheduled, and what the peer wrote arrives, or the read      *)
(* reports that the peer has closed or that the connection broke.           *)
Fairness == WF_vars(Next)

FairSpec == Spec /\ Fairness

-----------------------------------------------------------------------------
Ended == {"Eof", "MidFrame", "Broken", "Closed", "MalformedFrame",
          "UndersizedFrame", "OversizedFrame", "VersionMismatch"}

(* What decode_envelope lets through. *)
Accepted(e) == /\ Len(e) \in MIN_FRAME_LEN .. MAX_FRAME_LEN
               /\ e[1] = PROTOCOL_VERSION

(* The types, and that only envelopes of the daemon's version and within    *)
(* the limits are handled, each with a payload to decode.                   *)
StreamTypeOK ==
    /\ wire \in Seq(Byte)
    /\ mode \in {"serve", "pair"}
    /\ arrived \in 0 .. Len(wire)
    /\ buf \in Seq(Byte)
    /\ st \in Running \cup Ended
    /\ env \in Seq(Byte)
    /\ st = "handle" => Accepted(env)
    /\ st # "handle" => env = NoEnvelope

(* The most the buffer holds before a read, and a read on top of it. *)
BufferLimit == LENGTH_PREFIX_LEN + MAX_FRAME_LEN - 1 + READ_CHUNK

(* What the loops buffer is bounded, whatever lengths the peer announces:   *)
(* a read is issued only while less than one frame of the largest size is   *)
(* in the buffer.                                                           *)
BoundedBuffer ==
    /\ Len(buf) <= BufferLimit
    /\ st = "read" => Len(buf) < LENGTH_PREFIX_LEN + MAX_FRAME_LEN

(* What a peer writes that sends envelopes one after the other. *)
Encoded(es) == FlattenSeq([i \in 1 .. Len(es) |-> encode_envelope(es[i])])

(* Whatever the chunks are, the bytes read so far are the encodings of the  *)
(* envelopes returned, in order, and then the buffer: nothing is skipped,   *)
(* repeated, merged or cut.                                                 *)
DeliveredIsSent ==
    SubSeq(wire, 1, arrived) = Encoded(out) \o buf

(* When the peer has closed, no whole frame is left in the buffer, and the  *)
(* listener calls the end clean exactly if the peer wrote whole envelopes.  *)
EndIsTrue ==
    st \in {"Eof", "MidFrame"} =>
        /\ arrived = Len(wire)
        /\ decode_envelope(buf).kind = "Incomplete"
        /\ st = "Eof" <=> mode = "serve" /\ buf = <<>>

(* The sequences of accepted envelopes that fit into a stream of n bytes. *)
Conversations(n) ==
    LET Envelope == {e \in UNION {[1 .. m -> Byte] : m \in MIN_FRAME_LEN .. MAX_FRAME_LEN} :
                         e[1] = PROTOCOL_VERSION}
    IN  BoundedSeq(Envelope, n \div (LENGTH_PREFIX_LEN + MIN_FRAME_LEN))

(* A peer that writes accepted envelopes one after the other is never told  *)
(* of a framing error, and when it closes the listener has handled them     *)
(* all and calls the end clean; pair, which takes one, only if there was    *)
(* none.  No chunk makes the bytes of one envelope look like another's.     *)
WellFormedIsServed ==
    st \in {"UndersizedFrame", "OversizedFrame", "VersionMismatch", "Eof", "MidFrame"} =>
        \A es \in Conversations(Len(wire)) :
            wire = Encoded(es) =>
                out = es /\ st = (IF mode = "serve" THEN "Eof" ELSE "MidFrame")

(* Every connection ends once its peer has closed it or broken it off, the  *)
(* end of the wire here: a read of no bytes is never taken for a chunk. The *)
(* code has no timeout for a peer that is silent and stays connected.       *)
StreamEnds == <>(st \in Ended)
=============================================================================
