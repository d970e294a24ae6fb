------------------------ MODULE EnvelopeStreamProofs ------------------------
(***************************************************************************)
(* The framing for every size of prefix, header, frame and chunk, every    *)
(* set of messages and every stream: what is handled is well formed, the   *)
(* buffer is bounded, the end of a stream is judged truly, and what is     *)
(* handed on is what the peer encoded.                                     *)
(***************************************************************************)
EXTENDS EnvelopeStream, SequenceTheorems, WellFoundedInduction, TLAPS

(* A read is issued only for a frame that is not whole yet.  This is what   *)
(* bounds the buffer and what makes the verdict at the end of a stream      *)
(* true.                                                                    *)
ReadsIncomplete == st = "read" => decode_envelope(buf).kind = "Incomplete"

StreamInv == StreamTypeOK /\ ReadsIncomplete /\ BoundedBuffer /\ EndIsTrue

(* What decode_envelope returns: a kind, and the envelope of an accepted    *)
(* frame that lies in the buffer after its prefix.                          *)
LEMMA DecodeReturns ==
    ASSUME NEW b \in Seq(Byte)
    PROVE  LET o == decode_envelope(b) IN
           /\ o.kind \in {"Frame", "Incomplete", "UndersizedFrame",
                          "OversizedFrame", "VersionMismatch"}
           /\ o.kind # "Frame" => o.envelope = NoEnvelope
           /\ o.kind = "Frame" =>
                /\ o.envelope \in Seq(Byte)
                /\ Accepted(o.envelope)
                /\ LENGTH_PREFIX_LEN + Len(o.envelope) <= Len(b)
                /\ Len(o.envelope) = Prefix(b)
                /\ o.envelope = SubSeq(b, LENGTH_PREFIX_LEN + 1,
                                          LENGTH_PREFIX_LEN + Len(o.envelope))
           /\ o.kind = "Incomplete" => Len(b) < LENGTH_PREFIX_LEN + MAX_FRAME_LEN
  <1> DEFINE len == Prefix(b)
             total == LENGTH_PREFIX_LEN + len
  <1> USE EnvelopeAssumption DEF Outcome, NoEnvelope
  <1>1. CASE Len(b) < LENGTH_PREFIX_LEN
    BY <1>1 DEF decode_envelope
  <1>2. CASE Len(b) >= LENGTH_PREFIX_LEN /\ ~InLimits(len, b)
    BY <1>2 DEF decode_envelope
  <1>3. CASE Len(b) >= LENGTH_PREFIX_LEN /\ InLimits(len, b) /\ Len(b) < total
    <2>1. len \in MIN_FRAME_LEN .. MAX_FRAME_LEN
      BY <1>3 DEF InLimits
    <2>2. decode_envelope(b) = Outcome("Incomplete", NoEnvelope)
      BY <1>3 DEF decode_envelope
    <2> QED
      BY <1>3, <2>1, <2>2 DEF MIN_FRAME_LEN
  <1>4. CASE /\ Len(b) >= LENGTH_PREFIX_LEN /\ InLimits(len, b) /\ Len(b) >= total
             /\ b[LENGTH_PREFIX_LEN + 1] # PROTOCOL_VERSION
    <2>1. len \in MIN_FRAME_LEN .. MAX_FRAME_LEN
      BY <1>4 DEF InLimits
    <2>2. decode_envelope(b) = Outcome("VersionMismatch", NoEnvelope)
      BY <1>4, <2>1 DEF decode_envelope, MIN_FRAME_LEN
    <2> QED
      BY <2>2
  <1>5. CASE /\ Len(b) >= LENGTH_PREFIX_LEN /\ InLimits(len, b) /\ Len(b) >= total
             /\ b[LENGTH_PREFIX_LEN + 1] = PROTOCOL_VERSION
    <2> DEFINE e == SubSeq(b, LENGTH_PREFIX_LEN + 1, total)
    <2>1. len \in MIN_FRAME_LEN .. MAX_FRAME_LEN
      BY <1>5 DEF InLimits
    <2>2. decode_envelope(b) = Outcome("Frame", e)
      BY <1>5, <2>1 DEF decode_envelope, MIN_FRAME_LEN
    <2>3. e \in Seq(Byte) /\ Len(e) = len
      BY <1>5, <2>1 DEF MIN_FRAME_LEN
    <2>4. e[1] = b[LENGTH_PREFIX_LEN + 1]
      BY <1>5, <2>1 DEF MIN_FRAME_LEN
    <2>5. Accepted(e) /\ LENGTH_PREFIX_LEN + Len(e) <= Len(b)
      BY <1>5, <2>1, <2>3, <2>4 DEF Accepted
    <2>6. e = SubSeq(b, LENGTH_PREFIX_LEN + 1, LENGTH_PREFIX_LEN + Len(e))
      BY <2>3
    <2> HIDE DEF e
    <2> QED
      BY <2>2, <2>3, <2>5, <2>6
  <1> QED
    BY <1>1, <1>2, <1>3, <1>4, <1>5 DEF InLimits, MIN_FRAME_LEN

LEMMA InitInv == Init => StreamInv
  <1> SUFFICES ASSUME Init PROVE StreamInv
    OBVIOUS
  <1> USE EnvelopeAssumption DEF Init
  <1>1. wire \in Seq(Byte)
    OBVIOUS
  <1>2. StreamTypeOK
    BY <1>1 DEF StreamTypeOK, Running, Ended, NoEnvelope
  <1> QED
    BY <1>2 DEF StreamInv, ReadsIncomplete, BoundedBuffer, BufferLimit, EndIsTrue

LEMMA DecodeInv == StreamInv /\ Decode => StreamInv'
  <1> SUFFICES ASSUME StreamInv, Decode PROVE StreamInv'
    OBVIOUS
  <1> DEFINE o == decode_envelope(buf)
  <1> USE EnvelopeAssumption DEF StreamInv
  <1>1. buf \in Seq(Byte) /\ env \in Seq(Byte)
    BY DEF StreamTypeOK
  <1>2. /\ o.kind \in {"Frame", "Incomplete", "UndersizedFrame",
                       "OversizedFrame", "VersionMismatch"}
        /\ o.kind # "Frame" => o.envelope = NoEnvelope
        /\ o.kind = "Frame" => /\ o.envelope \in Seq(Byte)
                               /\ Accepted(o.envelope)
                               /\ LENGTH_PREFIX_LEN + Len(o.envelope) <= Len(buf)
        /\ o.kind = "Incomplete" => Len(buf) < LENGTH_PREFIX_LEN + MAX_FRAME_LEN
    BY <1>1, DecodeReturns
  <1> HIDE DEF o
  <1>3. CASE o.kind = "Frame"
    <2>1. st' = "handle" /\ env' = o.envelope /\ buf' = Drain(buf, o.envelope)
      BY <1>3 DEF Decode, o
    <2>2. buf' \in Seq(Byte) /\ Len(buf') <= Len(buf)
      BY <1>1, <1>2, <1>3, <2>1 DEF Drain
    <2>3. StreamTypeOK'
      BY <1>2, <1>3, <2>1, <2>2 DEF StreamTypeOK, Decode, Running, Accepted
    <2>4. BoundedBuffer'
      BY <1>1, <2>1, <2>2 DEF BoundedBuffer, BufferLimit
    <2> QED
      BY <2>1, <2>3, <2>4 DEF ReadsIncomplete, EndIsTrue
  <1>4. CASE o.kind = "Incomplete"
    <2>1. st' = "read" /\ env' = NoEnvelope /\ UNCHANGED <<wire, mode, arrived, buf>>
      BY <1>2, <1>4 DEF Decode, o
    <2>2. StreamTypeOK'
      BY <2>1 DEF StreamTypeOK, Running, NoEnvelope
    <2>3. ReadsIncomplete'
      BY <1>4, <2>1 DEF ReadsIncomplete, o
    <2>4. BoundedBuffer'
      BY <1>2, <1>4, <2>1 DEF BoundedBuffer, BufferLimit
    <2> QED
      BY <2>1, <2>2, <2>3, <2>4 DEF EndIsTrue
  <1>5. CASE o.kind \in {"UndersizedFrame", "OversizedFrame", "VersionMismatch"}
    <2>1. st' = o.kind /\ env' = NoEnvelope /\ UNCHANGED <<wire, mode, arrived, buf>>
      BY <1>2, <1>5 DEF Decode, o
    <2>2. StreamTypeOK'
      BY <1>5, <2>1 DEF StreamTypeOK, Ended, NoEnvelope
    <2>3. BoundedBuffer'
      BY <1>5, <2>1 DEF BoundedBuffer, BufferLimit
    <2> QED
      BY <1>5, <2>1, <2>2, <2>3 DEF ReadsIncomplete, EndIsTrue
  <1> QED
    BY <1>2, <1>3, <1>4, <1>5

LEMMA ReadInv == ASSUME NEW n \in 1 .. READ_CHUNK, StreamInv, Read(n)
                 PROVE  StreamInv'
  <1> USE EnvelopeAssumption DEF StreamInv, Read
  <1>1. /\ buf \in Seq(Byte) /\ wire \in Seq(Byte) /\ arrived \in 0 .. Len(wire)
        /\ n \in Nat /\ arrived + n <= Len(wire)
    BY DEF StreamTypeOK
  <1> DEFINE chunk == SubSeq(wire, arrived + 1, arrived + n)
  <1>2. chunk \in Seq(Byte) /\ Len(chunk) = n
    BY <1>1
  <1>3. buf' \in Seq(Byte) /\ Len(buf') = Len(buf) + n
    BY <1>1, <1>2
  <1>4. StreamTypeOK'
    BY <1>1, <1>3 DEF StreamTypeOK, Running
  <1>5. BoundedBuffer'
    BY <1>1, <1>3 DEF BoundedBuffer, BufferLimit
  <1> QED
    BY <1>4, <1>5 DEF ReadsIncomplete, EndIsTrue

LEMMA EndInv == StreamInv /\ (ReadEof \/ ReadFails) => StreamInv'
  <1> SUFFICES ASSUME StreamInv, ReadEof \/ ReadFails PROVE StreamInv'
    OBVIOUS
  <1> USE DEF StreamInv
  <1>1. /\ st = "read" /\ st' \in {"Eof", "MidFrame", "Broken"}
        /\ UNCHANGED <<wire, mode, arrived, buf, env>>
    BY DEF ReadEof, ReadFails, EofVerdict
  <1>2. StreamTypeOK'
    BY <1>1 DEF StreamTypeOK, Ended
  <1>3. BoundedBuffer'
    BY <1>1 DEF BoundedBuffer, BufferLimit
  <1>4. st' \in {"Eof", "MidFrame"} => arrived = Len(wire) /\ st' = EofVerdict(mode, buf)
    BY <1>1 DEF ReadEof, ReadFails
  <1>5. decode_envelope(buf').kind = "Incomplete"
    BY <1>1 DEF ReadsIncomplete
  <1>6. EndIsTrue'
    BY <1>1, <1>4, <1>5 DEF EndIsTrue, EofVerdict
  <1> QED
    BY <1>1, <1>2, <1>3, <1>6 DEF ReadsIncomplete

LEMMA HandleInv == StreamInv /\ Handle => StreamInv'
  <1> SUFFICES ASSUME StreamInv, Handle PROVE StreamInv'
    OBVIOUS
  <1> USE DEF StreamInv
  <1>1. /\ st' \in {"decode", "MalformedFrame", "Closed"}
        /\ env' = NoEnvelope /\ UNCHANGED <<wire, mode, arrived, buf>>
    BY DEF Handle, AfterReply
  <1>2. StreamTypeOK'
    BY <1>1 DEF StreamTypeOK, Running, Ended, NoEnvelope
  <1>3. BoundedBuffer'
    BY <1>1 DEF BoundedBuffer, BufferLimit
  <1> QED
    BY <1>1, <1>2, <1>3 DEF ReadsIncomplete, EndIsTrue

LEMMA StutterInv == StreamInv /\ UNCHANGED vars => StreamInv'
  BY DEF StreamInv, StreamTypeOK, ReadsIncomplete, BoundedBuffer, EndIsTrue, vars,
         Accepted

LEMMA StreamCorrect == Spec => []StreamInv
  <1>1. StreamInv /\ [Next]_vars => StreamInv'
    BY DecodeInv, ReadInv, EndInv, HandleInv, StutterInv DEF Next
  <1> QED
    BY <1>1, InitInv, PTL DEF Spec

(* Only envelopes of the daemon's version, within the limits and with a     *)
(* payload, are handled by the two read loops.                              *)
THEOREM HandledIsWellFormed == Spec => []StreamTypeOK
  <1>1. StreamInv => StreamTypeOK
    BY DEF StreamInv
  <1> QED
    BY <1>1, StreamCorrect, PTL

(* read_envelope and read_one_envelope never hold more than one frame of    *)
(* the largest size, less a byte, and one chunk.                            *)
THEOREM BufferIsBounded == Spec => []BoundedBuffer
  <1>1. StreamInv => BoundedBuffer
    BY DEF StreamInv
  <1> QED
    BY <1>1, StreamCorrect, PTL

(* At the end of a stream no whole frame is left unread, and the end is     *)
(* called clean exactly between two envelopes.                              *)
THEOREM EndIsJudgedTruly == Spec => []EndIsTrue
  <1>1. StreamInv => EndIsTrue
    BY DEF StreamInv
  <1> QED
    BY <1>1, StreamCorrect, PTL

-----------------------------------------------------------------------------
(* Induction over sets of numbers *)

(* A set of naturals that is not empty has a least element. *)
LEMMA LeastElement ==
    ASSUME NEW T \in SUBSET Nat, T # {}
    PROVE  \E x \in T : \A y \in T : x <= y
  <1> DEFINE R == {ss \in Nat \X Nat : ss[1] < ss[2]}
  <1>1. IsWellFoundedOn(R, Nat)
    BY NatLessThanWellFounded DEF OpToRel
  <1>2. \A x, y \in Nat : ~(<<y, x>> \in R) => x <= y
    OBVIOUS
  <1> HIDE DEF R
  <1>3. \E x \in T : \A y \in T : ~(<<y, x>> \in R)
    BY <1>1, WFMin
  <1> QED BY <1>2, <1>3

(* A set with 0 that has, with every number below n, the next one too, has  *)
(* all numbers up to n.                                                     *)
LEMMA InductionUpTo ==
    ASSUME NEW n \in Nat, NEW T, 0 \in T,
           \A i \in 0 .. n - 1 : i \in T => i + 1 \in T
    PROVE  0 .. n \subseteq T
  <1> SUFFICES ASSUME (0 .. n) \ T # {} PROVE FALSE
    OBVIOUS
  <1> DEFINE D == (0 .. n) \ T
  <1>1. PICK x \in D : \A y \in D : x <= y
    <2>1. D \in SUBSET Nat /\ D # {}
      OBVIOUS
    <2> HIDE DEF D
    <2> QED BY <2>1, LeastElement
  <1>2. x # 0
    BY <1>1
  <1>3. x - 1 \in 0 .. n - 1 /\ ~(x <= x - 1)
    BY <1>1, <1>2
  <1>4. x - 1 \in T
    BY <1>1, <1>3
  <1>5. (x - 1) + 1 \in T
    BY <1>3, <1>4
  <1> QED BY <1>1, <1>3, <1>5

-----------------------------------------------------------------------------
(* The length prefix *)

LEMMA MultiplyAdd ==
    ASSUME NEW a \in Nat, NEW b \in Nat, NEW c \in Nat
    PROVE  a * b + c \in Nat
  OBVIOUS

(* One byte more: what from_be_bytes has after i bytes. *)
LEMMA FromBytesValues ==
    ASSUME NEW s \in Seq(Byte)
    PROVE  \E v \in [0 .. Len(s) -> Nat] :
              /\ v[0] = 0
              /\ \A i \in 1 .. Len(s) : v[i] = v[i - 1] * BASE + s[i]
              /\ FromBytes(s) = v[Len(s)]
  <1> DEFINE Rec(v, n) == v = [i \in 0 .. n |-> IF i = 0 THEN 0 ELSE v[i - 1] * BASE + s[i]]
             T == {n \in Nat : \E v : Rec(v, n) /\ v \in [0 .. n -> Nat]}
  <1>0. Len(s) \in Nat /\ BASE \in Nat /\ \A i \in 1 .. Len(s) : s[i] \in Nat
    BY EnvelopeAssumption DEF Byte
  <1>1. 0 \in T
    <2>1. Rec([i \in 0 .. 0 |-> 0], 0) /\ [i \in 0 .. 0 |-> 0] \in [0 .. 0 -> Nat]
      OBVIOUS
    <2> QED BY <2>1
  <1>2. ASSUME NEW n \in 0 .. Len(s) - 1, n \in T PROVE n + 1 \in T
    <2>1. PICK v : Rec(v, n) /\ v \in [0 .. n -> Nat]
      BY <1>2
    <2> DEFINE w == [i \in 0 .. n + 1 |-> IF i = n + 1 THEN v[n] * BASE + s[n + 1] ELSE v[i]]
    <2>2. s[n + 1] \in Nat /\ n \in Nat /\ v[n] \in Nat
      BY <1>0, <2>1
    <2>3. w \in [0 .. n + 1 -> Nat]
      <3>1. v[n] * BASE + s[n + 1] \in Nat
        <4> HIDE DEF w, Rec, T
        <4> QED BY <1>0, <2>2, MultiplyAdd, Zenon
      <3> QED BY <2>1, <3>1
    <2>4. ASSUME NEW i \in 0 .. n + 1
          PROVE  w[i] = IF i = 0 THEN 0 ELSE w[i - 1] * BASE + s[i]
      <3>1. CASE i = n + 1
        BY <2>2, <3>1
      <3>2. CASE i \in 0 .. n
        <4>1. w[i] = v[i] /\ (i # 0 => w[i - 1] = v[i - 1])
          BY <3>2
        <4>2. v[i] = IF i = 0 THEN 0 ELSE v[i - 1] * BASE + s[i]
          BY <2>1, <3>2
        <4> QED BY <4>1, <4>2
      <3> QED BY <2>2, <3>1, <3>2
    <2>5. Rec(w, n + 1)
      BY <2>4
    <2> HIDE DEF w, Rec
    <2> QED BY <2>2, <2>3, <2>5
  <1>3. Len(s) \in T
    <2> HIDE DEF T
    <2>1. 0 .. Len(s) \subseteq T
      BY <1>0, <1>1, <1>2, InductionUpTo
    <2> QED BY <1>0, <2>1
  <1>4. PICK u : Rec(u, Len(s)) /\ u \in [0 .. Len(s) -> Nat]
    BY <1>3
  <1>5. ASSUME NEW v, Rec(v, Len(s))
        PROVE  v = u
    <2> DEFINE E == {i \in 0 .. Len(s) : v[i] = u[i]}
    <2>1. 0 \in E
      BY <1>0, <1>4, <1>5
    <2>2. ASSUME NEW i \in 0 .. Len(s) - 1, i \in E PROVE i + 1 \in E
      <3>1. i + 1 \in 0 .. Len(s) /\ i + 1 # 0 /\ (i + 1) - 1 = i
        BY <1>0
      <3>2. v[i + 1] = v[i] * BASE + s[i + 1]
        BY <1>5, <3>1
      <3>3. u[i + 1] = u[i] * BASE + s[i + 1]
        BY <1>4, <3>1
      <3> QED BY <2>2, <3>1, <3>2, <3>3
    <2>3. 0 .. Len(s) \subseteq E
      <3> HIDE DEF E
      <3> QED BY <1>0, <2>1, <2>2, InductionUpTo
    <2>4. v \in [0 .. Len(s) -> Nat]
      BY <1>4, <1>5, <2>3
    <2> QED BY <1>4, <2>3, <2>4
  <1>6. FromBytes(s) = u[Len(s)]
    <2>1. (CHOOSE v : Rec(v, Len(s))) = u
      <3> HIDE DEF Rec
      <3> QED BY <1>4, <1>5
    <2> QED BY <2>1 DEF FromBytes
  <1>7. u[0] = 0 /\ \A i \in 1 .. Len(s) : u[i] = u[i - 1] * BASE + s[i]
    BY <1>0, <1>4
  <1> QED BY <1>4, <1>6, <1>7

(* One byte less: what to_be_bytes has left after k bytes. *)
LEMMA ToBytesValues ==
    ASSUME NEW n \in Nat
    PROVE  \E r \in [0 .. LENGTH_PREFIX_LEN -> Nat] :
              /\ r[0] = n
              /\ \A k \in 1 .. LENGTH_PREFIX_LEN : r[k] = r[k - 1] \div BASE
              /\ ToBytes(n) = [i \in 1 .. LENGTH_PREFIX_LEN |-> r[LENGTH_PREFIX_LEN - i] % BASE]
  <1> DEFINE L == LENGTH_PREFIX_LEN
             Rec(v, m) == v = [k \in 0 .. m |-> IF k = 0 THEN n ELSE v[k - 1] \div BASE]
             T == {m \in Nat : \E v : Rec(v, m) /\ v \in [0 .. m -> Nat]}
  <1>0. L \in Nat /\ BASE \in Nat \ {0}
    BY EnvelopeAssumption
  <1>1. 0 \in T
    <2>1. Rec([i \in 0 .. 0 |-> n], 0) /\ [i \in 0 .. 0 |-> n] \in [0 .. 0 -> Nat]
      OBVIOUS
    <2> QED BY <2>1
  <1>2. ASSUME NEW m \in 0 .. L - 1, m \in T PROVE m + 1 \in T
    <2>1. PICK v : Rec(v, m) /\ v \in [0 .. m -> Nat]
      BY <1>2
    <2> DEFINE w == [i \in 0 .. m + 1 |-> IF i = m + 1 THEN v[m] \div BASE ELSE v[i]]
    <2>2. m \in Nat /\ v[m] \in Nat /\ v[m] \div BASE \in Nat
      <3>1. m \in Nat /\ v[m] \in Nat
        BY <2>1
      <3>2. \A x \in Nat, b \in Nat \ {0} : x \div b \in Nat
        OBVIOUS
      <3> QED BY <1>0, <3>1, <3>2
    <2>3. w \in [0 .. m + 1 -> Nat]
      BY <2>1, <2>2
    <2>4. ASSUME NEW i \in 0 .. m + 1
          PROVE  w[i] = IF i = 0 THEN n ELSE w[i - 1] \div BASE
      <3>1. CASE i = m + 1
        BY <2>2, <3>1
      <3>2. CASE i \in 0 .. m
        <4>1. w[i] = v[i] /\ (i # 0 => w[i - 1] = v[i - 1])
          BY <3>2
        <4>2. v[i] = IF i = 0 THEN n ELSE v[i - 1] \div BASE
          BY <2>1, <3>2
        <4> QED BY <4>1, <4>2
      <3> QED BY <2>2, <3>1, <3>2
    <2>5. Rec(w, m + 1)
      BY <2>4
    <2> HIDE DEF w, Rec
    <2> QED BY <2>2, <2>3, <2>5
  <1>3. L \in T
    <2> HIDE DEF T
    <2>1. 0 .. L \subseteq T
      BY <1>0, <1>1, <1>2, InductionUpTo
    <2> QED BY <1>0, <2>1
  <1>4. PICK u : Rec(u, L) /\ u \in [0 .. L -> Nat]
    BY <1>3
  <1>5. ASSUME NEW v, Rec(v, L)
        PROVE  v = u
    <2> DEFINE E == {i \in 0 .. L : v[i] = u[i]}
    <2>1. 0 \in E
      BY <1>0, <1>4, <1>5
    <2>2. ASSUME NEW i \in 0 .. L - 1, i \in E PROVE i + 1 \in E
      <3>1. i + 1 \in 0 .. L /\ i + 1 # 0 /\ (i + 1) - 1 = i
        BY <1>0
      <3>2. v[i + 1] = v[i] \div BASE
        BY <1>5, <3>1
      <3>3. u[i + 1] = u[i] \div BASE
        BY <1>4, <3>1
      <3> QED BY <2>2, <3>1, <3>2, <3>3
    <2>3. 0 .. L \subseteq E
      <3> HIDE DEF E
      <3> QED BY <1>0, <2>1, <2>2, InductionUpTo
    <2>4. v \in [0 .. L -> Nat]
      BY <1>4, <1>5, <2>3
    <2> QED BY <1>4, <2>3, <2>4
  <1>6. ToBytes(n) = [i \in 1 .. L |-> u[L - i] % BASE]
    <2>1. (CHOOSE v : Rec(v, L)) = u
      <3> HIDE DEF Rec
      <3> QED BY <1>4, <1>5
    <2>2. ToBytes(n) = [i \in 1 .. L |-> (CHOOSE v : Rec(v, L))[L - i] % BASE]
      BY DEF ToBytes
    <2> HIDE DEF Rec
    <2> QED BY <2>1, <2>2
  <1>7. u[0] = n /\ \A k \in 1 .. L : u[k] = u[k - 1] \div BASE
    BY <1>0, <1>4
  <1> QED BY <1>4, <1>6, <1>7

(* to_be_bytes gives bytes, as many as the prefix has. *)
LEMMA ToBytesType ==
    ASSUME NEW n \in Nat
    PROVE  ToBytes(n) \in Seq(Byte) /\ Len(ToBytes(n)) = LENGTH_PREFIX_LEN
  <1>1. PICK r \in [0 .. LENGTH_PREFIX_LEN -> Nat] :
           ToBytes(n) = [i \in 1 .. LENGTH_PREFIX_LEN |-> r[LENGTH_PREFIX_LEN - i] % BASE]
    BY ToBytesValues
  <1>2. LENGTH_PREFIX_LEN \in Nat /\ BASE \in Nat \ {0}
    BY EnvelopeAssumption
  <1>3. \A i \in 1 .. LENGTH_PREFIX_LEN : r[LENGTH_PREFIX_LEN - i] % BASE \in Byte
    BY <1>2 DEF Byte
  <1> QED BY <1>1, <1>2, <1>3

(* What the last byte is and what is left without it. *)
LEMMA DivModByte ==
    ASSUME NEW x \in Nat, NEW d \in Byte
    PROVE  (x * BASE + d) \div BASE = x /\ (x * BASE + d) % BASE = d
  BY EnvelopeAssumption DEF Byte

(* The prefix of a frame that was decoded is the one encode_envelope writes *)
(* for its length, which leaves nothing over.                               *)
LEMMA PrefixRoundTrip ==
    ASSUME NEW s \in Seq(Byte), Len(s) = LENGTH_PREFIX_LEN
    PROVE  /\ FromBytes(s) \in Nat
           /\ ToBytes(FromBytes(s)) = s
           /\ \E r \in [0 .. LENGTH_PREFIX_LEN -> Nat] :
                 /\ r[0] = FromBytes(s) /\ r[LENGTH_PREFIX_LEN] = 0
                 /\ \A k \in 1 .. LENGTH_PREFIX_LEN : r[k] = r[k - 1] \div BASE
  <1> DEFINE L == LENGTH_PREFIX_LEN
  <1>0. L \in Nat /\ \A i \in 1 .. L : s[i] \in Byte
    BY EnvelopeAssumption
  <1>1. PICK v \in [0 .. L -> Nat] :
              /\ v[0] = 0
              /\ \A i \in 1 .. L : v[i] = v[i - 1] * BASE + s[i]
              /\ FromBytes(s) = v[L]
    BY FromBytesValues
  <1>2. v[L] \in Nat
    BY <1>0, <1>1
  <1>3. PICK r \in [0 .. L -> Nat] :
              /\ r[0] = v[L]
              /\ \A k \in 1 .. L : r[k] = r[k - 1] \div BASE
              /\ ToBytes(v[L]) = [i \in 1 .. L |-> r[L - i] % BASE]
    BY <1>2, ToBytesValues
  <1>4. ASSUME NEW i \in 1 .. L
        PROVE  v[i] \div BASE = v[i - 1] /\ v[i] % BASE = s[i]
    <2>1. v[i - 1] \in Nat /\ s[i] \in Byte /\ v[i] = v[i - 1] * BASE + s[i]
      BY <1>0, <1>1
    <2> QED BY <2>1, DivModByte
  <1> DEFINE E == {k \in 0 .. L : r[k] = v[L - k]}
  <1>5. 0 \in E
    BY <1>0, <1>3
  <1>6. ASSUME NEW k \in 0 .. L - 1, k \in E PROVE k + 1 \in E
    <2>1. k + 1 \in 1 .. L /\ (k + 1) - 1 = k /\ L - k \in 1 .. L /\ (L - k) - 1 = L - (k + 1)
      BY <1>0
    <2>2. r[k + 1] = r[k] \div BASE
      BY <1>3, <2>1
    <2>3. v[L - k] \div BASE = v[L - (k + 1)]
      BY <1>4, <2>1
    <2> QED BY <1>6, <2>1, <2>2, <2>3
  <1>7. 0 .. L \subseteq E
    <2> HIDE DEF E
    <2> QED BY <1>0, <1>5, <1>6, InductionUpTo
  <1>8. ASSUME NEW i \in 1 .. L PROVE ToBytes(v[L])[i] = s[i]
    <2>1. L - i \in 0 .. L /\ L - (L - i) = i
      BY <1>0
    <2>2. r[L - i] = v[i]
      BY <1>7, <2>1
    <2> QED BY <1>3, <1>4, <2>2
  <1>9. ToBytes(v[L]) \in Seq(Byte) /\ Len(ToBytes(v[L])) = L
    BY <1>2, ToBytesType
  <1>10. ToBytes(v[L]) = s
    BY <1>8, <1>9, SeqEqual
  <1>11. r[0] = FromBytes(s) /\ r[L] = 0
    <2>1. L \in 0 .. L /\ L - L = 0
      BY <1>0
    <2> QED BY <1>1, <1>3, <1>7, <2>1
  <1> QED BY <1>1, <1>2, <1>3, <1>10, <1>11

-----------------------------------------------------------------------------
(* Envelopes one after the other *)

(* The bytes of the first i sequences. *)
LEMMA FlattenValues ==
    ASSUME NEW ss \in Seq(Seq(Byte)), ss # <<>>
    PROVE  \E f \in [1 .. Len(ss) -> Seq(Byte)] :
              /\ f[1] = ss[1]
              /\ \A i \in 2 .. Len(ss) : f[i] = f[i - 1] \o ss[i]
              /\ FlattenSeq(ss) = f[Len(ss)]
  <1> DEFINE Rec(v, n) == v = [i \in 1 .. n |-> IF i = 1 THEN ss[i] ELSE v[i - 1] \o ss[i]]
             T == {n \in Nat : \E v : Rec(v, n) /\ v \in [1 .. n -> Seq(Byte)]}
  <1>0. Len(ss) \in Nat \ {0} /\ \A i \in 1 .. Len(ss) : ss[i] \in Seq(Byte)
    BY EmptySeq, ElementOfSeq
  <1>1. 0 \in T
    <2> DEFINE none == [i \in 1 .. 0 |-> <<>>]
    <2>1. Rec(none, 0) /\ none \in [1 .. 0 -> Seq(Byte)]
      OBVIOUS
    <2> QED BY <2>1
  <1>2. ASSUME NEW n \in 0 .. Len(ss) - 1, n \in T PROVE n + 1 \in T
    <2>1. PICK v : Rec(v, n) /\ v \in [1 .. n -> Seq(Byte)]
      BY <1>2
    <2> DEFINE last == IF n = 0 THEN ss[1] ELSE v[n] \o ss[n + 1]
               w == [i \in 1 .. n + 1 |-> IF i = n + 1 THEN last ELSE v[i]]
    <2>2. n \in Nat /\ n + 1 \in 1 .. Len(ss) /\ (n + 1) - 1 = n
      BY <1>0
    <2>3. last \in Seq(Byte)
      <3>1. ss[n + 1] \in Seq(Byte) /\ (n # 0 => v[n] \in Seq(Byte))
        BY <1>0, <2>1, <2>2
      <3>2. n # 0 => v[n] \o ss[n + 1] \in Seq(Byte)
        BY <3>1, ConcatProperties
      <3> QED BY <2>2, <3>1, <3>2
    <2>4. w \in [1 .. n + 1 -> Seq(Byte)]
      <3> HIDE DEF last, Rec
      <3> QED BY <2>1, <2>2, <2>3
    <2>5. ASSUME NEW i \in 1 .. n + 1
          PROVE  w[i] = IF i = 1 THEN ss[i] ELSE w[i - 1] \o ss[i]
      <3>1. CASE i = n + 1
        <4>1. w[i] = last /\ (n # 0 => w[i - 1] = v[n])
          <5> HIDE DEF last
          <5> QED BY <2>2, <3>1
        <4> HIDE DEF w
        <4> QED BY <2>2, <3>1, <4>1
      <3>2. CASE i \in 1 .. n
        <4>1. w[i] = v[i] /\ (i # 1 => w[i - 1] = v[i - 1])
          <5> HIDE DEF last
          <5> QED BY <2>2, <3>2
        <4>2. v[i] = IF i = 1 THEN ss[i] ELSE v[i - 1] \o ss[i]
          BY <2>1, <3>2
        <4> HIDE DEF w
        <4> QED BY <4>1, <4>2
      <3> QED BY <2>2, <3>1, <3>2
    <2>6. Rec(w, n + 1)
      BY <2>5
    <2> HIDE DEF w, Rec
    <2> QED BY <2>2, <2>4, <2>6
  <1>3. Len(ss) \in T
    <2> HIDE DEF T
    <2>1. 0 .. Len(ss) \subseteq T
      BY <1>0, <1>1, <1>2, InductionUpTo
    <2> QED BY <1>0, <2>1, SMTT(30)
  <1>4. PICK u : Rec(u, Len(ss)) /\ u \in [1 .. Len(ss) -> Seq(Byte)]
    BY <1>3
  <1>5. ASSUME NEW v, Rec(v, Len(ss))
        PROVE  v = u
    <2> DEFINE E == {i \in 0 .. Len(ss) : i # 0 => v[i] = u[i]}
    <2>1. 0 \in E
      BY <1>0
    <2>2. ASSUME NEW i \in 0 .. Len(ss) - 1, i \in E PROVE i + 1 \in E
      <3>1. i + 1 \in 1 .. Len(ss) /\ (i + 1) - 1 = i /\ i \in Nat /\ i + 1 \in 0 .. Len(ss)
        BY <1>0
      <3>2. \A j \in 1 .. Len(ss) : v[j] = IF j = 1 THEN ss[j] ELSE v[j - 1] \o ss[j]
        BY <1>5, Zenon
      <3>3. \A j \in 1 .. Len(ss) : u[j] = IF j = 1 THEN ss[j] ELSE u[j - 1] \o ss[j]
        BY <1>4, Zenon
      <3> HIDE DEF Rec
      <3>4. i = 0 => v[i + 1] = ss[1] /\ u[i + 1] = ss[1]
        BY <3>1, <3>2, <3>3
      <3>5. i # 0 => v[i + 1] = v[i] \o ss[i + 1] /\ u[i + 1] = u[i] \o ss[i + 1]
        <4>1. i # 0 => i + 1 # 1
          BY <3>1
        <4> QED BY <3>1, <3>2, <3>3, <4>1, Zenon
      <3> QED BY <2>2, <3>1, <3>4, <3>5
    <2>3. 0 .. Len(ss) \subseteq E
      <3> HIDE DEF E
      <3> QED BY <1>0, <2>1, <2>2, InductionUpTo
    <2>4. ASSUME NEW i \in 1 .. Len(ss) PROVE v[i] = u[i]
      <3> HIDE DEF Rec, T
      <3>1. i \in 0 .. Len(ss) /\ i # 0
        BY <1>0
      <3>2. i \in E
        BY <2>3, <3>1
      <3> QED BY <3>1, <3>2
    <2>5. DOMAIN v = 1 .. Len(ss) /\ v = [i \in DOMAIN v |-> v[i]]
      BY <1>5
    <2> HIDE DEF Rec
    <2> QED BY <1>4, <2>4, <2>5
  <1>6. FlattenSeq(ss) = u[Len(ss)]
    <2>1. (CHOOSE v : Rec(v, Len(ss))) = u
      <3> HIDE DEF Rec
      <3> QED BY <1>4, <1>5
    <2>2. FlattenSeq(ss) = (CHOOSE v : Rec(v, Len(ss)))[Len(ss)]
      BY <1>0 DEF FlattenSeq
    <2> HIDE DEF Rec
    <2> QED BY <2>1, <2>2
  <1>7. u[1] = ss[1] /\ \A i \in 2 .. Len(ss) : u[i] = u[i - 1] \o ss[i]
    <2>1. \A j \in 1 .. Len(ss) : u[j] = IF j = 1 THEN ss[j] ELSE u[j - 1] \o ss[j]
      BY <1>4, Zenon
    <2>2. 1 \in 1 .. Len(ss) /\ \A i \in 2 .. Len(ss) : i \in 1 .. Len(ss) /\ i # 1
      BY <1>0
    <2> HIDE DEF Rec
    <2> QED BY <2>1, <2>2, Zenon
  <1> HIDE DEF Rec
  <1> QED BY <1>4, <1>6, <1>7

(* Flattening one sequence more. *)
LEMMA FlattenAppend ==
    ASSUME NEW ss \in Seq(Seq(Byte)), NEW x \in Seq(Byte)
    PROVE  /\ FlattenSeq(ss) \in Seq(Byte)
           /\ FlattenSeq(Append(ss, x)) = FlattenSeq(ss) \o x
  <1> DEFINE tt == Append(ss, x)
             n == Len(ss)
  <1>1. /\ tt \in Seq(Seq(Byte)) /\ tt # <<>> /\ Len(tt) = n + 1 /\ n \in Nat
        /\ \A i \in 1 .. n : tt[i] = ss[i]
        /\ tt[n + 1] = x
    BY AppendProperties
  <1> HIDE DEF tt
  <1>2. PICK g \in [1 .. Len(tt) -> Seq(Byte)] :
              /\ g[1] = tt[1]
              /\ \A i \in 2 .. Len(tt) : g[i] = g[i - 1] \o tt[i]
              /\ FlattenSeq(tt) = g[Len(tt)]
    BY <1>1, FlattenValues
  <1>3. CASE ss = <<>>
    <2>1. n = 0 /\ FlattenSeq(ss) = <<>>
      BY <1>3 DEF FlattenSeq
    <2>2. FlattenSeq(tt) = x
      BY <1>1, <1>2, <2>1
    <2>3. <<>> \in Seq(Byte) /\ <<>> \o x = x
      BY ConcatEmptySeq, EmptySeq
    <2> QED BY <2>1, <2>2, <2>3 DEF tt
  <1>4. CASE ss # <<>>
    <2>1. PICK f \in [1 .. n -> Seq(Byte)] :
              /\ f[1] = ss[1]
              /\ \A i \in 2 .. n : f[i] = f[i - 1] \o ss[i]
              /\ FlattenSeq(ss) = f[n]
      BY <1>4, FlattenValues
    <2>2. n \in Nat \ {0}
      BY <1>1, <1>4, EmptySeq
    <2> DEFINE E == {i \in 0 .. n : i # 0 => f[i] = g[i]}
    <2>3. 0 \in E
      BY <2>2
    <2>4. ASSUME NEW i \in 0 .. n - 1, i \in E PROVE i + 1 \in E
      <3>1. /\ i + 1 \in 1 .. n /\ i + 1 \in 0 .. n /\ (i + 1) - 1 = i /\ i \in Nat
            /\ i + 1 \in 1 .. Len(tt)
        BY <1>1, <2>2
      <3>2. CASE i = 0
        <4>1. ss[1] = tt[1]
          BY <1>1, <2>2
        <4>2. f[i + 1] = ss[1] /\ g[i + 1] = tt[1]
          BY <1>2, <2>1, <3>2
        <4> QED BY <3>1, <4>1, <4>2
      <3>3. CASE i # 0
        <4>1. i + 1 \in 2 .. n /\ i + 1 \in 2 .. Len(tt)
          BY <1>1, <3>1, <3>3
        <4>2. f[i + 1] = f[i] \o ss[i + 1] /\ g[i + 1] = g[i] \o tt[i + 1]
          BY <1>2, <2>1, <3>1, <4>1
        <4>3. f[i] = g[i]
          BY <2>4, <3>3
        <4>4. tt[i + 1] = ss[i + 1]
          BY <1>1, <3>1
        <4> QED BY <3>1, <4>2, <4>3, <4>4
      <3> QED BY <3>2, <3>3
    <2>5. 0 .. n \subseteq E
      <3> HIDE DEF E, n
      <3> QED BY <1>1, <2>3, <2>4, InductionUpTo
    <2>6. f[n] = g[n] /\ f[n] \in Seq(Byte)
      <3>1. n \in 0 .. n /\ n # 0 /\ n \in 1 .. n
        BY <2>2
      <3> HIDE DEF n
      <3> QED BY <2>1, <2>5, <3>1, Zenon
    <2>7. g[n + 1] = g[n] \o x
      <3>1. n + 1 \in 2 .. Len(tt) /\ (n + 1) - 1 = n
        BY <1>1, <2>2
      <3> QED BY <1>1, <1>2, <3>1
    <2> QED BY <1>1, <1>2, <2>1, <2>6, <2>7 DEF tt
  <1> QED BY <1>3, <1>4

(* What encode_envelope returns. *)
LEMMA EncodeType ==
    ASSUME NEW e \in Seq(Byte)
    PROVE  /\ encode_envelope(e) \in Seq(Byte)
           /\ Len(encode_envelope(e)) = LENGTH_PREFIX_LEN + Len(e)
           /\ \A i \in 1 .. LENGTH_PREFIX_LEN : encode_envelope(e)[i] = ToBytes(Len(e))[i]
           /\ \A i \in 1 .. Len(e) : encode_envelope(e)[LENGTH_PREFIX_LEN + i] = e[i]
  <1> DEFINE L == LENGTH_PREFIX_LEN
             t == ToBytes(Len(e))
  <1>1. L \in Nat /\ Len(e) \in Nat /\ t \in Seq(Byte) /\ Len(t) = L
    BY ToBytesType, EnvelopeAssumption
  <1> HIDE DEF t
  <1>2. /\ t \o e \in Seq(Byte) /\ Len(t \o e) = L + Len(e)
        /\ \A i \in 1 .. L + Len(e) : (t \o e)[i] = IF i <= L THEN t[i] ELSE e[i - L]
    <2>1. /\ t \o e \in Seq(Byte) /\ Len(t \o e) = Len(t) + Len(e)
          /\ \A i \in 1 .. Len(t) + Len(e) :
                (t \o e)[i] = IF i <= Len(t) THEN t[i] ELSE e[i - Len(t)]
      BY <1>1, ConcatProperties, Zenon
    <2> QED BY <1>1, <2>1, Zenon
  <1>3. \A i \in 1 .. L : (t \o e)[i] = t[i]
    BY <1>1, <1>2
  <1>4. ASSUME NEW i \in 1 .. Len(e) PROVE (t \o e)[L + i] = e[i]
    <2>1. L + i \in 1 .. L + Len(e) /\ ~(L + i <= L) /\ (L + i) - L = i
      BY <1>1
    <2> QED BY <1>2, <2>1
  <1> QED BY <1>2, <1>3, <1>4 DEF encode_envelope, t

LEMMA EncodedNone == Encoded(<<>>) = <<>>
  BY DEF Encoded, FlattenSeq

LEMMA EncodedAppend ==
    ASSUME NEW es \in Seq(Seq(Byte)), NEW e \in Seq(Byte)
    PROVE  /\ Encoded(es) \in Seq(Byte)
           /\ Encoded(Append(es, e)) = Encoded(es) \o encode_envelope(e)
  <1> DEFINE ss == [i \in 1 .. Len(es) |-> encode_envelope(es[i])]
             x == encode_envelope(e)
             ff == Append(es, e)
             tt == [i \in 1 .. Len(ff) |-> encode_envelope(ff[i])]
  <1>1. \A i \in 1 .. Len(es) : encode_envelope(es[i]) \in Seq(Byte)
    BY ElementOfSeq, EncodeType
  <1>2. ss \in Seq(Seq(Byte)) /\ Len(ss) = Len(es) /\ Len(es) \in Nat /\ x \in Seq(Byte)
    BY <1>1, EncodeType
  <1>3. /\ Len(ff) = Len(es) + 1
        /\ \A i \in 1 .. Len(es) : ff[i] = es[i]
        /\ ff[Len(es) + 1] = e
    BY AppendProperties
  <1> HIDE DEF ff
  <1>4. tt = Append(ss, x)
    <2>1. /\ Append(ss, x) \in Seq(Seq(Byte)) /\ Len(Append(ss, x)) = Len(es) + 1
          /\ \A i \in 1 .. Len(es) : Append(ss, x)[i] = ss[i]
          /\ Append(ss, x)[Len(es) + 1] = x
      <3> HIDE DEF ss, x
      <3> QED BY <1>2, AppendProperties
    <2>2. \A i \in 1 .. Len(es) + 1 : tt[i] = Append(ss, x)[i]
      <3> SUFFICES ASSUME NEW i \in 1 .. Len(es) + 1 PROVE tt[i] = Append(ss, x)[i]
        OBVIOUS
      <3>1. CASE i \in 1 .. Len(es)
        <4>1. tt[i] = encode_envelope(es[i]) /\ ss[i] = encode_envelope(es[i])
          BY <1>3, <3>1
        <4> QED BY <2>1, <3>1, <4>1
      <3>2. CASE i = Len(es) + 1
        BY <1>2, <1>3, <2>1, <3>2
      <3> QED BY <1>2, <3>1, <3>2
    <2>3. tt \in Seq(Seq(Byte)) /\ Len(tt) = Len(es) + 1
      <3>1. \A i \in 1 .. Len(ff) : encode_envelope(ff[i]) \in Seq(Byte)
        <4>1. ASSUME NEW i \in 1 .. Len(ff) PROVE ff[i] \in Seq(Byte)
          <5>1. CASE i \in 1 .. Len(es)
            BY <1>3, <5>1, ElementOfSeq
          <5>2. CASE i = Len(es) + 1
            BY <1>3, <5>2
          <5> QED BY <1>2, <1>3, <5>1, <5>2
        <4> QED BY <4>1, EncodeType
      <3> QED BY <1>2, <1>3, <3>1
    <2> HIDE DEF tt, ss, x
    <2> QED BY <2>1, <2>2, <2>3, SeqEqual
  <1>5. FlattenSeq(ss) \in Seq(Byte) /\ FlattenSeq(Append(ss, x)) = FlattenSeq(ss) \o x
    <2> HIDE DEF ss, x
    <2> QED BY <1>2, FlattenAppend
  <1> QED BY <1>4, <1>5 DEF Encoded, ff

-----------------------------------------------------------------------------
(* A frame that decode_envelope takes from the buffer is one that           *)
(* encode_envelope would have written, and drain leaves what follows it.    *)
LEMMA FrameIsEncoded ==
    ASSUME NEW b \in Seq(Byte), decode_envelope(b).kind = "Frame"
    PROVE  LET e == decode_envelope(b).envelope IN
           e \in Seq(Byte) /\ Drain(b, e) \in Seq(Byte) /\ b = encode_envelope(e) \o Drain(b, e)
  <1> DEFINE e == decode_envelope(b).envelope
             L == LENGTH_PREFIX_LEN
             total == L + Len(e)
  <1>1. /\ e \in Seq(Byte) /\ total <= Len(b) /\ Len(e) = Prefix(b)
        /\ e = SubSeq(b, L + 1, total)
    BY DecodeReturns
  <1>2. L \in Nat \ {0} /\ Len(e) \in Nat /\ Len(b) \in Nat
    BY <1>1, EnvelopeAssumption
  <1> HIDE DEF e
  <1> DEFINE p == SubSeq(b, 1, L)
             d == SubSeq(b, total + 1, Len(b))
  <1>3. p \in Seq(Byte) /\ Len(p) = L /\ d \in Seq(Byte)
    BY <1>1, <1>2
  <1>4. ToBytes(Len(e)) = p
    <2>1. Len(e) = FromBytes(p)
      BY <1>1 DEF Prefix
    <2> HIDE DEF p
    <2> QED BY <1>3, <2>1, PrefixRoundTrip
  <1>5. p \o e = SubSeq(b, 1, total)
    <2>1. 1 \in 1 .. Len(b) + 1 /\ L \in 1 - 1 .. Len(b) /\ total \in L .. Len(b)
      BY <1>1, <1>2
    <2>2. SubSeq(b, 1, L) \o SubSeq(b, L + 1, total) = SubSeq(b, 1, total)
      <3> HIDE DEF total
      <3> QED BY <2>1, ConcatAdjacentSubSeq
    <2> QED BY <1>1, <2>2
  <1>6. SubSeq(b, 1, total) \o d = b
    <2>1. 1 \in 1 .. Len(b) + 1 /\ total \in 1 - 1 .. Len(b) /\ Len(b) \in total .. Len(b)
      BY <1>1, <1>2
    <2>2. SubSeq(b, 1, total) \o SubSeq(b, total + 1, Len(b)) = SubSeq(b, 1, Len(b))
      <3> HIDE DEF total
      <3> QED BY <2>1, ConcatAdjacentSubSeq
    <2> QED BY <2>2, SubSeqFull
  <1>7. Drain(b, e) = d
    BY DEF Drain
  <1> HIDE DEF p, d
  <1>8. b = encode_envelope(e) \o Drain(b, e)
    BY <1>4, <1>5, <1>6, <1>7 DEF encode_envelope
  <1> QED BY <1>1, <1>3, <1>7, <1>8 DEF e

(* The envelopes returned are sequences of bytes. *)
OutTypeOK == out \in Seq(Seq(Byte))

LEMMA DecodeDelivers ==
    ASSUME StreamInv, OutTypeOK, DeliveredIsSent, Decode
    PROVE  OutTypeOK' /\ DeliveredIsSent'
  <1> DEFINE o == decode_envelope(buf)
             e == o.envelope
  <1>1. buf \in Seq(Byte) /\ UNCHANGED <<wire, arrived>>
    BY DEF StreamInv, StreamTypeOK, Decode
  <1>2. CASE o.kind # "Frame"
    <2>1. UNCHANGED <<buf, out>>
      BY <1>2 DEF Decode
    <2> QED BY <1>1, <2>1 DEF OutTypeOK, DeliveredIsSent
  <1>3. CASE o.kind = "Frame"
    <2>1. buf' = Drain(buf, e) /\ out' = Append(out, e)
      BY <1>3 DEF Decode
    <2>2. e \in Seq(Byte) /\ Drain(buf, e) \in Seq(Byte) /\ buf = encode_envelope(e) \o Drain(buf, e)
      BY <1>1, <1>3, FrameIsEncoded
    <2> HIDE DEF o, e
    <2>3. Encoded(out) \in Seq(Byte) /\ Encoded(out') = Encoded(out) \o encode_envelope(e)
      BY <2>1, <2>2, EncodedAppend DEF OutTypeOK
    <2>4. encode_envelope(e) \in Seq(Byte)
      BY <2>2, EncodeType
    <2>5. Encoded(out') \o buf' = Encoded(out) \o buf
      <3>1. (Encoded(out) \o encode_envelope(e)) \o Drain(buf, e)
              = Encoded(out) \o (encode_envelope(e) \o Drain(buf, e))
        BY <2>2, <2>3, <2>4, ConcatAssociative
      <3> QED BY <2>1, <2>2, <2>3, <3>1, Zenon
    <2>6. OutTypeOK'
      BY <2>1, <2>2, AppendProperties DEF OutTypeOK
    <2> QED BY <1>1, <2>5, <2>6 DEF DeliveredIsSent
  <1> QED BY <1>2, <1>3

LEMMA ReadDelivers ==
    ASSUME NEW n \in 1 .. READ_CHUNK, StreamInv, OutTypeOK, DeliveredIsSent, Read(n)
    PROVE  OutTypeOK' /\ DeliveredIsSent'
  <1> DEFINE chunk == SubSeq(wire, arrived + 1, arrived + n)
  <1>1. /\ buf \in Seq(Byte) /\ wire \in Seq(Byte) /\ arrived \in 0 .. Len(wire)
        /\ n \in Nat /\ arrived + n <= Len(wire)
    BY EnvelopeAssumption DEF StreamInv, StreamTypeOK, Read
  <1>2. buf' = buf \o chunk /\ arrived' = arrived + n /\ UNCHANGED <<wire, out>>
    BY DEF Read
  <1>3. chunk \in Seq(Byte)
    BY <1>1
  <1>4. SubSeq(wire, 1, arrived) \o chunk = SubSeq(wire, 1, arrived + n)
    <2>1. /\ 1 \in 1 .. Len(wire) + 1 /\ arrived \in 1 - 1 .. Len(wire)
          /\ arrived + n \in arrived .. Len(wire)
      BY <1>1
    <2> QED BY <1>1, <2>1, ConcatAdjacentSubSeq
  <1> HIDE DEF chunk
  <1>5. Encoded(out) \in Seq(Byte)
    BY <1>1, EncodedAppend DEF OutTypeOK
  <1>6. (Encoded(out) \o buf) \o chunk = Encoded(out) \o (buf \o chunk)
    <2>1. buf \in Seq(Byte)
      BY <1>1
    <2> DEFINE sent == Encoded(out)
    <2>2. sent \in Seq(Byte)
      BY <1>5
    <2> HIDE DEF sent
    <2>3. (sent \o buf) \o chunk = sent \o (buf \o chunk)
      BY <1>3, <2>1, <2>2, ConcatAssociative
    <2> QED BY <2>3 DEF sent
  <1>7. SubSeq(wire', 1, arrived') = Encoded(out') \o buf'
    BY <1>2, <1>4, <1>6, Zenon DEF DeliveredIsSent
  <1> QED BY <1>2, <1>7 DEF DeliveredIsSent, OutTypeOK

LEMMA Delivered == Spec => [](OutTypeOK /\ DeliveredIsSent)
  <1>1. Init => OutTypeOK /\ DeliveredIsSent
    <2> SUFFICES ASSUME Init PROVE OutTypeOK /\ DeliveredIsSent
      OBVIOUS
    <2>1. arrived = 0 /\ buf = <<>> /\ out = <<>>
      BY DEF Init
    <2>2. SubSeq(wire, 1, 0) = <<>>
      BY SubSeqEmpty
    <2>3. <<>> \o <<>> = <<>>
      BY ConcatEmptySeq, EmptySeq
    <2>4. out \in Seq(Seq(Byte))
      BY <2>1, EmptySeq
    <2> QED BY <2>1, <2>2, <2>3, <2>4, EncodedNone DEF OutTypeOK, DeliveredIsSent
  <1>2. StreamInv /\ OutTypeOK /\ DeliveredIsSent /\ [Next]_vars => OutTypeOK' /\ DeliveredIsSent'
    <2> SUFFICES ASSUME StreamInv, OutTypeOK, DeliveredIsSent, [Next]_vars
                 PROVE  OutTypeOK' /\ DeliveredIsSent'
      OBVIOUS
    <2>1. CASE Decode
      BY <2>1, DecodeDelivers
    <2>2. CASE \E n \in 1 .. READ_CHUNK : Read(n)
      BY <2>2, ReadDelivers
    <2>3. CASE ReadEof \/ ReadFails \/ Handle \/ UNCHANGED vars
      <3>1. UNCHANGED <<wire, arrived, buf, out>>
        BY <2>3 DEF ReadEof, ReadFails, Handle, vars
      <3> QED BY <3>1 DEF OutTypeOK, DeliveredIsSent
    <2> QED BY <2>1, <2>2, <2>3 DEF Next
  <1> QED BY <1>1, <1>2, StreamCorrect, PTL DEF Spec

(* For every stream and every way it is cut into chunks, the bytes read are *)
(* the encodings of the envelopes that were handed on, in order, and then   *)
(* the buffer (read_envelope, read_one_envelope, decode_envelope and the    *)
(* drain of what it consumed).                                              *)
THEOREM DeliveredAsSent == Spec => []DeliveredIsSent
  BY Delivered, PTL

-----------------------------------------------------------------------------
(* Peers that write envelopes *)

(* What is left of a smaller number is smaller. *)
LEMMA DivMonotone ==
    ASSUME NEW x \in Nat, NEW y \in Nat, x <= y, NEW b \in Nat \ {0}
    PROVE  x \div b <= y \div b
  OBVIOUS

LEMMA DivModBase ==
    ASSUME NEW x \in Nat
    PROVE  (x \div BASE) * BASE + (x % BASE) = x
  BY EnvelopeAssumption

(* The prefix of a frame within the limits announces its length. *)
LEMMA LengthFits ==
    ASSUME NEW n \in 0 .. MAX_FRAME_LEN
    PROVE  FromBytes(ToBytes(n)) = n
  <1> DEFINE L == LENGTH_PREFIX_LEN
             t == ToBytes(n)
  <1>0. L \in Nat \ {0} /\ MAX_FRAME_LEN \in Nat /\ n \in Nat /\ BASE \in Nat \ {0}
    BY EnvelopeAssumption
  <1>1. PICK r \in [0 .. L -> Nat] :
           /\ r[0] = MAX_FRAME_LEN /\ r[L] = 0
           /\ \A k \in 1 .. L : r[k] = r[k - 1] \div BASE
    <2>1. PICK s \in [1 .. L -> Byte] : FromBytes(s) = MAX_FRAME_LEN
      BY PrefixAssumption
    <2>2. s \in Seq(Byte) /\ Len(s) = L
      BY <1>0, <2>1
    <2> QED BY <2>1, <2>2, PrefixRoundTrip
  <1>2. PICK q \in [0 .. L -> Nat] :
           /\ q[0] = n
           /\ \A k \in 1 .. L : q[k] = q[k - 1] \div BASE
           /\ t = [i \in 1 .. L |-> q[L - i] % BASE]
    BY <1>0, ToBytesValues
  <1>3. q[L] = 0
    <2> DEFINE E == {k \in 0 .. L : q[k] <= r[k]}
    <2>1. 0 \in E
      BY <1>0, <1>1, <1>2
    <2>2. ASSUME NEW k \in 0 .. L - 1, k \in E PROVE k + 1 \in E
      <3>1. k + 1 \in 1 .. L /\ (k + 1) - 1 = k /\ k + 1 \in 0 .. L /\ k \in 0 .. L
        BY <1>0
      <3>2. q[k + 1] = q[k] \div BASE /\ r[k + 1] = r[k] \div BASE
        BY <1>1, <1>2, <3>1
      <3>3. q[k] \in Nat /\ r[k] \in Nat /\ q[k] <= r[k]
        BY <2>2, <3>1
      <3>4. q[k] \div BASE <= r[k] \div BASE
        BY <1>0, <3>3, DivMonotone
      <3> QED BY <3>1, <3>2, <3>4
    <2>3. 0 .. L \subseteq E
      <3> HIDE DEF E
      <3> QED BY <1>0, <2>1, <2>2, InductionUpTo
    <2>4. L \in 0 .. L
      BY <1>0
    <2>5. q[L] <= r[L] /\ q[L] \in Nat
      BY <2>3, <2>4
    <2> QED BY <1>1, <2>5
  <1>4. t \in Seq(Byte) /\ Len(t) = L
    BY <1>0, ToBytesType
  <1>5. \A i \in 1 .. L : t[i] = q[L - i] % BASE
    BY <1>2
  <1> HIDE DEF t
  <1>6. PICK v \in [0 .. L -> Nat] :
           /\ v[0] = 0
           /\ \A i \in 1 .. L : v[i] = v[i - 1] * BASE + t[i]
           /\ FromBytes(t) = v[L]
    BY <1>4, FromBytesValues
  <1> DEFINE F == {i \in 0 .. L : v[i] = q[L - i]}
  <1>7. 0 \in F
    BY <1>0, <1>3, <1>6
  <1>8. ASSUME NEW i \in 0 .. L - 1, i \in F PROVE i + 1 \in F
    <2> DEFINE x == q[L - (i + 1)]
    <2>1. /\ i + 1 \in 1 .. L /\ (i + 1) - 1 = i /\ i + 1 \in 0 .. L
          /\ L - i \in 1 .. L /\ (L - i) - 1 = L - (i + 1) /\ L - (i + 1) \in 0 .. L
      BY <1>0
    <2>2. v[i + 1] = v[i] * BASE + t[i + 1]
      BY <1>6, <2>1
    <2>3. t[i + 1] = x % BASE
      BY <1>5, <2>1
    <2>4. v[i] = x \div BASE
      BY <1>2, <1>8, <2>1
    <2>5. x \in Nat
      BY <2>1
    <2> HIDE DEF x
    <2>6. v[i + 1] = x
      BY <2>2, <2>3, <2>4, <2>5, DivModBase
    <2> QED BY <2>1, <2>6 DEF x
  <1>9. 0 .. L \subseteq F
    <2> HIDE DEF F
    <2> QED BY <1>0, <1>7, <1>8, InductionUpTo
  <1>10. v[L] = q[0]
    <2>1. L \in 0 .. L /\ L - L = 0
      BY <1>0
    <2> QED BY <1>9, <2>1
  <1> QED BY <1>2, <1>6, <1>10 DEF t

(* As long as the buffer holds the beginning of an accepted envelope's      *)
(* encoding, the decoder waits; then it returns that envelope.              *)
LEMMA DecodeStart ==
    ASSUME NEW e \in Seq(Byte), Accepted(e), NEW b \in Seq(Byte),
           \A i \in 1 .. Len(b) :
              i <= LENGTH_PREFIX_LEN + Len(e) => b[i] = encode_envelope(e)[i]
    PROVE  decode_envelope(b) =
             IF Len(b) < LENGTH_PREFIX_LEN + Len(e) THEN Outcome("Incomplete", NoEnvelope)
             ELSE Outcome("Frame", e)
  <1> DEFINE L == LENGTH_PREFIX_LEN
             enc == encode_envelope(e)
  <1>0. /\ L \in Nat \ {0} /\ Len(e) \in MIN_FRAME_LEN .. MAX_FRAME_LEN
        /\ MIN_FRAME_LEN \in Nat \ {0} /\ Len(b) \in Nat /\ Len(e) \in Nat
        /\ MAX_FRAME_LEN \in Nat
    BY EnvelopeAssumption DEF Accepted, MIN_FRAME_LEN
  <1>1. /\ \A i \in 1 .. L : enc[i] = ToBytes(Len(e))[i]
        /\ \A i \in 1 .. Len(e) : enc[L + i] = e[i]
    BY EncodeType
  <1> HIDE DEF enc
  <1>2. CASE Len(b) < L
    BY <1>0, <1>2 DEF decode_envelope
  <1>3. CASE Len(b) >= L
    <2>1. SubSeq(b, 1, L) = ToBytes(Len(e))
      <3>1. ToBytes(Len(e)) \in Seq(Byte) /\ Len(ToBytes(Len(e))) = L
        BY <1>0, ToBytesType
      <3>2. /\ SubSeq(b, 1, L) \in Seq(Byte) /\ Len(SubSeq(b, 1, L)) = L
            /\ \A i \in 1 .. L : SubSeq(b, 1, L)[i] = b[i]
        BY <1>0, <1>3
      <3>3. \A i \in 1 .. L : i \in 1 .. Len(b) /\ i <= L + Len(e)
        BY <1>0, <1>3
      <3>4. \A i \in 1 .. L : b[i] = ToBytes(Len(e))[i]
        BY <1>1, <3>3 DEF enc
      <3> QED BY <3>1, <3>2, <3>4, SeqEqual
    <2>2. Prefix(b) = Len(e)
      <3>1. Len(e) \in 0 .. MAX_FRAME_LEN
        BY <1>0
      <3> QED BY <2>1, <3>1, LengthFits DEF Prefix
    <2>3. InLimits(Prefix(b), b)
      BY <1>0, <2>2 DEF InLimits
    <2>4. CASE Len(b) < L + Len(e)
      BY <1>0, <1>3, <2>2, <2>3, <2>4 DEF decode_envelope
    <2>5. CASE Len(b) >= L + Len(e)
      <3>1. ASSUME NEW i \in 1 .. Len(e) PROVE b[L + i] = e[i]
        <4>1. L + i \in 1 .. Len(b) /\ L + i <= L + Len(e)
          BY <1>0, <2>5
        <4> QED BY <1>1, <4>1 DEF enc
      <3>2. b[L + 1] = PROTOCOL_VERSION
        BY <1>0, <3>1 DEF Accepted
      <3>3. SubSeq(b, L + 1, L + Len(e)) = e
        <4>1. /\ SubSeq(b, L + 1, L + Len(e)) \in Seq(Byte)
              /\ Len(SubSeq(b, L + 1, L + Len(e))) = Len(e)
              /\ \A i \in 1 .. Len(e) : SubSeq(b, L + 1, L + Len(e))[i] = b[L + i]
          BY <1>0, <2>5
        <4> QED BY <3>1, <4>1, SeqEqual
      <3>4. decode_envelope(b) = Outcome("Frame", SubSeq(b, L + 1, L + Len(e)))
        BY <1>0, <1>3, <2>2, <2>3, <2>5, <3>2 DEF decode_envelope
      <3>5. ~(Len(b) < L + Len(e))
        BY <1>0, <2>5
      <3>6. decode_envelope(b) = Outcome("Frame", e)
        BY <3>3, <3>4
      <3> QED BY <3>5, <3>6, Zenon
    <2> QED BY <1>0, <2>4, <2>5
  <1> QED BY <1>0, <1>2, <1>3

(* The envelopes up to the one numbered m + 1 are those up to m, and it. *)
LEMMA EncodedNext ==
    ASSUME NEW es \in Seq(Seq(Byte)), NEW m \in 0 .. Len(es) - 1
    PROVE  LET a == Encoded(SubSeq(es, 1, m))
               x == encode_envelope(es[m + 1])
               b == Encoded(SubSeq(es, 1, m + 1))
           IN  /\ a \in Seq(Byte) /\ x \in Seq(Byte) /\ b \in Seq(Byte)
               /\ Len(b) = Len(a) + Len(x)
               /\ \A i \in 1 .. Len(a) : b[i] = a[i]
               /\ \A i \in 1 .. Len(x) : b[Len(a) + i] = x[i]
  <1> DEFINE s == SubSeq(es, 1, m)
             e == es[m + 1]
             a == Encoded(s)
             x == encode_envelope(e)
             b == Encoded(SubSeq(es, 1, m + 1))
  <1>0. m \in Nat /\ Len(es) \in Nat /\ m + 1 \in 1 .. Len(es) /\ 1 \in 1 .. Len(es)
    OBVIOUS
  <1>1. s \in Seq(Seq(Byte)) /\ e \in Seq(Byte)
    BY <1>0, ElementOfSeq
  <1>2. SubSeq(es, 1, m + 1) = Append(s, e)
    <2>1. SubSeq(es, 1, m + 1) = SubSeq(es, 1, (m + 1) - 1) \o <<es[m + 1]>>
      <3>1. m + 1 \in 1 .. Len(es) /\ 1 \in 1 .. Len(es)
        BY <1>0
      <3> QED BY <3>1, SubSeqRecursiveSecond
    <2>2. (m + 1) - 1 = m
      BY <1>0
    <2>3. Append(s, e) = s \o <<e>>
      <3> HIDE DEF s, e
      <3> QED BY <1>1, AppendIsConcat
    <2> QED BY <2>1, <2>2, <2>3, Zenon
  <1>3. a \in Seq(Byte) /\ b = a \o x
    <2> HIDE DEF s, e
    <2> QED BY <1>1, <1>2, EncodedAppend
  <1>4. x \in Seq(Byte)
    BY <1>1, EncodeType
  <1> HIDE DEF a, x, b
  <1>5. /\ b \in Seq(Byte) /\ Len(b) = Len(a) + Len(x)
        /\ \A i \in 1 .. Len(a) + Len(x) : b[i] = IF i <= Len(a) THEN a[i] ELSE x[i - Len(a)]
    BY <1>3, <1>4, ConcatProperties, Zenon
  <1>6. Len(a) \in Nat /\ Len(x) \in Nat
    BY <1>3, <1>4
  <1>7. \A i \in 1 .. Len(a) : b[i] = a[i]
    BY <1>5, <1>6
  <1>8. ASSUME NEW i \in 1 .. Len(x) PROVE b[Len(a) + i] = x[i]
    <2>1. Len(a) + i \in 1 .. Len(a) + Len(x) /\ ~(Len(a) + i <= Len(a)) /\ (Len(a) + i) - Len(a) = i
      BY <1>6
    <2> QED BY <1>5, <2>1
  <1> QED BY <1>3, <1>4, <1>5, <1>7, <1>8 DEF a, x, b, s, e

(* Where the encoding of an envelope begins in what its peer writes. *)
LEMMA EncodedAt ==
    ASSUME NEW es \in Seq(Seq(Byte)), NEW k \in 0 .. Len(es) - 1
    PROVE  LET p == Len(Encoded(SubSeq(es, 1, k)))
               x == encode_envelope(es[k + 1])
           IN  /\ p \in Nat
               /\ Encoded(es) \in Seq(Byte)
               /\ p + Len(x) <= Len(Encoded(es))
               /\ \A i \in 1 .. Len(x) : Encoded(es)[p + i] = x[i]
  <1> DEFINE A(m) == Encoded(SubSeq(es, 1, m))
             X(m) == encode_envelope(es[m + 1])
             p == Len(A(k))
             x == X(k)
             n == Len(es) - (k + 1)
             T == {j \in 0 .. n :
                     /\ p + Len(x) <= Len(A(k + 1 + j))
                     /\ \A i \in 1 .. Len(x) : A(k + 1 + j)[p + i] = x[i]}
  <1>0. k \in Nat /\ n \in Nat /\ Len(es) \in Nat /\ Len(es) - 1 >= k
    OBVIOUS
  <1>1. \A m \in 0 .. Len(es) - 1 :
           /\ A(m) \in Seq(Byte) /\ X(m) \in Seq(Byte) /\ A(m + 1) \in Seq(Byte)
           /\ Len(A(m + 1)) = Len(A(m)) + Len(X(m))
           /\ \A i \in 1 .. Len(A(m)) : A(m + 1)[i] = A(m)[i]
           /\ \A i \in 1 .. Len(X(m)) : A(m + 1)[Len(A(m)) + i] = X(m)[i]
    BY EncodedNext
  <1> HIDE DEF A, X
  <1>2. p \in Nat /\ Len(x) \in Nat
    BY <1>1
  <1>3. 0 \in T
    <2>1. k + 1 + 0 = k + 1 /\ 0 \in 0 .. n
      BY <1>0
    <2>2. /\ p + Len(x) <= Len(A(k + 1))
          /\ \A i \in 1 .. Len(x) : A(k + 1)[p + i] = x[i]
      BY <1>1, <1>2
    <2> QED BY <2>1, <2>2
  <1>4. ASSUME NEW j \in 0 .. n - 1, j \in T PROVE j + 1 \in T
    <2> DEFINE m == k + 1 + j
    <2>1. m \in 0 .. Len(es) - 1 /\ k + 1 + (j + 1) = m + 1 /\ j + 1 \in 0 .. n
      BY <1>0
    <2>2. p + Len(x) <= Len(A(m)) /\ \A i \in 1 .. Len(x) : A(m)[p + i] = x[i]
      BY <1>4
    <2> HIDE DEF m, p, x
    <2>3. Len(A(m)) \in Nat /\ Len(X(m)) \in Nat /\ Len(A(m + 1)) = Len(A(m)) + Len(X(m))
      BY <1>1, <2>1
    <2>4. p + Len(x) <= Len(A(m + 1))
      BY <1>2, <2>2, <2>3
    <2>5. ASSUME NEW i \in 1 .. Len(x) PROVE A(m + 1)[p + i] = x[i]
      <3>1. p + i \in 1 .. Len(A(m))
        BY <1>2, <2>2, <2>3
      <3>2. A(m + 1)[p + i] = A(m)[p + i]
        BY <1>1, <2>1, <3>1
      <3> QED BY <2>2, <3>2
    <2> QED BY <2>1, <2>4, <2>5
  <1>5. n \in T
    <2> HIDE DEF T
    <2>1. 0 .. n \subseteq T
      BY <1>0, <1>3, <1>4, InductionUpTo
    <2>2. n \in 0 .. n
      BY <1>0
    <2> QED BY <2>1, <2>2
  <1>6. k + 1 + n = Len(es)
    BY <1>0
  <1>7. A(Len(es)) = Encoded(es)
    BY SubSeqFull DEF A
  <1>8. Encoded(es) \in Seq(Byte)
    <2>1. <<>> \in Seq(Byte)
      BY EmptySeq
    <2> QED BY <2>1, EncodedAppend
  <1>9. p + Len(x) <= Len(A(Len(es))) /\ \A i \in 1 .. Len(x) : A(Len(es))[p + i] = x[i]
    BY <1>5, <1>6
  <1> QED BY <1>2, <1>7, <1>8, <1>9 DEF A, X

(* The peer writes the accepted envelopes es, one after the other. *)
Peer(es) == (\A i \in 1 .. Len(es) : Accepted(es[i])) /\ wire = Encoded(es)

FramingErrors == {"UndersizedFrame", "OversizedFrame", "VersionMismatch"}

(* What makes the end of such a stream true: all along, what was returned   *)
(* is what the peer sent first, and nothing looked like a framing error.    *)
FollowsPeer ==
    \A es \in Seq(Seq(Byte)) :
        Peer(es) => /\ Len(out) <= Len(es)
                    /\ out = SubSeq(es, 1, Len(out))
                    /\ st \notin FramingErrors

(* The buffer of a loop that follows its peer holds the beginning of what   *)
(* comes next: nothing if all was returned, else the next envelope, which   *)
(* the decoder returns once it is whole.                                    *)
LEMMA BufferIsNext ==
    ASSUME StreamInv, OutTypeOK, DeliveredIsSent, FollowsPeer,
           NEW es \in Seq(Seq(Byte)), Peer(es)
    PROVE  LET e == es[Len(out) + 1]
               total == LENGTH_PREFIX_LEN + Len(e)
           IN  \/ out = es /\ buf = <<>>
               \/ /\ Len(out) < Len(es)
                  /\ e \in Seq(Byte)
                  /\ decode_envelope(buf) =
                        IF Len(buf) < total THEN Outcome("Incomplete", NoEnvelope)
                        ELSE Outcome("Frame", e)
                  /\ arrived = Len(wire) => ~(Len(buf) < total)
  <1> DEFINE k == Len(out)
             p == Len(Encoded(out))
             e == es[k + 1]
             total == LENGTH_PREFIX_LEN + Len(e)
  <1>0. /\ k \in Nat /\ Len(es) \in Nat /\ k <= Len(es) /\ out = SubSeq(es, 1, k)
        /\ LENGTH_PREFIX_LEN \in Nat
    BY EnvelopeAssumption DEF OutTypeOK, FollowsPeer
  <1>1. /\ wire \in Seq(Byte) /\ buf \in Seq(Byte) /\ arrived \in 0 .. Len(wire)
        /\ Len(wire) \in Nat /\ Len(buf) \in Nat
    BY DEF StreamInv, StreamTypeOK
  <1>2. Encoded(out) \in Seq(Byte) /\ p \in Nat
    <2>1. Encoded(out) \in Seq(Byte)
      BY <1>1, EncodedAppend DEF OutTypeOK
    <2> QED BY <2>1
  <1>3. arrived = p + Len(buf) /\ \A i \in 1 .. Len(buf) : wire[p + i] = buf[i]
    <2> DEFINE a == Encoded(out)
               w == SubSeq(wire, 1, arrived)
    <2>1. w = a \o buf
      BY DEF DeliveredIsSent
    <2>2. Len(w) = arrived /\ \A i \in 1 .. arrived : w[i] = wire[i]
      BY <1>1
    <2>3. a \in Seq(Byte)
      BY <1>2
    <2> HIDE DEF a, w
    <2>4. /\ Len(w) = Len(a) + Len(buf)
          /\ \A i \in 1 .. Len(a) + Len(buf) : w[i] = IF i <= Len(a) THEN a[i] ELSE buf[i - Len(a)]
      BY <1>1, <2>1, <2>3, ConcatProperties, Zenon
    <2>5. Len(a) = p /\ arrived = p + Len(buf)
      BY <2>2, <2>4 DEF a
    <2>6. ASSUME NEW i \in 1 .. Len(buf) PROVE wire[p + i] = buf[i]
      <3>1. /\ p + i \in 1 .. arrived /\ ~(p + i <= p) /\ (p + i) - p = i
        BY <1>1, <1>2, <2>5
      <3> HIDE DEF p
      <3> QED BY <2>2, <2>4, <2>5, <3>1
    <2> QED BY <2>5, <2>6
  <1>4. CASE k = Len(es)
    <2>1. out = es
      BY <1>0, <1>4, SubSeqFull
    <2>2. p = Len(wire)
      BY <2>1 DEF Peer
    <2>3. Len(buf) = 0
      BY <1>1, <1>2, <1>3, <2>2
    <2>4. buf = <<>>
      BY <1>1, <2>3, EmptySeq
    <2> QED BY <2>1, <2>4
  <1>5. CASE k < Len(es)
    <2> DEFINE x == encode_envelope(e)
    <2>1. k \in 0 .. Len(es) - 1 /\ k + 1 \in 1 .. Len(es)
      BY <1>0, <1>5
    <2>2. e \in Seq(Byte) /\ Accepted(e) /\ Len(e) \in Nat
      <3>1. e \in Seq(Byte)
        BY <2>1, ElementOfSeq
      <3> QED BY <2>1, <3>1 DEF Peer
    <2>3. Len(x) = total
      BY <2>2, EncodeType
    <2>4. p + Len(x) <= Len(wire) /\ \A i \in 1 .. Len(x) : wire[p + i] = x[i]
      <3>1. /\ Len(Encoded(SubSeq(es, 1, k))) + Len(encode_envelope(es[k + 1])) <= Len(Encoded(es))
            /\ \A i \in 1 .. Len(encode_envelope(es[k + 1])) :
                 Encoded(es)[Len(Encoded(SubSeq(es, 1, k))) + i] = encode_envelope(es[k + 1])[i]
        BY <2>1, EncodedAt
      <3>2. wire = Encoded(es)
        BY DEF Peer
      <3> QED BY <1>0, <3>1, <3>2, Zenon
    <2> HIDE DEF x, p, e
    <2>5. ASSUME NEW i \in 1 .. Len(buf), i <= total PROVE buf[i] = x[i]
      <3>1. i \in 1 .. Len(x)
        BY <1>0, <1>1, <2>2, <2>3, <2>5
      <3> QED BY <1>3, <2>4, <3>1
    <2>6. decode_envelope(buf) =
             IF Len(buf) < total THEN Outcome("Incomplete", NoEnvelope) ELSE Outcome("Frame", e)
      BY <1>1, <2>2, <2>5, DecodeStart DEF x
    <2>7. arrived = Len(wire) => ~(Len(buf) < total)
      BY <1>0, <1>1, <1>2, <1>3, <2>2, <2>3, <2>4
    <2> QED BY <1>5, <2>2, <2>6, <2>7 DEF e
  <1> QED BY <1>0, <1>4, <1>5

LEMMA DecodeFollows ==
    ASSUME StreamInv, OutTypeOK, DeliveredIsSent, FollowsPeer, Decode
    PROVE  FollowsPeer'
  <1> SUFFICES ASSUME NEW es \in Seq(Seq(Byte)), Peer(es)'
               PROVE  (/\ Len(out) <= Len(es)
                       /\ out = SubSeq(es, 1, Len(out))
                       /\ st \notin FramingErrors)'
    BY DEF FollowsPeer
  <1> DEFINE e == es[Len(out) + 1]
             total == LENGTH_PREFIX_LEN + Len(e)
             o == decode_envelope(buf)
  <1>1. Peer(es)
    BY DEF Peer, Decode
  <1>2. /\ Len(out) \in Nat /\ Len(es) \in Nat /\ Len(out) <= Len(es)
        /\ out = SubSeq(es, 1, Len(out))
    BY <1>1 DEF OutTypeOK, FollowsPeer
  <1>3. CASE o.kind = "Incomplete"
    <2>1. out' = out /\ st' = "read"
      BY <1>3 DEF Decode
    <2> QED BY <1>2, <2>1 DEF FramingErrors
  <1>4. CASE o = Outcome("Frame", e) /\ Len(out) < Len(es) /\ e \in Seq(Byte)
    <2>1. o.kind = "Frame" /\ o.envelope = e
      BY <1>4 DEF Outcome
    <2>2. out' = Append(out, e) /\ st' = "handle"
      BY <2>1 DEF Decode
    <2>3. Len(out') = Len(out) + 1
      BY <1>4, <2>2, AppendProperties DEF OutTypeOK
    <2>4. SubSeq(es, 1, Len(out) + 1) = Append(out, e)
      <3>1. Len(out) + 1 \in 1 .. Len(es) /\ 1 \in 1 .. Len(es)
        BY <1>2, <1>4
      <3>2. SubSeq(es, 1, Len(out) + 1) = SubSeq(es, 1, (Len(out) + 1) - 1) \o <<es[Len(out) + 1]>>
        BY <3>1, SubSeqRecursiveSecond
      <3>3. (Len(out) + 1) - 1 = Len(out)
        BY <1>2
      <3>4. Append(out, e) = out \o <<e>>
        <4> HIDE DEF e
        <4> QED BY <1>4, AppendIsConcat DEF OutTypeOK
      <3> QED BY <1>2, <3>2, <3>3, <3>4, Zenon
    <2>5. Len(out) + 1 <= Len(es)
      BY <1>2, <1>4
    <2> HIDE DEF e
    <2> QED BY <2>2, <2>3, <2>4, <2>5 DEF FramingErrors
  <1>5. \/ o.kind = "Incomplete"
        \/ o = Outcome("Frame", e) /\ Len(out) < Len(es) /\ e \in Seq(Byte)
    <2>1. CASE out = es /\ buf = <<>>
      <3>1. Len(buf) < LENGTH_PREFIX_LEN
        BY <2>1, EnvelopeAssumption
      <3> QED BY <3>1 DEF decode_envelope, Outcome
    <2>2. CASE /\ Len(out) < Len(es)
               /\ e \in Seq(Byte)
               /\ o = IF Len(buf) < total THEN Outcome("Incomplete", NoEnvelope)
                      ELSE Outcome("Frame", e)
      <3> HIDE DEF e, o
      <3> QED BY <2>2 DEF Outcome
    <2> QED BY <1>1, <2>1, <2>2, BufferIsNext
  <1> QED BY <1>3, <1>4, <1>5

(* The envelopes of a conversation are accepted ones. *)
LEMMA ConversationsAccepted ==
    ASSUME NEW n \in Nat, NEW es \in Conversations(n)
    PROVE  es \in Seq(Seq(Byte)) /\ \A i \in 1 .. Len(es) : Accepted(es[i])
  <1> DEFINE E == {e \in UNION {[1 .. m -> Byte] : m \in MIN_FRAME_LEN .. MAX_FRAME_LEN} :
                      e[1] = PROTOCOL_VERSION}
  <1>0. MIN_FRAME_LEN \in Nat /\ MAX_FRAME_LEN \in Nat
    BY EnvelopeAssumption DEF MIN_FRAME_LEN
  <1>1. ASSUME NEW e \in E PROVE e \in Seq(Byte) /\ Accepted(e)
    <2>1. PICK m \in MIN_FRAME_LEN .. MAX_FRAME_LEN : e \in [1 .. m -> Byte]
      BY <1>1
    <2>2. e \in Seq(Byte) /\ Len(e) = m
      BY <1>0, <2>1
    <2> QED BY <1>1, <2>1, <2>2 DEF Accepted
  <1> HIDE DEF E
  <1>2. es \in BoundedSeq(E, n \div (LENGTH_PREFIX_LEN + MIN_FRAME_LEN))
    BY DEF Conversations, E
  <1>3. \E m \in 0 .. n \div (LENGTH_PREFIX_LEN + MIN_FRAME_LEN) : es \in [1 .. m -> E]
    BY <1>2 DEF BoundedSeq, SeqOf
  <1>4. es \in Seq(E)
    BY <1>3
  <1>5. \A i \in 1 .. Len(es) : es[i] \in E
    BY <1>4, ElementOfSeq
  <1> QED BY <1>1, <1>4, <1>5

(* For every size, every stream of accepted envelopes and every way it is   *)
(* cut into chunks: no framing error is found in it, and where the peer     *)
(* closes, all of it was handled and the listener calls the end clean       *)
(* (decode_envelope against encode_envelope).                               *)
THEOREM WellFormedIsAlwaysServed == Spec => []WellFormedIsServed
  <1> DEFINE Inv == StreamInv /\ OutTypeOK /\ DeliveredIsSent
  <1>1. Init => FollowsPeer
    <2> SUFFICES ASSUME Init, NEW es \in Seq(Seq(Byte))
                 PROVE  /\ Len(out) <= Len(es)
                        /\ out = SubSeq(es, 1, Len(out))
                        /\ st \notin FramingErrors
      BY DEF FollowsPeer
    <2>1. out = <<>> /\ Len(out) = 0 /\ st = "decode"
      BY DEF Init
    <2>2. SubSeq(es, 1, 0) = <<>>
      BY SubSeqEmpty
    <2> QED BY <2>1, <2>2 DEF FramingErrors
  <1>2. Inv /\ FollowsPeer /\ [Next]_vars => FollowsPeer'
    <2> SUFFICES ASSUME Inv, FollowsPeer, [Next]_vars PROVE FollowsPeer'
      OBVIOUS
    <2>1. CASE Decode
      BY <2>1, DecodeFollows
    <2>2. CASE ~Decode
      <3>1. UNCHANGED <<wire, out>> /\ (st' \in FramingErrors => st \in FramingErrors)
        <4>1. CASE \E n \in 1 .. READ_CHUNK : Read(n)
          BY <4>1 DEF Read, FramingErrors
        <4>2. CASE ReadEof
          BY <4>2 DEF ReadEof, EofVerdict, FramingErrors
        <4>3. CASE ReadFails
          BY <4>3 DEF ReadFails, FramingErrors
        <4>4. CASE Handle
          BY <4>4 DEF Handle, AfterReply, FramingErrors
        <4>5. CASE UNCHANGED vars
          BY <4>5 DEF vars
        <4> QED BY <2>2, <4>1, <4>2, <4>3, <4>4, <4>5 DEF Next
      <3>2. \A es : Peer(es)' => Peer(es)
        BY <3>1 DEF Peer
      <3> QED BY <3>1, <3>2 DEF FollowsPeer
    <2> QED BY <2>1, <2>2
  <1>3. Inv /\ FollowsPeer => WellFormedIsServed
    <2> SUFFICES ASSUME Inv, FollowsPeer,
                        st \in FramingErrors \cup {"Eof", "MidFrame"},
                        NEW es \in Conversations(Len(wire)), wire = Encoded(es)
                 PROVE  out = es /\ st = (IF mode = "serve" THEN "Eof" ELSE "MidFrame")
      BY DEF WellFormedIsServed, FramingErrors
    <2>1. es \in Seq(Seq(Byte)) /\ Peer(es)
      <3>1. Len(wire) \in Nat
        BY DEF StreamInv, StreamTypeOK
      <3> QED BY <3>1, ConversationsAccepted DEF Peer
    <2>2. st \in {"Eof", "MidFrame"}
      BY <2>1 DEF FollowsPeer
    <2>3. /\ arrived = Len(wire)
          /\ decode_envelope(buf).kind = "Incomplete"
          /\ st = "Eof" <=> mode = "serve" /\ buf = <<>>
      BY <2>2 DEF StreamInv, EndIsTrue
    <2>4. out = es /\ buf = <<>>
      <3> DEFINE e == es[Len(out) + 1]
                 total == LENGTH_PREFIX_LEN + Len(e)
                 o == decode_envelope(buf)
      <3>1. \/ out = es /\ buf = <<>>
            \/ /\ o = IF Len(buf) < total THEN Outcome("Incomplete", NoEnvelope)
                      ELSE Outcome("Frame", e)
               /\ ~(Len(buf) < total)
        BY <2>1, <2>3, BufferIsNext
      <3>2. o.kind = "Incomplete"
        BY <2>3
      <3> HIDE DEF o, e
      <3>3. o # Outcome("Frame", e)
        BY <3>2 DEF Outcome
      <3> QED BY <3>1, <3>3, Zenon
    <2>5. mode \in {"serve", "pair"}
      BY DEF StreamInv, StreamTypeOK
    <2> QED BY <2>2, <2>3, <2>4, <2>5
  <1> QED BY <1>1, <1>2, <1>3, StreamCorrect, Delivered, PTL DEF Spec
=============================================================================
