----------------------- MODULE PairingHandshakeProofs -----------------------
(***************************************************************************)
(* Proofs about the pairing window, for every attempt budget, code space   *)
(* and clock range.                                                        *)
(***************************************************************************)
EXTENDS PairingHandshake, FiniteSetTheorems, TLAPS

(* A remainder by the (positive) code modulus is a code. *)
LEMMA CodesInRange == random_pairing_code \subseteq CodeSpace
  <1> SUFFICES ASSUME NEW raw \in Nat
               PROVE  raw % PAIRING_CODE_MODULUS \in CodeSpace
    BY DEF random_pairing_code, Samples, Offered
  <1> QED BY ModulusAssumption, SMT DEF CodeSpace

(* saturating_add stays inside u64. *)
LEMMA SaturatingAddInTime ==
    ASSUME NEW a \in Time, NEW b \in Time
    PROVE  saturating_add(a, b) \in Time
  BY TimeAssumption DEF saturating_add, Time

(* HandshakeNew starts inside the invariant (PairingHandshake::new). *)
LEMMA HandshakeInitInv == HandshakeInit => HandshakeInv
  <1> SUFFICES ASSUME HandshakeInit PROVE HandshakeInv
    OBVIOUS
  <1> QED BY AttemptsAssumption, ModulusAssumption, TimeAssumption, NoRecordAssumption
          DEF HandshakeInit, HandshakeInv, HandshakeTypeOK, PairingState, GuessBound, OneVerdict,
              PairedInTime, OpenWindowCounts, Time, CodeSpace

(* start keeps the invariant, whatever the clock says. *)
LEMMA StartInv ==
    ASSUME HandshakeInv, NEW now \in Time, NEW ttl \in Time, Start(now, ttl)
    PROVE  HandshakeInv'
  <1>1. CASE CanStart
    <2>1. code' \in CodeSpace /\ expires_at' \in Time
      BY <1>1, CodesInRange, SaturatingAddInTime DEF Start
    <2> QED
      BY <1>1, <2>1, AttemptsAssumption
      DEF Start, HandshakeInv, HandshakeTypeOK, PairingState, GuessBound, OneVerdict, PairedInTime,
          OpenWindowCounts
  <1>2. CASE ~CanStart
    BY <1>2 DEF Start, hsVars, HandshakeInv, HandshakeTypeOK, PairingState, GuessBound, OneVerdict,
                PairedInTime, OpenWindowCounts
  <1> QED BY <1>1, <1>2

(* Closing the window keeps the invariant when it counts as one verdict, or *)
(* as none if no window was open (the transitions to Idle).                 *)
LEMMA ToIdleInv ==
    ASSUME HandshakeInv, ToIdle,
           window' \in [ends : Time, compared : Nat, verdicts : Nat],
           window'.compared <= MAX_PAIRING_ATTEMPTS,
           window'.verdicts <= 1
    PROVE  HandshakeInv'
  BY AttemptsAssumption, ModulusAssumption, TimeAssumption
  DEF ToIdle, HandshakeInv, HandshakeTypeOK, PairingState, GuessBound, OneVerdict, PairedInTime,
      OpenWindowCounts, CodeSpace, Time

(* What a call's verdict adds to the observation of the window. *)
LEMMA ObserveAdds ==
    ASSUME window \in [ends : Time, compared : Nat, verdicts : Nat],
           NEW verdict, Observe(verdict)
    PROVE  /\ window' \in [ends : Time, compared : Nat, verdicts : Nat]
           /\ window'.ends = window.ends
           /\ window'.compared = IF Compares(verdict) THEN window.compared + 1
                                 ELSE window.compared
           /\ window'.verdicts = IF EndsWindow(verdict) THEN window.verdicts + 1
                                 ELSE window.verdicts
           /\ ~Compares(verdict) /\ ~EndsWindow(verdict) => window' = window
  <1> DEFINE compared == IF Compares(verdict) THEN window.compared + 1
                         ELSE window.compared
             verdicts == IF EndsWindow(verdict) THEN window.verdicts + 1
                         ELSE window.verdicts
  <1>1. compared \in Nat /\ verdicts \in Nat
    OBVIOUS
  <1> HIDE DEF compared, verdicts
  <1>2. window' = [window EXCEPT !.compared = compared, !.verdicts = verdicts]
    BY DEF Observe, compared, verdicts
  <1>3. /\ window' \in [ends : Time, compared : Nat, verdicts : Nat]
        /\ window'.ends = window.ends
        /\ window'.compared = compared
        /\ window'.verdicts = verdicts
    BY <1>1, <1>2
  <1>4. ~Compares(verdict) /\ ~EndsWindow(verdict) => window' = window
    BY <1>2 DEF compared, verdicts
  <1> QED BY <1>3, <1>4 DEF compared, verdicts

(* accept_pair keeps the invariant: one step per verdict. *)
LEMMA AcceptPairInv ==
    ASSUME HandshakeInv, NEW now \in Time, NEW offered \in Offered, NEW name \in Name,
           NEW spki \in Phone, AcceptPair(now, offered, name, spki)
    PROVE  HandshakeInv'
  <1> DEFINE verdict == AcceptVerdict(now, offered)
  <1>1. verdict \in {"NotInWindow", "Expired", "Succeeded", "TooManyAttempts",
                     "OutOfRange", "WrongCode"}
    BY DEF AcceptVerdict
  <1>2. verdict # "NotInWindow" =>
            /\ phase = "Awaiting"
            /\ window.verdicts = 0
            /\ window.compared = failed
            /\ failed < MAX_PAIRING_ATTEMPTS
    BY AttemptsAssumption
    DEF AcceptVerdict, HandshakeInv, HandshakeTypeOK, PairingState, OneVerdict, OpenWindowCounts
  <1>3. /\ window' \in [ends : Time, compared : Nat, verdicts : Nat]
        /\ window'.ends = window.ends
        /\ window'.compared = IF Compares(verdict) THEN window.compared + 1
                              ELSE window.compared
        /\ window'.verdicts = IF EndsWindow(verdict) THEN window.verdicts + 1
                              ELSE window.verdicts
    <2>1. Observe(verdict)
      BY DEF AcceptPair
    <2> QED BY <2>1, ObserveAdds DEF HandshakeInv, HandshakeTypeOK, PairingState
  <1>4. CASE verdict = "NotInWindow"
    <2>1. UNCHANGED hsVars
      BY <1>4 DEF AcceptPair
    <2>2. window' = window
      <3>1. Observe("NotInWindow")
        BY <1>4 DEF AcceptPair
      <3> QED BY <3>1, ObserveAdds DEF Compares, EndsWindow, HandshakeInv, HandshakeTypeOK, PairingState
    <2> QED
      BY <2>1, <2>2 DEF hsVars, HandshakeInv, HandshakeTypeOK, PairingState, GuessBound, OneVerdict,
                        PairedInTime, OpenWindowCounts
  <1>5. CASE verdict \in {"Expired", "TooManyAttempts"}
    <2>1. ToIdle
      BY <1>5 DEF AcceptPair
    <2>2. window'.compared <= MAX_PAIRING_ATTEMPTS /\ window'.verdicts <= 1
      BY <1>2, <1>3, <1>5, AttemptsAssumption
      DEF Compares, EndsWindow, HandshakeInv, HandshakeTypeOK, PairingState
    <2> QED BY <1>3, <2>1, <2>2, ToIdleInv
  <1>6. CASE verdict \in {"OutOfRange", "WrongCode"}
    <2>1. /\ failed' = failed + 1
          /\ UNCHANGED <<phase, code, expires_at, record>>
      BY <1>6 DEF AcceptPair
    <2>2. failed + 1 < MAX_PAIRING_ATTEMPTS
      BY <1>6, AttemptsAssumption
      DEF AcceptVerdict, BudgetSpent, HandshakeInv, HandshakeTypeOK, PairingState
    <2>3. window'.compared = failed' /\ window'.verdicts = 0
      BY <1>2, <1>3, <1>6, <2>1 DEF Compares, EndsWindow
    <2> QED
      BY <1>2, <1>3, <1>6, <2>1, <2>2, <2>3, AttemptsAssumption
      DEF HandshakeInv, HandshakeTypeOK, PairingState, GuessBound, OneVerdict, PairedInTime,
          OpenWindowCounts
  <1>7. CASE verdict = "Succeeded"
    <2>1. /\ phase' = "Paired"
          /\ record' = [phone_name |-> name, client_spki |-> spki, paired_at |-> now]
          /\ code' = 0 /\ expires_at' = 0 /\ failed' = 0
      BY <1>7 DEF AcceptPair
    <2>2. now < window.ends
      BY <1>2, <1>7, TimeAssumption
      DEF AcceptVerdict, Elapsed, HandshakeInv, HandshakeTypeOK, PairingState, OpenWindowCounts, Time
    <2>3. record' \in PairingRecord /\ record' # NoRecord
      BY <2>1, NoRecordAssumption DEF PairingRecord
    <2>4. window'.compared = failed + 1 /\ window'.verdicts = 1
      BY <1>2, <1>3, <1>7 DEF Compares, EndsWindow
    <2> QED
      BY <1>2, <1>3, <2>1, <2>2, <2>3, <2>4, AttemptsAssumption, ModulusAssumption,
         TimeAssumption
      DEF HandshakeInv, HandshakeTypeOK, PairingState, GuessBound, OneVerdict, PairedInTime,
          OpenWindowCounts, CodeSpace, Time
  <1> QED BY <1>1, <1>4, <1>5, <1>6, <1>7

(* tick keeps the invariant. *)
LEMMA TickInv ==
    ASSUME HandshakeInv, NEW now \in Time, Tick(now)
    PROVE  HandshakeInv'
  <1>1. CASE TickVerdict(now) = "Expired"
    <2>1. ToIdle
      BY <1>1 DEF Tick
    <2>2. phase = "Awaiting"
      BY <1>1 DEF TickVerdict
    <2>3. /\ window' \in [ends : Time, compared : Nat, verdicts : Nat]
          /\ window'.compared = window.compared
          /\ window'.verdicts = 1
      <3>1. Observe("Expired")
        BY <1>1 DEF Tick
      <3> QED BY <2>2, <3>1, ObserveAdds DEF Compares, EndsWindow, HandshakeInv,
                                             HandshakeTypeOK, OneVerdict
    <2> QED BY <2>1, <2>3, ToIdleInv DEF HandshakeInv, GuessBound
  <1>2. CASE TickVerdict(now) = "NoOp"
    <2>1. UNCHANGED hsVars /\ window' = window
      <3>1. Observe("NoOp") /\ UNCHANGED hsVars
        BY <1>2 DEF Tick
      <3> QED BY <3>1, ObserveAdds DEF Compares, EndsWindow, HandshakeInv, HandshakeTypeOK, PairingState
    <2> QED
      BY <2>1 DEF hsVars, HandshakeInv, HandshakeTypeOK, PairingState, GuessBound, OneVerdict,
                  PairedInTime, OpenWindowCounts
  <1> QED BY <1>1, <1>2 DEF TickVerdict

(* reset keeps the invariant. *)
LEMMA ResetInv ==
    ASSUME HandshakeInv, Reset
    PROVE  HandshakeInv'
  BY ToIdleInv DEF Reset, HandshakeInv, HandshakeTypeOK, PairingState, GuessBound, OneVerdict

(* No order of calls and no clock readings take the window out of its       *)
(* invariant: the guess bound, the single verdict and the deadline hold for *)
(* every budget, code space and clock range (all methods of                 *)
(* PairingHandshake).                                                       *)
THEOREM HandshakeCorrect == HandshakeSpec => []HandshakeInv
  <1>1. HandshakeInit => HandshakeInv
    BY HandshakeInitInv
  <1>2. HandshakeInv /\ [HandshakeNext]_handshakeVars => HandshakeInv'
    <2> SUFFICES ASSUME HandshakeInv, [HandshakeNext]_handshakeVars PROVE HandshakeInv'
      OBVIOUS
    <2>1. CASE \E now \in Time, ttl \in Time : Start(now, ttl)
      BY <2>1, StartInv
    <2>2. CASE \E now \in Time, offered \in Offered, name \in Name, spki \in Phone :
                  AcceptPair(now, offered, name, spki)
      BY <2>2, AcceptPairInv
    <2>3. CASE \E now \in Time : Tick(now)
      BY <2>3, TickInv
    <2>4. CASE Reset
      BY <2>4, ResetInv
    <2>5. CASE UNCHANGED handshakeVars
      BY <2>5 DEF handshakeVars, hsVars, HandshakeInv, HandshakeTypeOK, PairingState, GuessBound,
                  OneVerdict, PairedInTime, OpenWindowCounts
    <2> QED BY <2>1, <2>2, <2>3, <2>4, <2>5 DEF HandshakeNext
  <1> QED BY <1>1, <1>2, PTL DEF HandshakeSpec

(* The brute-force bound on its own: at most MAX_PAIRING_ATTEMPTS codes are *)
(* compared with the code of one window (accept_pair).                      *)
THEOREM GuessesAreBounded == HandshakeSpec => []GuessBound
  <1>1. HandshakeInv => GuessBound
    BY DEF HandshakeInv
  <1> QED BY <1>1, HandshakeCorrect, PTL

(* The end of a window is reported at most once, whichever of tick and      *)
(* accept_pair sees it first.                                               *)
THEOREM EndIsReportedOnce == HandshakeSpec => []OneVerdict
  <1>1. HandshakeInv => OneVerdict
    BY DEF HandshakeInv
  <1> QED BY <1>1, HandshakeCorrect, PTL

(* accept_pair grants no pairing at or after the end of its window, with    *)
(* clock readings in any order.                                             *)
THEOREM NoLatePairing == HandshakeSpec => []PairedInTime
  <1>1. HandshakeInv => PairedInTime
    BY DEF HandshakeInv
  <1> QED BY <1>1, HandshakeCorrect, PTL

(* A call that leaves the window open does not move its end, change its     *)
(* code or give back wrong attempts.                                        *)
LEMMA StepKeepsWindow ==
    ASSUME HandshakeInv, HandshakeNext, phase = "Awaiting", phase' = "Awaiting"
    PROVE  /\ code' = code
           /\ expires_at' = expires_at
           /\ failed' >= failed
  <1>0. failed \in Nat
    BY AttemptsAssumption DEF HandshakeInv, HandshakeTypeOK, PairingState
  <1>1. CASE \E now \in Time, ttl \in Time : Start(now, ttl)
    BY <1>0, <1>1 DEF Start, CanStart, hsVars
  <1>2. ASSUME NEW now \in Time, NEW offered \in Offered, NEW name \in Name,
               NEW spki \in Phone, AcceptPair(now, offered, name, spki)
        PROVE  /\ code' = code
               /\ expires_at' = expires_at
               /\ failed' >= failed
    <2>1. AcceptVerdict(now, offered) \in
            {"Expired", "Succeeded", "TooManyAttempts", "OutOfRange", "WrongCode"}
      BY DEF AcceptVerdict
    <2>2. CASE AcceptVerdict(now, offered) \in {"OutOfRange", "WrongCode"}
      <3>1. failed' = failed + 1 /\ UNCHANGED <<phase, code, expires_at, record>>
        BY <1>2, <2>2 DEF AcceptPair
      <3> QED BY <1>0, <3>1
    <2>3. CASE AcceptVerdict(now, offered) \in {"Expired", "TooManyAttempts"}
      BY <1>2, <2>3 DEF AcceptPair, ToIdle
    <2>4. CASE AcceptVerdict(now, offered) = "Succeeded"
      BY <1>2, <2>4 DEF AcceptPair
    <2> QED BY <2>1, <2>2, <2>3, <2>4
  <1>3. CASE \E now \in Time : Tick(now)
    BY <1>0, <1>3 DEF Tick, ToIdle, hsVars
  <1>4. CASE Reset
    BY <1>4 DEF Reset, ToIdle
  <1> QED BY <1>1, <1>2, <1>3, <1>4 DEF HandshakeNext

(* An open window is never prolonged, re-keyed or given back attempts       *)
(* (start on an open window, accept_pair with a wrong code).                *)
THEOREM OpenWindowIsFixed == HandshakeSpec => WindowIsFixed
  <1> DEFINE Fixed == phase = "Awaiting" /\ phase' = "Awaiting"
                        => /\ code' = code
                           /\ expires_at' = expires_at
                           /\ failed' >= failed
  <1>1. HandshakeInv /\ [HandshakeNext]_handshakeVars => [Fixed]_handshakeVars
    BY StepKeepsWindow
  <1> QED BY <1>1, HandshakeCorrect, PTL DEF HandshakeSpec, WindowIsFixed

(* Division with remainder, by a positive number.                           *)
LEMMA DivMod ==
    ASSUME NEW raw \in Nat, NEW m \in Nat \ {0}
    PROVE  /\ raw = m * (raw \div m) + (raw % m)
           /\ raw \div m \in Nat
           /\ raw % m \in 0 .. m - 1
  OBVIOUS

(* The code q * m + c stands for is c, and those below n * m are the q      *)
(* below n.                                                                 *)
LEMMA MultiplePlusCode ==
    ASSUME NEW q \in Nat, NEW n \in Nat, NEW m \in Nat \ {0}, NEW c \in 0 .. m - 1
    PROVE  /\ q * m + c \in Nat
           /\ (q * m + c) % m = c
           /\ q * m + c < n * m <=> q < n
  <1>1. q * m \in Nat /\ n * m \in Nat
    OBVIOUS
  <1>2. (q * m + c) % m = c
    OBVIOUS
  <1>3. q < n => q * m + m <= n * m
    OBVIOUS
  <1>4. n <= q => n * m <= q * m
    OBVIOUS
  <1> DEFINE qm == q * m
             nm == n * m
  <1> HIDE DEF qm, nm
  <1>5. qm \in Nat /\ nm \in Nat /\ (q < n => qm + m <= nm) /\ (n <= q => nm <= qm)
    BY <1>1, <1>3, <1>4 DEF qm, nm
  <1>6. qm + c \in Nat /\ (qm + c < nm <=> q < n)
    BY <1>5
  <1> QED BY <1>2, <1>6 DEF qm, nm

(* random_pairing_code maps equally many raw samples to every code: the     *)
(* samples of c are q * m + c, for q below the number of whole code spaces  *)
(* in the range of a sample.                                                *)
LEMMA SamplesPerCode ==
    ASSUME NEW c \in CodeSpace
    PROVE  Cardinality({raw \in Samples : raw % PAIRING_CODE_MODULUS = c})
             = U32_MAX \div PAIRING_CODE_MODULUS
  <1> DEFINE m == PAIRING_CODE_MODULUS
             n == U32_MAX \div PAIRING_CODE_MODULUS
             S == {raw \in Samples : raw % m = c}
             f == [q \in 0 .. n - 1 |-> q * m + c]
  <1>1. m \in Nat \ {0} /\ U32_MAX \in Nat /\ c \in 0 .. m - 1
    BY ModulusAssumption DEF CodeSpace
  <1>2. n \in Nat /\ m * n <= U32_MAX
    <2> DEFINE r == U32_MAX % PAIRING_CODE_MODULUS
    <2>1. U32_MAX = m * n + r /\ n \in Nat /\ r \in 0 .. m - 1
      BY <1>1, DivMod
    <2> HIDE DEF m, n, r
    <2> QED BY <1>1, <2>1
  <1>3. Samples = {raw \in Nat : raw < n * m}
    <2>1. m * n = n * m /\ n * m \in Nat
      BY <1>1, <1>2
    <2>2. RESAMPLE_THRESHOLD = n * m
      BY DEF RESAMPLE_THRESHOLD
    <2> HIDE DEF n, m
    <2> QED BY <1>1, <1>2, <2>1, <2>2 DEF Samples, Offered
  <1> HIDE DEF m, n
  <1>4. \A q \in 0 .. n - 1 : q * m + c \in S
    BY <1>1, <1>2, <1>3, MultiplePlusCode
  <1>5. f \in [0 .. n - 1 -> S]
    BY <1>4
  <1>6. \A q, r \in 0 .. n - 1 : f[q] = f[r] => q = r
    <2> SUFFICES ASSUME NEW q \in 0 .. n - 1, NEW r \in 0 .. n - 1, q * m + c = r * m + c
                 PROVE  q = r
      OBVIOUS
    <2>1. q * m + c < r * m <=> q < r
      BY <1>1, <1>2, MultiplePlusCode
    <2>2. r * m + c < q * m <=> r < q
      BY <1>1, <1>2, MultiplePlusCode
    <2>3. q * m \in Nat /\ r * m \in Nat
      BY <1>1, <1>2
    <2> QED BY <1>1, <1>2, <2>1, <2>2, <2>3
  <1>7. \A raw \in S : \E q \in 0 .. n - 1 : f[q] = raw
    <2> SUFFICES ASSUME NEW raw \in Nat, raw < n * m, raw % m = c
                 PROVE  \E q \in 0 .. n - 1 : f[q] = raw
      BY <1>3
    <2> DEFINE q == raw \div m
    <2>1. q \in Nat /\ raw = m * q + c
      BY <1>1, DivMod
    <2>2. m * q = q * m
      BY <1>1, <2>1
    <2> HIDE DEF q
    <2>3. q < n
      BY <1>1, <1>2, <2>1, <2>2, MultiplePlusCode
    <2>4. q \in 0 .. n - 1 /\ f[q] = raw
      BY <1>2, <2>1, <2>2, <2>3
    <2> QED BY <2>4
  <1>8. ExistsBijection(0 .. n - 1, S)
    <2>1. f \in Bijection(0 .. n - 1, S)
      BY <1>5, <1>6, <1>7 DEF Bijection, Injection, Surjection, IsInjective
    <2> QED BY <2>1 DEF ExistsBijection
  <1>9. IsFiniteSet(0 .. n - 1) /\ Cardinality(0 .. n - 1) = n
    BY <1>2, FS_Interval
  <1>10. Cardinality(S) = n
    BY <1>8, <1>9, FS_Bijection
  <1> QED BY <1>10 DEF n, m

(* Rejection sampling makes every code equally likely, for every modulus    *)
(* and sample range (random_pairing_code).                                  *)
THEOREM CodesAreUniform == HandshakeSpec => []UniformCodes
  <1>1. HandshakeInv => UniformCodes
    BY SamplesPerCode DEF HandshakeInv, HandshakeTypeOK, UniformCodes
  <1> QED BY <1>1, HandshakeCorrect, PTL
=============================================================================
