-------------------------- MODULE PairingHandshake --------------------------
(***************************************************************************)
(* The pairing window of core/src/crypto/pairing.rs: a pure state machine  *)
(* that its caller drives.  A call is an action; the wall-clock reading    *)
(* the caller passes in is a parameter, so nothing here assumes that the   *)
(* clock moves forward.  What a method returns is the operator named       *)
(* ...Verdict, evaluated in the state before the call.                     *)
(***************************************************************************)
EXTENDS Integers, FiniteSets

CONSTANTS
    Phone,                  \* SPKI hashes of client certificates
    Name,                   \* phone_name labels carried by Pair frames
    MAX_PAIRING_ATTEMPTS,   \* wrong codes a window survives, plus one
    PAIRING_CODE_MODULUS,   \* codes are 0 .. PAIRING_CODE_MODULUS - 1
    U32_MAX,                \* largest offered code, and largest raw sample
    U64_MAX,                \* largest unix-ms reading
    NoRecord                \* "no PairingRecord held"

ASSUME AttemptsAssumption == MAX_PAIRING_ATTEMPTS \in 1 .. 255
ASSUME ModulusAssumption  == /\ PAIRING_CODE_MODULUS \in Nat \ {0}
                             /\ U32_MAX \in Nat
                             /\ PAIRING_CODE_MODULUS <= U32_MAX
ASSUME TimeAssumption     == U64_MAX \in Nat

Time    == 0 .. U64_MAX
Offered == 0 .. U32_MAX
CodeSpace == 0 .. PAIRING_CODE_MODULUS - 1

(* The variants of PairingState; their fields are variables below.          *)
PairingState == {"Idle", "Awaiting", "Paired"}

PairingRecord == [phone_name : Name, client_spki : Phone, paired_at : Time]

ASSUME NoRecordAssumption == NoRecord \notin PairingRecord

VARIABLES
    phase,      \* the variant of PairingState
    code,       \* the displayed code, 0 unless Awaiting
    expires_at, \* wall-clock end of the window, 0 unless Awaiting
    failed,     \* failed_attempts, 0 unless Awaiting
    record,     \* the record held in Paired, NoRecord otherwise
    window      \* observation of the last window opened: when it ends, how
                \* many offered codes were compared with its code, and how
                \* many calls reported its end

hsVars == <<phase, code, expires_at, failed, record>>

-----------------------------------------------------------------------------
\* A modulo without the rejection step.
RESAMPLE_THRESHOLD_None == U32_MAX + 1

(* random_pairing_code: raw u32 samples at or above the threshold are drawn *)
(* again, the others are reduced modulo the code space.                     *)
RESAMPLE_THRESHOLD ==
    (U32_MAX \div PAIRING_CODE_MODULUS) * PAIRING_CODE_MODULUS

Samples == {raw \in Offered : raw < RESAMPLE_THRESHOLD}

random_pairing_code == {raw % PAIRING_CODE_MODULUS : raw \in Samples}

saturating_add(a, b) == IF a + b > U64_MAX THEN U64_MAX ELSE a + b

-----------------------------------------------------------------------------
HandshakeInit ==
    /\ phase = "Idle"
    /\ code = 0
    /\ expires_at = 0
    /\ failed = 0
    /\ record = NoRecord
    /\ window = [ends |-> 0, compared |-> 0, verdicts |-> 0]

ToIdle ==
    /\ phase' = "Idle"
    /\ code' = 0
    /\ expires_at' = 0
    /\ failed' = 0
    /\ record' = NoRecord

\* Off by one: the window still counts as open at its last instant.
Elapsed_Late(now) == now > expires_at

Elapsed(now) == now >= expires_at

\* Off by one: the budget is spent one wrong code too late.
BudgetSpent_Late(n) == n > MAX_PAIRING_ATTEMPTS

BudgetSpent(n) == n >= MAX_PAIRING_ATTEMPTS

\* A start that reopens the window that is already open.
CanStart_Reopens == phase \in {"Idle", "Awaiting"}

CanStart == phase = "Idle"

(* start: NoOp unless Idle; otherwise a fresh code and a fresh budget. *)
Start(now, ttl) ==
    IF CanStart
    THEN /\ phase' = "Awaiting"
         /\ code' \in random_pairing_code
         /\ expires_at' = saturating_add(now, ttl)
         /\ failed' = 0
         /\ record' = NoRecord
         /\ window' = [ends |-> expires_at', compared |-> 0, verdicts |-> 0]
    ELSE UNCHANGED <<hsVars, window>>

(* What accept_pair returns for a Pair frame offering a code.  An offered   *)
(* code outside the six-digit range is a wrong code like any other.         *)
AcceptVerdict(now, offered) ==
    IF phase # "Awaiting" THEN "NotInWindow"
    ELSE IF Elapsed(now) THEN "Expired"
    ELSE IF offered < PAIRING_CODE_MODULUS /\ offered = code THEN "Succeeded"
    ELSE IF BudgetSpent(failed + 1) THEN "TooManyAttempts"
    ELSE IF offered >= PAIRING_CODE_MODULUS THEN "OutOfRange"
    ELSE "WrongCode"

Compares(verdict) ==
    verdict \in {"Succeeded", "TooManyAttempts", "OutOfRange", "WrongCode"}

EndsWindow(verdict) == verdict \in {"Expired", "Succeeded", "TooManyAttempts"}

Observe(verdict) ==
    window' = [window EXCEPT
                 !.compared = IF Compares(verdict) THEN @ + 1 ELSE @,
                 !.verdicts = IF EndsWindow(verdict) THEN @ + 1 ELSE @]

(* accept_pair *)
AcceptPair(now, offered, name, spki) ==
    LET verdict == AcceptVerdict(now, offered) IN
    /\ Observe(verdict)
    /\ CASE verdict = "NotInWindow" -> UNCHANGED hsVars
         [] verdict \in {"Expired", "TooManyAttempts"} -> ToIdle
         [] verdict \in {"OutOfRange", "WrongCode"} ->
              /\ failed' = failed + 1
              /\ UNCHANGED <<phase, code, expires_at, record>>
         [] verdict = "Succeeded" ->
              /\ phase' = "Paired"
              /\ record' = [phone_name |-> name, client_spki |-> spki,
                            paired_at |-> now]
              /\ code' = 0
              /\ expires_at' = 0
              /\ failed' = 0

(* What tick returns, and tick itself. *)
TickVerdict(now) ==
    IF phase = "Awaiting" /\ Elapsed(now) THEN "Expired" ELSE "NoOp"

\* An expiry that is reported without closing the window.
Tick_KeepsWindow(now) ==
    /\ Observe(TickVerdict(now))
    /\ UNCHANGED hsVars

Tick(now) ==
    /\ Observe(TickVerdict(now))
    /\ IF TickVerdict(now) = "Expired" THEN ToIdle ELSE UNCHANGED hsVars

Reset ==
    /\ ToIdle
    /\ UNCHANGED window

-----------------------------------------------------------------------------
(* The machine on its own, called in any order with any clock reading.      *)
HandshakeNext ==
    \/ \E now \in Time, ttl \in Time : Start(now, ttl)
    \/ \E now \in Time, offered \in Offered, name \in Name, spki \in Phone :
          AcceptPair(now, offered, name, spki)
    \/ \E now \in Time : Tick(now)
    \/ Reset

handshakeVars == <<hsVars, window>>

HandshakeSpec == HandshakeInit /\ [][HandshakeNext]_handshakeVars

-----------------------------------------------------------------------------
(* Every variable has the type the Rust enum gives it, and the fields of a  *)
(* variant are only set in that variant (PairingState).                     *)
HandshakeTypeOK ==
    /\ phase \in PairingState
    /\ code \in CodeSpace
    /\ expires_at \in Time
    /\ failed \in 0 .. MAX_PAIRING_ATTEMPTS - 1
    /\ record \in PairingRecord \cup {NoRecord}
    /\ record # NoRecord <=> phase = "Paired"
    /\ window \in [ends : Time, compared : Nat, verdicts : Nat]

(* At most MAX_PAIRING_ATTEMPTS offered codes are ever compared with the    *)
(* code of one window, the successful one included, however the calls and   *)
(* the clock readings are ordered: the brute-force bound of accept_pair.    *)
GuessBound == window.compared <= MAX_PAIRING_ATTEMPTS

(* The end of a window is reported by at most one call - one success, one   *)
(* expiry (from tick or from accept_pair) or one exhausted budget - and     *)
(* while it is open nothing has reported its end.                           *)
OneVerdict ==
    /\ window.verdicts <= 1
    /\ phase = "Awaiting" => window.verdicts = 0

(* A pairing is only ever granted before the end fixed when the window was  *)
(* opened, although later clock readings may go back and forth.             *)
PairedInTime == phase = "Paired" => record.paired_at < window.ends

(* What makes the bounds above inductive: while the window is open the      *)
(* failures counted by the machine are exactly the comparisons made, and    *)
(* its end is the one fixed when it was opened.                             *)
OpenWindowCounts ==
    phase = "Awaiting" => /\ window.compared = failed
                          /\ window.ends = expires_at

HandshakeInv == /\ HandshakeTypeOK
                /\ GuessBound
                /\ OneVerdict
                /\ PairedInTime
                /\ OpenWindowCounts

(* Rejection sampling makes every code equally likely: whichever code a     *)
(* window shows, the raw samples that random_pairing_code maps to it are    *)
(* as many as for any other.                                                *)
UniformCodes ==
    phase = "Awaiting" =>
        Cardinality({raw \in Samples : raw % PAIRING_CODE_MODULUS = code})
            = U32_MAX \div PAIRING_CODE_MODULUS

(* While a window stays open no call moves its end, changes its code or     *)
(* gives back wrong attempts: start on an open window is a NoOp.            *)
WindowIsFixed ==
    [][phase = "Awaiting" /\ phase' = "Awaiting"
         => /\ code' = code
            /\ expires_at' = expires_at
            /\ failed' >= failed]_handshakeVars
=============================================================================
