------------------------- MODULE PairingFlowProofs -------------------------
(***************************************************************************)
(* Proofs about the `pair` subcommand, for any number of runs, phones and  *)
(* clock steps: what it saves, and what it has acknowledged.               *)
(***************************************************************************)
EXTENDS PairingFlow, PairingHandshakeProofs

(* The keystore a run holds in memory is the one on disk, or a fresh one    *)
(* when there is none, until the handshake is Paired; then it has one phone *)
(* more.  The identity is the one on disk throughout.                       *)
MemoryFollowsDisk ==
    pc \notin {"load", "exit"} =>
        /\ RecordsAreUnique(contents)
        /\ disk # NoKeystore => contents.identity = disk.identity
        /\ phase # "Paired" =>
             contents = disk \/ (disk = NoKeystore /\ contents.pairings = {})
        /\ phase = "Paired" =>
             Spkis(contents) = Spkis(disk) \cup {record.client_spki}

(* Where the process is and where its handshake is: a fresh handshake until *)
(* the window is opened, and a save only of the phone that is connected.    *)
ProgressMatches ==
    /\ pc \in {"load", "start"} => phase = "Idle"
    /\ pc \in {"save", "ack"} => phase = "Paired" /\ record.client_spki = peer
    /\ pc = "ack" => disk = contents

FlowInv == /\ HandshakeInv
           /\ FlowTypeOK
           /\ MemoryFollowsDisk
           /\ ProgressMatches
           /\ OneRecordPerSpki
           /\ AckedIsPaired

(* Replacing the record of a phone keeps everybody else's, and leaves one   *)
(* record of that phone (the retain and the push of handle_pairing).        *)
LEMMA WithPairingReplaces ==
    ASSUME NEW c \in Keystore, NEW r \in PairingRecord
    PROVE  /\ WithPairing(c, r) \in Keystore
           /\ WithPairing(c, r).identity = c.identity
           /\ Spkis(WithPairing(c, r)) = Spkis(c) \cup {r.client_spki}
           /\ RecordsAreUnique(c) => RecordsAreUnique(WithPairing(c, r))
  <1> DEFINE kept == {q \in c.pairings : q.client_spki # r.client_spki}
             new == from_core(r)
             k == WithPairing(c, r)
  <1>1. new \in DaemonRecord /\ new.client_spki = r.client_spki
    BY DEF from_core, DaemonRecord, PairingRecord
  <1>2. c.pairings \subseteq DaemonRecord /\ c.identity \in Nat
    BY DEF Keystore
  <1>3. k.pairings = kept \cup {new} /\ k.identity = c.identity
    BY DEF WithPairing, Keystore
  <1>4. k \in Keystore
    BY <1>1, <1>2 DEF WithPairing, Keystore
  <1>5. Spkis(k) = Spkis(c) \cup {r.client_spki}
    <2>1. c # NoKeystore /\ k # NoKeystore
      BY <1>4, KeystoreAssumption
    <2>2. Spkis(k) = {q.client_spki : q \in k.pairings}
      BY <2>1 DEF Spkis
    <2>3. Spkis(c) = {q.client_spki : q \in c.pairings}
      BY <2>1 DEF Spkis
    <2> HIDE DEF k, new
    <2> QED BY <1>1, <1>3, <2>2, <2>3
  <1>6. RecordsAreUnique(c) => RecordsAreUnique(k)
    <2> HIDE DEF k, new
    <2> QED BY <1>1, <1>3 DEF RecordsAreUnique
  <1> QED BY <1>3, <1>4, <1>5, <1>6

(* A first run, on a fresh machine or over a keystore it left before.       *)
LEMMA FlowInitInv == Init => FlowInv
  <1> SUFFICES ASSUME Init PROVE FlowInv
    OBVIOUS
  <1>1. HandshakeInv
    BY HandshakeInitInv DEF Init
  <1>2. phase = "Idle"
    BY DEF Init, HandshakeInit
  <1>3. FlowTypeOK
    BY <1>1, FlowAssumption, KeystoreAssumption, TimeAssumption
    DEF Init, HandshakeInv, FlowTypeOK, PCs, Time
  <1>4. MemoryFollowsDisk /\ ProgressMatches
    BY <1>2 DEF Init, MemoryFollowsDisk, ProgressMatches
  <1>5. OneRecordPerSpki /\ AckedIsPaired
    BY KeystoreAssumption DEF Init, OneRecordPerSpki, AckedIsPaired
  <1> QED BY <1>1, <1>3, <1>4, <1>5 DEF FlowInv

(* The invariant of the handshake speaks of its own variables only.         *)
LEMMA HandshakeInvKept ==
    ASSUME HandshakeInv, KeepHandshake
    PROVE  HandshakeInv'
  BY DEF KeepHandshake, handshakeVars, hsVars, HandshakeInv, HandshakeTypeOK, GuessBound,
         OneVerdict, PairedInTime, OpenWindowCounts

(* LoadOrBootstrap: memory is what is on disk, or a fresh identity when     *)
(* there is nothing - and then nobody has been acknowledged.                *)
LEMMA LoadInv ==
    ASSUME FlowInv, LoadOrBootstrap
    PROVE  FlowInv'
  <1>1. HandshakeInv'
    BY HandshakeInvKept DEF LoadOrBootstrap, FlowInv
  <1>2. /\ phase' = "Idle" /\ record' = record /\ disk' = disk /\ acked' = acked
        /\ pc' = "start"
    BY DEF LoadOrBootstrap, FlowInv, ProgressMatches, Goto, KeepHandshake, handshakeVars, hsVars
  <1>3. /\ contents' \in Keystore
        /\ contents' = disk \/ (disk = NoKeystore /\ contents'.pairings = {})
        /\ RecordsAreUnique(contents')
    <2>1. CASE disk = NoKeystore
      <3>1. contents' = [identity |-> runs, pairings |-> {}]
        BY <2>1 DEF LoadOrBootstrap, from_identity
      <3>2. runs \in Nat
        BY FlowAssumption DEF FlowInv, FlowTypeOK
      <3> QED BY <2>1, <3>1, <3>2 DEF Keystore, RecordsAreUnique
    <2>2. CASE disk # NoKeystore
      BY <2>2 DEF LoadOrBootstrap, FlowInv, FlowTypeOK, OneRecordPerSpki
    <2> QED BY <2>1, <2>2
  <1>4. FlowTypeOK'
    BY <1>1, <1>2, <1>3 DEF LoadOrBootstrap, FlowInv, HandshakeInv, FlowTypeOK, PCs
  <1>5. MemoryFollowsDisk' /\ ProgressMatches'
    BY <1>2, <1>3 DEF MemoryFollowsDisk, ProgressMatches
  <1>6. OneRecordPerSpki' /\ AckedIsPaired'
    BY <1>2 DEF FlowInv, OneRecordPerSpki, AckedIsPaired
  <1> QED BY <1>1, <1>4, <1>5, <1>6 DEF FlowInv

(* OpenWindow: the handshake leaves Idle, and is not Paired.                *)
LEMMA OpenWindowInv ==
    ASSUME FlowInv, OpenWindow
    PROVE  FlowInv'
  <1>1. HandshakeInv'
    BY StartInv, FlowAssumption DEF OpenWindow, FlowInv, FlowTypeOK
  <1>2. phase = "Idle" /\ phase' = "Awaiting" /\ pc' = "bind" /\ pc = "start"
    BY DEF OpenWindow, Goto, FlowInv, ProgressMatches, Start, CanStart
  <1>3. UNCHANGED <<now, timer, contents, disk, peer, runs, stepped, acked>>
    BY DEF OpenWindow
  <1>4. FlowTypeOK'
    BY <1>1, <1>2, <1>3 DEF FlowInv, HandshakeInv, FlowTypeOK, PCs
  <1>5. MemoryFollowsDisk' /\ ProgressMatches'
    BY <1>2, <1>3 DEF FlowInv, MemoryFollowsDisk, ProgressMatches, RecordsAreUnique
  <1>6. OneRecordPerSpki' /\ AckedIsPaired'
    BY <1>3 DEF FlowInv, OneRecordPerSpki, AckedIsPaired, RecordsAreUnique, Spkis
  <1> QED BY <1>1, <1>4, <1>5, <1>6 DEF FlowInv

(* The steps that only move the process, and connect or drop its peer.      *)
Moves ==
    \/ Bind \/ StartupFails \/ DeadlineFires \/ AcceptFails \/ TlsFails \/ TlsAccepts
    \/ ReadFails \/ ReadsNoPair \/ SaveFails \/ SendAckFails \/ CheckIdle \/ Kill
    \/ \E p \in Phone : Accept(p)

(* They leave the keystore, memory and the handshake alone.                 *)
LEMMA MovesInv ==
    ASSUME FlowInv, Moves
    PROVE  FlowInv'
  <1> USE DEF Goto
  <1>1. KeepHandshake /\ UNCHANGED <<now, contents, disk, runs, stepped, acked>>
    BY DEF Moves, Bind, StartupFails, DeadlineFires, AcceptFails, TlsFails, TlsAccepts,
           ReadFails, ReadsNoPair, SaveFails, SendAckFails, CheckIdle, Kill, Accept
  <1>2. /\ pc' \in PCs \ {"load", "start", "save", "ack"}
        /\ pc' # "exit" => pc \notin {"load", "exit"}
        /\ timer' \in {timer, PAIRING_WINDOW_DEFAULT_MS}
        /\ peer' \in Phone \cup {NoPhone}
        /\ pc' \in {"tls", "read"} => peer' \in Phone
    BY DEF Moves, Bind, StartupFails, DeadlineFires, AcceptFails, TlsFails, TlsAccepts,
           ReadFails, ReadsNoPair, SaveFails, SendAckFails, CheckIdle, Kill, Accept,
           FlowInv, FlowTypeOK, PCs
  <1>3. HandshakeInv' /\ phase' = phase /\ record' = record
    BY <1>1, HandshakeInvKept DEF FlowInv, KeepHandshake, handshakeVars, hsVars
  <1>4. FlowTypeOK'
    BY <1>1, <1>2, <1>3, FlowAssumption DEF FlowInv, HandshakeInv, FlowTypeOK, Time
  <1>5. MemoryFollowsDisk' /\ ProgressMatches'
    BY <1>1, <1>2, <1>3
    DEF FlowInv, MemoryFollowsDisk, ProgressMatches, RecordsAreUnique, Spkis
  <1>6. OneRecordPerSpki' /\ AckedIsPaired'
    BY <1>1 DEF FlowInv, OneRecordPerSpki, AckedIsPaired, RecordsAreUnique, Spkis
  <1> QED BY <1>3, <1>4, <1>5, <1>6 DEF FlowInv

(* The tick at the top of the loop can close the window, never pair.        *)
LEMMA LoopTickInv ==
    ASSUME FlowInv, LoopTick
    PROVE  FlowInv'
  <1>1. HandshakeInv'
    BY TickInv DEF LoopTick, FlowInv, FlowTypeOK
  <1>2. /\ phase' = "Paired" <=> phase = "Paired"
        /\ phase = "Paired" => record' = record
    BY DEF LoopTick, Tick, TickVerdict, ToIdle, hsVars
  <1>3. /\ pc = "loop" /\ pc' \in {"exit", "select"}
        /\ UNCHANGED <<now, timer, contents, disk, peer, runs, stepped, acked>>
    BY DEF LoopTick, Goto
  <1>4. FlowTypeOK'
    BY <1>1, <1>3 DEF FlowInv, HandshakeInv, FlowTypeOK, PCs
  <1>5. MemoryFollowsDisk' /\ ProgressMatches'
    BY <1>2, <1>3 DEF FlowInv, MemoryFollowsDisk, ProgressMatches, RecordsAreUnique, Spkis
  <1>6. OneRecordPerSpki' /\ AckedIsPaired'
    BY <1>3 DEF FlowInv, OneRecordPerSpki, AckedIsPaired, RecordsAreUnique, Spkis
  <1> QED BY <1>1, <1>4, <1>5, <1>6 DEF FlowInv

(* What accept_pair does to the variant of the handshake: it becomes Paired *)
(* exactly with the verdict Succeeded, which needs an open window, and a    *)
(* handshake that is Paired keeps its record.                               *)
LEMMA AcceptPairPairs ==
    ASSUME HandshakeInv, NEW at \in Time, NEW offered \in Offered, NEW name \in Name,
           NEW spki \in Phone, AcceptPair(at, offered, name, spki)
    PROVE  IF AcceptVerdict(at, offered) = "Succeeded"
           THEN /\ phase = "Awaiting" /\ phase' = "Paired"
                /\ record' = [phone_name |-> name, client_spki |-> spki, paired_at |-> at]
           ELSE /\ phase' = "Paired" <=> phase = "Paired"
                /\ phase = "Paired" => record' = record
  <1> DEFINE verdict == AcceptVerdict(at, offered)
  <1>1. verdict \in {"NotInWindow", "Expired", "Succeeded", "TooManyAttempts",
                     "OutOfRange", "WrongCode"}
    BY DEF AcceptVerdict
  <1>2. verdict # "NotInWindow" => phase = "Awaiting"
    BY DEF AcceptVerdict
  <1>3. CASE verdict = "Succeeded"
    BY <1>2, <1>3 DEF AcceptPair
  <1>4. CASE verdict = "NotInWindow"
    BY <1>4 DEF AcceptPair, hsVars
  <1>5. CASE verdict \in {"Expired", "TooManyAttempts"}
    BY <1>2, <1>5 DEF AcceptPair, ToIdle
  <1>6. CASE verdict \in {"OutOfRange", "WrongCode"}
    BY <1>2, <1>6 DEF AcceptPair
  <1> QED BY <1>1, <1>3, <1>4, <1>5, <1>6

(* A Pair frame: memory gets the phone's record with the verdict Succeeded, *)
(* and stays as it is with every other.                                     *)
LEMMA ReadsPairInv ==
    ASSUME FlowInv, NEW offered \in Offered, NEW name \in Name, ReadsPair(offered, name)
    PROVE  FlowInv'
  <1>1. now \in Time /\ peer \in Phone /\ pc = "read" /\ contents \in Keystore
    BY DEF ReadsPair, FlowInv, FlowTypeOK
  <1>2. HandshakeInv'
    BY <1>1, AcceptPairInv DEF ReadsPair, FlowInv
  <1>3. /\ UNCHANGED <<now, timer, disk, peer, runs, stepped, acked>>
        /\ AcceptPair(now, offered, name, peer)
    BY DEF ReadsPair
  <1>4. OneRecordPerSpki' /\ AckedIsPaired'
    BY <1>3 DEF FlowInv, OneRecordPerSpki, AckedIsPaired, RecordsAreUnique, Spkis
  <1>5. CASE AcceptVerdict(now, offered) = "Succeeded"
    <2>1. /\ phase = "Awaiting" /\ phase' = "Paired"
          /\ record' = [phone_name |-> name, client_spki |-> peer, paired_at |-> now]
      BY <1>1, <1>3, <1>5, AcceptPairPairs DEF FlowInv
    <2>2. record' \in PairingRecord /\ record'.client_spki = peer
      BY <1>1, <2>1 DEF PairingRecord
    <2>3. contents' = WithPairing(contents, record') /\ pc' = "save"
      BY <1>5 DEF ReadsPair, Goto
    <2>4. /\ contents' \in Keystore
          /\ contents'.identity = contents.identity
          /\ Spkis(contents') = Spkis(contents) \cup {peer}
          /\ RecordsAreUnique(contents) => RecordsAreUnique(contents')
      BY <1>1, <2>2, <2>3, WithPairingReplaces
    <2>5. Spkis(contents) = Spkis(disk)
      BY <1>1, <2>1, KeystoreAssumption DEF FlowInv, MemoryFollowsDisk, Spkis
    <2>6. FlowTypeOK'
      BY <1>1, <1>2, <1>3, <2>3, <2>4 DEF FlowInv, HandshakeInv, FlowTypeOK, PCs
    <2>7. MemoryFollowsDisk' /\ ProgressMatches'
      BY <1>1, <1>3, <2>1, <2>2, <2>3, <2>4, <2>5
      DEF FlowInv, MemoryFollowsDisk, ProgressMatches
    <2> QED BY <1>2, <1>4, <2>6, <2>7 DEF FlowInv
  <1>6. CASE AcceptVerdict(now, offered) # "Succeeded"
    <2>1. /\ phase' = "Paired" <=> phase = "Paired"
          /\ phase = "Paired" => record' = record
      BY <1>1, <1>3, <1>6, AcceptPairPairs DEF FlowInv
    <2>2. contents' = contents /\ pc' = "check"
      BY <1>6 DEF ReadsPair, Goto
    <2>3. FlowTypeOK'
      BY <1>1, <1>2, <1>3, <2>2 DEF FlowInv, HandshakeInv, FlowTypeOK, PCs
    <2>4. MemoryFollowsDisk' /\ ProgressMatches'
      BY <1>1, <1>3, <2>1, <2>2
      DEF FlowInv, MemoryFollowsDisk, ProgressMatches, RecordsAreUnique, Spkis
    <2> QED BY <1>2, <1>4, <2>3, <2>4 DEF FlowInv
  <1> QED BY <1>5, <1>6

(* The save: the disk keeps its identity and its phones, and gets the one   *)
(* that is connected.                                                       *)
LEMMA SaveInv ==
    ASSUME FlowInv, Save
    PROVE  FlowInv'
  <1>1. /\ pc = "save" /\ pc' = "ack" /\ disk' = contents /\ KeepHandshake
        /\ UNCHANGED <<now, timer, contents, peer, runs, stepped, acked>>
    BY DEF Save, Goto
  <1>2. HandshakeInv' /\ phase' = phase /\ record' = record
    BY <1>1, HandshakeInvKept DEF FlowInv, KeepHandshake, handshakeVars, hsVars
  <1>3. /\ contents \in Keystore
        /\ contents # NoKeystore
        /\ RecordsAreUnique(contents)
        /\ disk # NoKeystore => contents.identity = disk.identity
        /\ Spkis(contents) = Spkis(disk) \cup {record.client_spki}
        /\ phase = "Paired" /\ record.client_spki = peer
    BY <1>1, KeystoreAssumption
    DEF FlowInv, FlowTypeOK, MemoryFollowsDisk, ProgressMatches
  <1>4. FlowTypeOK'
    BY <1>1, <1>2, <1>3 DEF FlowInv, HandshakeInv, FlowTypeOK, PCs
  <1>5. MemoryFollowsDisk' /\ ProgressMatches'
    BY <1>1, <1>2, <1>3 DEF MemoryFollowsDisk, ProgressMatches, RecordsAreUnique, Spkis
  <1>6. OneRecordPerSpki'
    BY <1>1, <1>3 DEF OneRecordPerSpki, RecordsAreUnique
  <1>7. AckedIsPaired'
    <2>1. Spkis(disk') = Spkis(contents)
      BY <1>1 DEF Spkis
    <2> QED BY <1>1, <1>3, <2>1 DEF FlowInv, AckedIsPaired
  <1> QED BY <1>2, <1>4, <1>5, <1>6, <1>7 DEF FlowInv

(* The Ack goes to a phone whose record is on disk.                         *)
LEMMA SendAckInv ==
    ASSUME FlowInv, SendAck
    PROVE  FlowInv'
  <1>1. /\ pc = "ack" /\ pc' = "exit" /\ KeepHandshake
        /\ acked' = acked \cup {<<peer, contents.identity>>}
        /\ UNCHANGED <<now, timer, contents, disk, peer, runs, stepped>>
    BY DEF SendAck, Goto
  <1>2. HandshakeInv'
    BY <1>1, HandshakeInvKept DEF FlowInv
  <1>3. contents \in Keystore /\ contents # NoKeystore /\ disk = contents /\ peer \in Phone
    BY <1>1, KeystoreAssumption DEF FlowInv, FlowTypeOK, ProgressMatches
  <1>4. peer \in Spkis(disk)
    BY <1>1, <1>3 DEF FlowInv, MemoryFollowsDisk, ProgressMatches
  <1>5. FlowTypeOK'
    <2>1. contents.identity \in Nat
      BY <1>3 DEF Keystore
    <2> QED BY <1>1, <1>2, <1>3, <2>1 DEF FlowInv, HandshakeInv, FlowTypeOK, PCs
  <1>6. MemoryFollowsDisk' /\ ProgressMatches' /\ OneRecordPerSpki'
    BY <1>1 DEF FlowInv, MemoryFollowsDisk, ProgressMatches, OneRecordPerSpki, RecordsAreUnique
  <1>7. AckedIsPaired'
    <2>1. Spkis(disk') = Spkis(disk)
      BY <1>1
    <2> QED BY <1>1, <1>3, <1>4, <2>1 DEF FlowInv, AckedIsPaired
  <1> QED BY <1>2, <1>5, <1>6, <1>7 DEF FlowInv

(* Time: nothing the process relies on is a comparison with the clock of    *)
(* an earlier step.                                                         *)
LEMMA TimeInv ==
    ASSUME FlowInv, Advance \/ StepClock
    PROVE  FlowInv'
  <1>1. KeepHandshake /\ UNCHANGED <<pc, contents, disk, peer, runs, acked>>
    BY DEF Advance, StepClock
  <1>2. HandshakeInv' /\ phase' = phase /\ record' = record
    BY <1>1, HandshakeInvKept DEF FlowInv, KeepHandshake, handshakeVars, hsVars
  <1>3. /\ now' \in Time
        /\ timer' \in 0 .. PAIRING_WINDOW_DEFAULT_MS
        /\ stepped' \in 0 .. MaxClockSteps
    <2>1. now \in Time /\ timer \in 0 .. PAIRING_WINDOW_DEFAULT_MS
            /\ stepped \in 0 .. MaxClockSteps
      BY DEF FlowInv, FlowTypeOK
    <2>2. CASE Advance
      BY <2>1, <2>2, TimeAssumption, FlowAssumption DEF Advance, saturating_add, Time
    <2>3. CASE StepClock
      BY <2>1, <2>3, FlowAssumption DEF StepClock
    <2> QED BY <2>2, <2>3
  <1>4. FlowTypeOK'
    BY <1>1, <1>2, <1>3 DEF FlowInv, HandshakeInv, FlowTypeOK
  <1>5. MemoryFollowsDisk' /\ ProgressMatches'
    BY <1>1, <1>2 DEF FlowInv, MemoryFollowsDisk, ProgressMatches, RecordsAreUnique, Spkis
  <1>6. OneRecordPerSpki' /\ AckedIsPaired'
    BY <1>1 DEF FlowInv, OneRecordPerSpki, AckedIsPaired, RecordsAreUnique, Spkis
  <1> QED BY <1>2, <1>4, <1>5, <1>6 DEF FlowInv

(* A new process has a new handshake and loads again.                       *)
LEMMA RerunInv ==
    ASSUME FlowInv, Rerun
    PROVE  FlowInv'
  <1>1. /\ ToIdle /\ pc' = "load" /\ contents' = NoKeystore /\ peer' = NoPhone
        /\ timer' = 0 /\ runs < MaxRuns /\ runs' = runs + 1
        /\ window' = [ends |-> 0, compared |-> 0, verdicts |-> 0]
        /\ UNCHANGED <<now, disk, stepped, acked>>
    BY DEF Rerun, Goto
  <1>2. HandshakeInv'
    <2>1. /\ window' \in [ends : Time, compared : Nat, verdicts : Nat]
          /\ window'.compared <= MAX_PAIRING_ATTEMPTS
          /\ window'.verdicts <= 1
      BY <1>1, TimeAssumption, AttemptsAssumption DEF Time
    <2> QED BY <1>1, <2>1, ToIdleInv DEF FlowInv
  <1>3. FlowTypeOK'
    BY <1>1, <1>2, FlowAssumption DEF FlowInv, HandshakeInv, FlowTypeOK, PCs, Time
  <1>4. MemoryFollowsDisk' /\ ProgressMatches'
    BY <1>1 DEF ToIdle, MemoryFollowsDisk, ProgressMatches
  <1>5. OneRecordPerSpki' /\ AckedIsPaired'
    BY <1>1 DEF FlowInv, OneRecordPerSpki, AckedIsPaired, RecordsAreUnique, Spkis
  <1> QED BY <1>2, <1>3, <1>4, <1>5 DEF FlowInv

(* The invariant of the `pair` subcommand holds throughout, however often   *)
(* it is run, killed or stalled (all of pairing_flow.rs).                   *)
THEOREM FlowCorrect == Spec => []FlowInv
  <1>1. Init => FlowInv
    BY FlowInitInv
  <1>2. FlowInv /\ [Next]_vars => FlowInv'
    <2> SUFFICES ASSUME FlowInv, [Next]_vars PROVE FlowInv'
      OBVIOUS
    <2>1. CASE Moves
      BY <2>1, MovesInv
    <2>2. CASE LoadOrBootstrap \/ OpenWindow \/ LoopTick
      BY <2>2, LoadInv, OpenWindowInv, LoopTickInv
    <2>3. CASE \E offered \in Offered, name \in Name : ReadsPair(offered, name)
      BY <2>3, ReadsPairInv
    <2>4. CASE Save \/ SendAck
      BY <2>4, SaveInv, SendAckInv
    <2>5. CASE Advance \/ StepClock \/ Rerun
      BY <2>5, TimeInv, RerunInv
    <2>6. CASE UNCHANGED vars
      <3>1. HandshakeInv'
        BY <2>6, HandshakeInvKept DEF FlowInv, vars, KeepHandshake
      <3> QED BY <2>6, <3>1
              DEF vars, flowVars, handshakeVars, hsVars, FlowInv, HandshakeInv, FlowTypeOK,
                  MemoryFollowsDisk, ProgressMatches, OneRecordPerSpki, AckedIsPaired,
                  RecordsAreUnique, Spkis
    <2> QED BY <2>1, <2>2, <2>3, <2>4, <2>5, <2>6
            DEF Next, Daemon, PeerActs, Failures, Moves
  <1> QED BY <1>1, <1>2, PTL DEF Spec

(* The types of `pair`, and what it has loaded or connected at each place   *)
(* of its code.                                                             *)
THEOREM FlowTypesHold == Spec => []FlowTypeOK
  <1>1. FlowInv => FlowTypeOK
    BY DEF FlowInv
  <1> QED BY <1>1, FlowCorrect, PTL

(* A phone that got its Ack stays paired with the identity it was shown,    *)
(* whatever fails or is run afterwards (the save before the Ack, and the    *)
(* bootstrap only without a keystore).                                      *)
THEOREM AckedStaysPaired == Spec => []AckedIsPaired
  <1>1. FlowInv => AckedIsPaired
    BY DEF FlowInv
  <1> QED BY <1>1, FlowCorrect, PTL

(* Re-pairing never leaves two records of one SPKI on disk (the retain      *)
(* before the push).                                                        *)
THEOREM SpkisAreUnique == Spec => []OneRecordPerSpki
  <1>1. FlowInv => OneRecordPerSpki
    BY DEF FlowInv
  <1> QED BY <1>1, FlowCorrect, PTL

(* Every change of the keystore adds the phone that presented the code      *)
(* before the window ended, and drops nobody.                               *)
THEOREM SavesAddOnePhone == Spec => SaveAddsOnePhone
  <1> DEFINE Adds == disk' # disk =>
                       /\ phase = "Paired" /\ record.paired_at < window.ends
                       /\ Spkis(disk') = Spkis(disk) \cup {record.client_spki}
  <1>1. FlowInv /\ [Next]_vars => [Adds]_vars
    <2> SUFFICES ASSUME FlowInv, Next, disk' # disk PROVE Adds
      BY DEF vars
    <2>1. Save
      BY DEF Next, Daemon, PeerActs, Failures, LoadOrBootstrap, OpenWindow, Bind, LoopTick,
             DeadlineFires, SendAck, CheckIdle, TlsFails, TlsAccepts, ReadFails, ReadsNoPair,
             ReadsPair, Accept, StartupFails, AcceptFails, SaveFails, SendAckFails, Kill,
             Advance, StepClock, Rerun
    <2>2. pc = "save" /\ disk' = contents
      BY <2>1 DEF Save
    <2>3. Spkis(disk') = Spkis(contents)
      BY <2>2
    <2>4. phase = "Paired" /\ Spkis(contents) = Spkis(disk) \cup {record.client_spki}
      BY <2>2 DEF FlowInv, MemoryFollowsDisk, ProgressMatches
    <2>5. record.paired_at < window.ends
      BY <2>4 DEF FlowInv, HandshakeInv, PairedInTime
    <2> QED BY <2>3, <2>4, <2>5
  <1> QED BY <1>1, FlowCorrect, PTL DEF Spec, SaveAddsOnePhone

-----------------------------------------------------------------------------
(* The handshake inside `pair` *)

(* What `pair` does to the handshake: one call of it, a new handshake with  *)
(* a new process, or nothing.                                               *)
LEMMA FlowStepDrives ==
    ASSUME FlowInv, [Next]_vars
    PROVE  HandshakeNext \/ HandshakeInit' \/ UNCHANGED handshakeVars
  <1>0. now \in Time /\ PAIRING_WINDOW_DEFAULT_MS \in Time
    BY FlowAssumption DEF FlowInv, FlowTypeOK
  <1>1. CASE OpenWindow
    BY <1>0, <1>1 DEF OpenWindow, HandshakeNext
  <1>2. CASE LoopTick
    BY <1>0, <1>2 DEF LoopTick, HandshakeNext
  <1>3. ASSUME NEW offered \in Offered, NEW name \in Name, ReadsPair(offered, name)
        PROVE  HandshakeNext
    <2>1. peer \in Phone /\ AcceptPair(now, offered, name, peer)
      BY <1>3 DEF ReadsPair, FlowInv, FlowTypeOK
    <2> QED BY <1>0, <2>1 DEF HandshakeNext
  <1>4. CASE Rerun
    BY <1>4 DEF Rerun, ToIdle, HandshakeInit
  <1>5. CASE \/ LoadOrBootstrap \/ Moves \/ Save \/ SendAck \/ Advance \/ StepClock
    BY <1>5 DEF LoadOrBootstrap, Moves, Save, SendAck, Advance, StepClock, KeepHandshake,
                Bind, StartupFails, DeadlineFires, AcceptFails, TlsFails, TlsAccepts,
                ReadFails, ReadsNoPair, SaveFails, SendAckFails, CheckIdle, Kill, Accept
  <1>6. CASE UNCHANGED vars
    BY <1>6 DEF vars
  <1> QED BY <1>1, <1>2, <1>3, <1>4, <1>5, <1>6 DEF Next, Daemon, PeerActs, Failures, Moves

(* `pair` uses its handshake only through start, accept_pair and tick, with *)
(* arguments they are specified for, and every process has a new one: what  *)
(* is proved of the machine called in any order holds inside `pair`.        *)
THEOREM FlowDrivesHandshake ==
    Spec => HandshakeInit /\ [][HandshakeNext \/ HandshakeInit']_handshakeVars
  <1>1. Init => HandshakeInit
    BY DEF Init
  <1>2. FlowInv /\ [Next]_vars => [HandshakeNext \/ HandshakeInit']_handshakeVars
    BY FlowStepDrives
  <1> QED BY <1>1, <1>2, FlowCorrect, PTL DEF Spec

(* Over all runs of `pair`, whatever peers connect, fail, stall or guess    *)
(* and however the wall clock is stepped, at most MAX_PAIRING_ATTEMPTS      *)
(* codes are compared with the code of a window.                            *)
THEOREM FlowBoundsGuesses == Spec => []GuessBound
  <1>1. FlowInv => GuessBound
    BY DEF FlowInv, HandshakeInv
  <1> QED BY <1>1, FlowCorrect, PTL

(* A phone is paired by `pair` only before the end that was fixed when the  *)
(* process opened its window, although now() is read again for every frame. *)
THEOREM FlowPairsInTime == Spec => []PairedInTime
  <1>1. FlowInv => PairedInTime
    BY DEF FlowInv, HandshakeInv
  <1> QED BY <1>1, FlowCorrect, PTL

(* No connection of `pair` prolongs the window of its process, changes its  *)
(* code or gives back wrong attempts.                                       *)
THEOREM FlowWindowIsFixed == Spec => WindowIsFixed
  <1> DEFINE Fixed == phase = "Awaiting" /\ phase' = "Awaiting"
                        => /\ code' = code
                           /\ expires_at' = expires_at
                           /\ failed' >= failed
  <1>1. FlowInv /\ [Next]_vars => [Fixed]_handshakeVars
    <2> SUFFICES ASSUME FlowInv, [Next]_vars PROVE Fixed \/ UNCHANGED handshakeVars
      OBVIOUS
    <2>1. CASE HandshakeNext
      BY <2>1, StepKeepsWindow DEF FlowInv
    <2>2. CASE HandshakeInit'
      BY <2>2 DEF HandshakeInit
    <2> QED BY <2>1, <2>2, FlowStepDrives
  <1> QED BY <1>1, FlowCorrect, PTL DEF Spec, WindowIsFixed
=============================================================================
