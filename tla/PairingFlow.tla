---------------------------- MODULE PairingFlow ----------------------------
(***************************************************************************)
(* The `pair` subcommand, daemon/src/pairing_flow.rs: bootstrap or load    *)
(* the keystore, open one window, serve connections one after the other    *)
(* until a phone is paired, the window closes or the deadline fires.       *)
(*                                                                         *)
(* The process can be killed anywhere and be run again.  Its peers are     *)
(* not trusted to do anything: a connection may fail in the TLS handshake, *)
(* stay silent, close, or send any frame.  The wall clock may be stepped;  *)
(* the deadline timer (tokio::time::sleep) is monotonic.                   *)
(* keystore::save is one step that happens or fails: a `pair` process has  *)
(* a single saver, the case KeystoreFile shows to be atomic.               *)
(***************************************************************************)
EXTENDS PairingHandshake

CONSTANTS
    PAIRING_WINDOW_DEFAULT_MS,  \* length of the window, in clock ticks
    InitialKeystores,           \* what may be on disk before the first run
    NoKeystore,                 \* no keystore file, or none loaded
    NoPhone,                    \* no connection being served
    MaxRuns,                    \* bound: times the user runs `pair`
    MaxClockSteps               \* bound: wall-clock adjustments

ASSUME FlowAssumption ==
    /\ PAIRING_WINDOW_DEFAULT_MS \in Time \ {0}
    /\ MaxRuns \in Nat \ {0}
    /\ MaxClockSteps \in Nat
    /\ NoPhone \notin Phone

VARIABLES
    pc,       \* where the process is; "exit" when it has ended
    now,      \* wall clock, SystemTime::now()
    timer,    \* ticks left on the deadline sleep
    contents, \* the KeystoreContents held in memory
    disk,     \* the keystore file
    peer,     \* the phone behind the connection being served
    runs,     \* `pair` processes started so far
    stepped,  \* wall-clock adjustments so far
    acked     \* observation: <<phone, identity>> of every Ack delivered

flowVars == <<pc, now, timer, contents, disk, peer, runs, stepped, acked>>
vars == <<handshakeVars, flowVars>>

(* pairings.rs PairingRecord, without what pairing does not touch.          *)
DaemonRecord == [phone_name : Name, client_spki : Phone, paired_at : Time,
                 revoked : BOOLEAN]

Keystore == [identity : Nat, pairings : SUBSET DaemonRecord]

RecordsAreUnique(k) ==
    \A q, r \in k.pairings : q.client_spki = r.client_spki => q = r

\* What is on disk before the first run, this program has written.
ASSUME KeystoreAssumption ==
    /\ InitialKeystores \subseteq Keystore \cup {NoKeystore}
    /\ \A k \in InitialKeystores \ {NoKeystore} : RecordsAreUnique(k)
    /\ NoKeystore \notin Keystore

\* A fresh handshake: every run starts from PairingHandshake::new().
Init ==
    /\ HandshakeInit
    /\ pc = "load"
    /\ now = 0
    /\ timer = 0
    /\ contents = NoKeystore
    /\ disk \in InitialKeystores
    /\ peer = NoPhone
    /\ runs = 1
    /\ stepped = 0
    /\ acked = {}

Goto(label) == pc' = label

KeepHandshake == UNCHANGED handshakeVars

-----------------------------------------------------------------------------
(* Starting up *)

from_identity(id) == [identity |-> id, pairings |-> {}]

(* Load the keystore, or generate an identity that so far lives in memory   *)
(* only; the identity of a run that bootstraps is the number of that run.   *)
LoadOrBootstrap ==
    /\ pc = "load"
    /\ contents' = IF disk = NoKeystore
                   THEN from_identity(runs)
                   ELSE disk
    /\ Goto("start")
    /\ KeepHandshake
    /\ UNCHANGED <<now, timer, disk, peer, runs, stepped, acked>>

OpenWindow ==
    /\ pc = "start"
    /\ Start(now, PAIRING_WINDOW_DEFAULT_MS)
    /\ Goto("bind")
    /\ UNCHANGED <<now, timer, contents, disk, peer, runs, stepped, acked>>

\* The deadline is given a length in a coarser unit than the window.
Bind_CoarserUnit ==
    /\ pc = "bind"
    /\ timer' = 2 * PAIRING_WINDOW_DEFAULT_MS
    /\ Goto("loop")
    /\ KeepHandshake
    /\ UNCHANGED <<now, contents, disk, peer, runs, stepped, acked>>

(* The listener is bound, then the deadline starts to run. *)
Bind ==
    /\ pc = "bind"
    /\ timer' = PAIRING_WINDOW_DEFAULT_MS
    /\ Goto("loop")
    /\ KeepHandshake
    /\ UNCHANGED <<now, contents, disk, peer, runs, stepped, acked>>

(* Every `?` on the way to the loop: an unreadable keystore, no randomness, *)
(* the port held by a running listener.                                     *)
StartupFails ==
    /\ pc \in {"load", "start", "bind"}
    /\ Goto("exit")
    /\ KeepHandshake
    /\ UNCHANGED <<now, timer, contents, disk, peer, runs, stepped, acked>>

-----------------------------------------------------------------------------
(* The accept loop *)

LoopTick ==
    /\ pc = "loop"
    /\ Tick(now)
    /\ Goto(IF TickVerdict(now) = "Expired" THEN "exit" ELSE "select")
    /\ UNCHANGED <<now, timer, contents, disk, peer, runs, stepped, acked>>

\* A deadline that is only honoured while a code is being awaited.
DeadlineFires_WhileAwaiting ==
    /\ pc = "select"
    /\ timer = 0
    /\ phase = "Awaiting"
    /\ Goto("exit")
    /\ KeepHandshake
    /\ UNCHANGED <<now, timer, contents, disk, peer, runs, stepped, acked>>

DeadlineFires ==
    /\ pc = "select"
    /\ timer = 0
    /\ Goto("exit")
    /\ KeepHandshake
    /\ UNCHANGED <<now, timer, contents, disk, peer, runs, stepped, acked>>

Accept(p) ==
    /\ pc = "select"
    /\ peer' = p
    /\ Goto("tls")
    /\ KeepHandshake
    /\ UNCHANGED <<now, timer, contents, disk, runs, stepped, acked>>

AcceptFails ==
    /\ pc = "select"
    /\ Goto("exit")
    /\ KeepHandshake
    /\ UNCHANGED <<now, timer, contents, disk, peer, runs, stepped, acked>>

(* A failed TLS handshake goes straight back to the top of the loop. *)
TlsFails ==
    /\ pc = "tls"
    /\ peer' = NoPhone
    /\ Goto("loop")
    /\ KeepHandshake
    /\ UNCHANGED <<now, timer, contents, disk, runs, stepped, acked>>

TlsAccepts ==
    /\ pc = "tls"
    /\ Goto("read")
    /\ KeepHandshake
    /\ UNCHANGED <<now, timer, contents, disk, peer, runs, stepped, acked>>

(* The peer closes, or sends something that is not an envelope: Err. *)
ReadFails ==
    /\ pc = "read"
    /\ Goto("check")
    /\ KeepHandshake
    /\ UNCHANGED <<now, timer, contents, disk, peer, runs, stepped, acked>>

(* The payload is undecodable or not a Pair: the peer is sent an error,     *)
(* delivered or not, and the handshake is not reached.                      *)
ReadsNoPair ==
    /\ pc = "read"
    /\ Goto("check")
    /\ KeepHandshake
    /\ UNCHANGED <<now, timer, contents, disk, peer, runs, stepped, acked>>

from_core(r) == [phone_name |-> r.phone_name, client_spki |-> r.client_spki,
                 paired_at |-> r.paired_at, revoked |-> FALSE]

\* A push without the retain before it.
WithPairing_NoRetain(c, r) == [c EXCEPT !.pairings = @ \cup {from_core(r)}]

\* A retain with its condition inverted.
WithPairing_RetainsSame(c, r) ==
    [c EXCEPT !.pairings = {q \in @ : q.client_spki = r.client_spki /\ q.revoked}
                              \cup {from_core(r)}]

(* Re-pairing replaces the record of the same SPKI. *)
WithPairing(c, r) ==
    [c EXCEPT !.pairings = {q \in @ : q.client_spki # r.client_spki}
                              \cup {from_core(r)}]

(* A Pair frame.  On success memory is updated and the save comes next; on  *)
(* a rejection the peer is sent NotPaired, delivered or not.                *)
ReadsPair(offered, name) ==
    /\ pc = "read"
    /\ AcceptPair(now, offered, name, peer)
    /\ IF AcceptVerdict(now, offered) = "Succeeded"
       THEN contents' = WithPairing(contents, record') /\ Goto("save")
       ELSE UNCHANGED contents /\ Goto("check")
    /\ UNCHANGED <<now, timer, disk, peer, runs, stepped, acked>>

\* The Ack leaves before the keystore is written.
Save_AckFirst ==
    /\ pc = "save"
    /\ acked' = acked \cup {<<peer, contents.identity>>}
    /\ Goto("ack")
    /\ KeepHandshake
    /\ UNCHANGED <<now, timer, contents, disk, peer, runs, stepped>>

Save ==
    /\ pc = "save"
    /\ disk' = contents
    /\ Goto("ack")
    /\ KeepHandshake
    /\ UNCHANGED <<now, timer, contents, peer, runs, stepped, acked>>

SaveFails ==
    /\ pc = "save"
    /\ Goto("check")
    /\ KeepHandshake
    /\ UNCHANGED <<now, timer, contents, disk, peer, runs, stepped, acked>>

SendAck ==
    /\ pc = "ack"
    /\ acked' = acked \cup {<<peer, contents.identity>>}
    /\ Goto("exit")
    /\ KeepHandshake
    /\ UNCHANGED <<now, timer, contents, disk, peer, runs, stepped>>

(* The peer is gone: the record is on disk, the phone does not know. *)
SendAckFails ==
    /\ pc = "ack"
    /\ Goto("check")
    /\ KeepHandshake
    /\ UNCHANGED <<now, timer, contents, disk, peer, runs, stepped, acked>>

(* After the attempt: leave if the window has closed. *)
CheckIdle ==
    /\ pc = "check"
    /\ peer' = NoPhone
    /\ Goto(IF phase = "Idle" THEN "exit" ELSE "loop")
    /\ KeepHandshake
    /\ UNCHANGED <<now, timer, contents, disk, runs, stepped, acked>>

-----------------------------------------------------------------------------
(* The environment *)

\* One tick of real time: the wall clock and the deadline timer both move.
\* unix_ms_now saturates at U64_MAX.
Advance ==
    /\ now < U64_MAX \/ timer > 0
    /\ now' = saturating_add(now, 1)
    /\ timer' = IF timer > 0 THEN timer - 1 ELSE 0
    /\ KeepHandshake
    /\ UNCHANGED <<pc, contents, disk, peer, runs, stepped, acked>>

StepClock ==
    /\ stepped < MaxClockSteps
    /\ now' \in Time \ {now}
    /\ stepped' = stepped + 1
    /\ KeepHandshake
    /\ UNCHANGED <<pc, timer, contents, disk, peer, runs, acked>>

Kill ==
    /\ pc # "exit"
    /\ Goto("exit")
    /\ KeepHandshake
    /\ UNCHANGED <<now, timer, contents, disk, peer, runs, stepped, acked>>

(* The user runs `pair` again: a new process, a new handshake. *)
Rerun ==
    /\ pc = "exit"
    /\ runs < MaxRuns
    /\ runs' = runs + 1
    /\ ToIdle
    /\ window' = [ends |-> 0, compared |-> 0, verdicts |-> 0]
    /\ contents' = NoKeystore
    /\ peer' = NoPhone
    /\ timer' = 0
    /\ Goto("load")
    /\ UNCHANGED <<now, disk, stepped, acked>>

-----------------------------------------------------------------------------
\* The process's own steps, those its peer decides, and the rest.
Daemon == \/ LoadOrBootstrap \/ OpenWindow \/ Bind \/ LoopTick \/ DeadlineFires
          \/ Save \/ SendAck \/ CheckIdle

PeerActs == \/ TlsFails \/ TlsAccepts \/ ReadFails \/ ReadsNoPair
            \/ \E offered \in Offered, name \in Name : ReadsPair(offered, name)

Failures == StartupFails \/ AcceptFails \/ SaveFails \/ SendAckFails \/ Kill

Next == \/ Daemon
        \/ PeerActs
        \/ \E p \in Phone : Accept(p)
        \/ Failures
        \/ Advance \/ StepClock \/ Rerun

Spec == Init /\ [][Next]_vars

(* The process runs whenever it can, time passes, and select!, which polls  *)
(* its branches in random order, does not pass over a ready deadline        *)
(* forever.                                                                 *)
DaemonFairness ==
    /\ WF_vars(Daemon)
    /\ SF_vars(DeadlineFires)
    /\ WF_vars(Advance)

(* Nothing in the code bounds the wait for a peer: that it sends something  *)
(* or goes away is an assumption about the peer.                            *)
PeerFairness == WF_vars(PeerActs)

StalledPeerSpec == Spec /\ DaemonFairness
FairSpec == Spec /\ DaemonFairness /\ PeerFairness

-----------------------------------------------------------------------------
PCs == {"load", "start", "bind", "loop", "select", "tls", "read", "save",
        "ack", "check", "exit"}

(* The types of the flow's variables, and what is loaded or connected where *)
(* in the process; the deadline is never longer than the window it ends.    *)
FlowTypeOK ==
    /\ HandshakeTypeOK
    /\ pc \in PCs
    /\ now \in Time
    /\ timer \in 0 .. PAIRING_WINDOW_DEFAULT_MS
    /\ contents \in Keystore \cup {NoKeystore}
    /\ disk \in Keystore \cup {NoKeystore}
    /\ peer \in Phone \cup {NoPhone}
    /\ runs \in 1 .. MaxRuns
    /\ stepped \in 0 .. MaxClockSteps
    /\ acked \subseteq Phone \X Nat
    /\ pc \notin {"load", "exit"} => contents \in Keystore
    /\ pc \in {"tls", "read", "save", "ack"} => peer \in Phone

Spkis(k) == IF k = NoKeystore THEN {} ELSE {r.client_spki : r \in k.pairings}

(* A phone that received the Ack of a Pair stays paired with the daemon     *)
(* identity it was shown, whatever fails or is run again afterwards: the    *)
(* save comes before the Ack, and an identity that phones rely on is never  *)
(* replaced by a fresh one.                                                 *)
AckedIsPaired ==
    \A a \in acked : disk # NoKeystore /\ disk.identity = a[2]
                       /\ a[1] \in Spkis(disk)

(* The keystore never holds two records of one SPKI, even after re-pairing, *)
(* failed saves and reruns (the retain before the push).                    *)
OneRecordPerSpki == disk # NoKeystore => RecordsAreUnique(disk)

(* A save of this process adds at most the one phone that presented the     *)
(* code in time, and never drops another phone.                             *)
SaveAddsOnePhone ==
    [][disk' # disk =>
         /\ phase = "Paired" /\ record.paired_at < window.ends
         /\ Spkis(disk') = Spkis(disk) \cup {record.client_spki}]_vars

(* Once the loop runs, the process ends by itself - provided every accepted *)
(* peer sends something or goes away.                                       *)
PairTerminates == pc = "loop" ~> pc = "exit"

(* "This window is valid for 5 minutes": the window does not outlive its    *)
(* deadline for ever, whatever its peers do.                                *)
WindowEnds == phase = "Awaiting" ~> (phase # "Awaiting" \/ pc = "exit")
=============================================================================
