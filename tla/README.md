# wake-my-pc: a TLA+ model of the daemon

`wake-my-pc` lets paired phones put a PC to sleep, lock it or shut it down over
mutually authenticated TLS. This directory models the daemon's own logic: the
pairing window and the `pair` process around it, the keystore file, the byte
framing, the long-running listener with its connections, the admin subcommands
and `pair` that change the keystore behind the listener's back, the Windows
service around the listener and the OS handlers below it. Paths below are
relative to the repository, which the tables call `src/`.

## Inventory

| Component | State | Operations | Interacts with | Hard because |
|---|---|---|---|---|
| Pairing state machine (`core/src/crypto/pairing.rs`) | `Idle`, `Awaiting{code, expiry, failures}`, `Paired{record}` | `start`, `accept_pair`, `tick`, `reset`, code sampling | called by `pair` | any order of calls, a wall clock that can go back, limits |
| `pair` (`daemon/src/pairing_flow.rs`) | keystore copy, handshake, deadline | bootstrap, open, accept, attempt, save, Ack | keystore file, phones | failure between save and Ack, silent peers, kill and rerun |
| Keystore file (`daemon/src/keystore/`) | `keystore.bin`, one temporary name per pid | `load`, `save` | every process | crashes, leftovers, two saves in one process |
| Listener (`daemon/src/server/{mod,listener}.rs`) | `SharedState`: the keystore as loaded at start | bind, load, accept, stop, drain | keystore file, port, connections | never reloads; tasks outlive the accept loop |
| Connection (`daemon/src/server/connection.rs`) | nonces, the peer | pre-flight, address, `dispatch` of eight frames, reply, close | shared state behind a lock | tasks interleave at every await |
| Admin subcommands (`daemon/src/admin.rs`) | none | `revoke`, `reauth-now`, uninstall broadcast, `list-paired` | keystore file only | concurrent with the listener |
| Re-auth window (`daemon/src/reauth.rs`) | `last_authenticated_at`, interval | `evaluate`, `expires_at` | gate in `dispatch` | boundaries, who may move it |
| Nonces, pins (`core/src/crypto/{nonce,pin}.rs`) | last seen, send counter, pin set | accept, issue, verify | connection, listener | replays, stale pins |
| Envelope and messages (`core/src/protocol/`) | the read buffer of the loop that decodes | encode, decode | connection, `pair` | frames split and merged by the stream, limits, end of stream |
| Windows service (`daemon/src/service.rs`) | SCM status, stop signal | run, stop, install, uninstall | SCM, listener | a Stop at any moment of startup; overlap of two processes |
| OS handlers (`daemon/src/platform/`) | the privilege flag | prepare, sleep, lock, power off, probe | `dispatch`, Windows | users act between two calls; success that is none |
| Installer (`daemon/wix/`) | none | installs and removes the service, runs the broadcast | SCM | order decided by the Windows Installer |

What makes each correct: a window admits a bounded number of guesses and ends
once; a phone that got an Ack is paired durably, and no other phone is lost;
the keystore always loads and a save is atomic; only active phones have
sessions, a frame is run at most once, an acknowledged change is on disk, every
request is answered; what a read loop hands on is what the peer sent, within a
bounded buffer; a Stop is always served and leaves the port free; the handlers
report no lock that was not there and power off only when allowed. The hazards,
each at its line and with the properties that cover it, are in `PROJECT.json`.

## Modules

| Module | Models | Notes |
|---|---|---|
| `PairingHandshake` | `pairing.rs` | pure; clock readings are parameters; what a call returns is `AcceptVerdict`, `TickVerdict` |
| `PairingFlow` | `pairing_flow.rs` | extends `PairingHandshake`; one action per stretch between awaits |
| `AtomicStore` | what `save` and `load` promise | a register: call, commit or fail, crash |
| `KeystoreFile` | `keystore/mod.rs` | names and files apart; open, write and rename are separate steps |
| `Reauth` | `reauth.rs` | pure operators, saturating |
| `Server` | `server/`, `admin.rs`, `nonce.rs`, the client verifier of `pin.rs`, `pair` as a process | extends `KeystoreFile` and `Reauth`; connections, admin processes and `pair` are its savers |
| `EnvelopeStream` | `envelope.rs`, `decode_payload`, `read_envelope`, `read_one_envelope` | real bytes in a small base; both read loops |
| `Service` | `service.rs`, `accept_loop` as the SCM sees it | processes, SCM record, port, admin processes |
| `OsHandlers` | `platform/windows.rs` | processes against users who act at any moment |
| `MC...` | instances for TLC | |
| `...Proofs` | theorems about `PairingHandshake`, `PairingFlow`, `KeystoreFile`, `Server`, `EnvelopeStream`, `Service`, `OsHandlers` | checked by TLAPS |
| `ServerSafetyProofs` | the sessions, the gate and the acknowledgements of `Server`, on top of `ServerProofs` | checked by TLAPS |

`Server` composes the listener, its connections, `KeystoreFile`, the admin
subcommands and `pair`. `Service` has the same listener from the outside, with
what only the SCM sees; `EnvelopeStream` has the inside of one read of a
connection, which in `Server` is `Receive`, `ReceiveUndecodable` or `Hangup`;
`OsHandlers` has the inside of `Server!Handlers`.

**State and code.** In `PairingHandshake`, `phase`, `code`, `expires_at`,
`failed` and `record` are the fields of `PairingState`; `window` observes the
last window opened and influences nothing. In `PairingFlow`, `pc` names the
place in `run` and `handle_pair_attempt`, `contents` and `disk` are the copy in
memory and the file. `keystore::save` is one step there, which is what
`SaveIsAtomic` proves for a process with a single saver. In `KeystoreFile`,
`path` and `tmp` are directory entries, `file` what the files hold, and `step`,
`fd`, `pending`, `outcome` the local state of each `save`. In `Server`, `mem`
is `SharedState`, `conn[c].st` the place in `connection::run`, `cli` the admin
processes and `pair`, `port` who is bound to the TCP port. No guard reads the
observations: `config`, `reported`, `crossed`, `paired` and `granted`, the
fields `ran` and `known` of a connection and `alone` of a process.
`PairingFlow` has the steps of `pair`; in `Server` it is load, bind, save, Ack,
with the phone's frames abstracted away, and `lingering` is the `pair` whose
save or Ack failed: it pairs nobody any more, but holds the port until its
deadline. `ServerAssumption` says that the listener and the subcommands are
processes with pids of their own; connections share the listener's.

In `EnvelopeStream`, `wire` is all the peer will write, `arrived` how much of
it was read, `buf` the loop's buffer, `st` the place in the loop or how the
connection ended, `out` an observation of the envelopes returned. In `Service`,
`scm` is the SCM's record, `proc[p].pc` the place in `run_service`, `sent` the
oneshot's value; `stops` observes the Stops delivered. In `OsHandlers`,
`enabled` is the token, `ready` the static flag, `probe` the session id between
the two WTS calls; `locked` and `refused` are observations.

**Atomicity.** A step is what a task does between two awaits or under one hold
of the lock: taking the pins, the pre-flight lookup, the address update, the
change made by a `ReauthConfig`, the clone at the head of `SharedState::save`,
and each file operation. When `accept_loop` returns, the port is free, but the
connection tasks run on until the runtime is dropped: `ServeClose` begins that
time and `ServeStop` ends it. `accept_loop`'s failures to accept or to build a
config change nothing and have no action.

**Data.** A code is a number in a small range. Keystore contents are the
pairing status and address of each phone, the interval and the last
authentication. `revoke_pending` always equals `revoked` in the code, so one
status stands for both; the `last_authenticated_at` of a record is never read.
Names select phones for `revoke`. A frame is its variant. Replies are their
error code or variant. A file that is neither empty nor whole is `Unreadable`.
Bytes are kept as bytes, with their length prefix, only in `EnvelopeStream`.

## Runs

| Run | Result | What it shows |
|---|---|---|
| `handshake` | pass | `GuessBound`, `OneVerdict`, `PairedInTime`, `WindowIsFixed`, `UniformCodes`, and the inductive invariant |
| `pair_flow` | pass | `AckedIsPaired`, `OneRecordPerSpki`, `SaveAddsOnePhone` with failing saves, lost Acks, kill, rerun, clock steps; `PairTerminates` if accepted peers send something or leave |
| `pair_flow_stalled_peer` | violation of `WindowEnds` | a silent peer holds the window open past its deadline |
| `keystore_file` | pass | one saver per process: `AlwaysLoadable`, and `save` implements `AtomicStore` |
| `keystore_shared_tmp` | violation of `AlwaysLoadable` | two savers of one process share a temporary file and publish a mixed one |
| `server_admin` | pass | restarts, draining and an admin subcommand or a `pair` beside one connection: `GateHolds`, `AckedConfigDurable`, `NoCommandTwice`, `PairedKnown`, `AlwaysLoadable` |
| `server_sessions` | pass | two connections: `SessionsAreActive`, `AckedConfigDurable` while the other connection saves before and after, and `RequestAnswered` |
| `server_revoked_phone` | violation of `RevokedGetNoSession` | the running listener never sees a revoke |
| `server_revocation_lost` | violation of `RevocationStays` | and its next save undoes it on disk |
| `envelope_stream` | pass | every short stream in every chunking: `DeliveredIsSent`, `WellFormedIsServed`, `BoundedBuffer`, `EndIsTrue`, and `StreamEnds` |
| `service` | pass | `StoppedIsClosed`, `CleanExitWasAsked`; a Stop at any moment is served (`StopIsServed`) and a deletion with a Stop behind it completes (`DeleteCompletes`) |
| `os_handlers` | pass | `NoFalseLock`, `PowerOffAuthorised` |

The violation runs state what a document, a comment or a message of the
repository says; the findings in `PROJECT.json` quote it.

More was met while modelling that has no run of its own.

- After a failed save or a lost Ack in `pair` the handshake is `Paired`, so the
  process goes on accepting with a window that can pair nobody, until the
  deadline; the comment at `pairing_flow.rs:123` says the window stays open.
- When the saves of two connections overlap, an acknowledged interval can be
  lost: `SharedState::save` clones under the lock and writes after it
  (`state.rs:108`), so an older clone can be renamed last. Two connections
  are enough, and `accept_loop` puts no limit on them. `AckedConfigDurable`
  therefore speaks of the requests since which no two saves of connections
  overlapped, and says so; without `~config.overlap` TLC finds it violated in
  `server_sessions`.
- When two subcommands save at once, a phone that `pair` acknowledged can be
  lost: `revoke` and `pair` each save the copy they loaded (`admin.rs`,
  `pairing_flow.rs:44`), in either order. `PairedKnown` therefore leaves out a
  `pair` whose save `crossed` another, and a phone that a later save does not
  have: a `revoke` that loaded before `pair` saved takes the new phone out of
  the file again.
- A listener that is shut down frees the port before its tasks end. A `pair`
  that binds in that time can have its phone overwritten by a late save;
  `PairedKnown` speaks of the others (`alone`).
- `run_service` reports Stopped before it drops the runtime, so the process the
  SCM starts next may overlap the last saves of the one before.
- `reauth-now` has the cause of `server_revoked_phone`: a running listener does
  not see it (`docs/PLAN.md:121` expects it to).
- A phone that is answered `RequiresReauth` can set the interval to `Off` with
  `ReauthConfig` and have its next command run. `docs/PLAN.md:107` lets only
  `ReauthStatus` succeed in `NeedsReauth` and asks for a credential prompt,
  `docs/PROTOCOL.md:133` and `:204` name `ReauthStatus` and `RevokeAck`;
  `reauth.rs:20` allows `ReauthConfig`, and `dispatch` does not gate it.
  `GateHolds` is about what does hold: `last_authenticated_at` is only moved by
  `reauth-now`, and every command is inside the window of such an
  authentication and the interval in force. It takes the last interval a phone
  asked for as in force, so it says nothing against phones that ask.
- A `RevokeAck` never removes anything, although `connection.rs:316` describes
  the removal: the listener's copy never turns revoked while it runs, and a
  revoked phone cannot connect. That no pairing changes in a running listener
  is no property here, since `listener.rs:6-8` and `admin.rs:2-3` want the
  opposite; `server_revoked_phone` is the run about it.
- The error that closes a connection has nonce 1 (`docs/PROTOCOL.md:95` would
  reject it); the comment at `connection.rs:211` accepts that.
- A framing error (size, version) closes the connection without a typed error
  frame, although `to_wire_code` has codes for it; an unknown tag is
  `MalformedFrame` and closes, where `message.rs:79` has `Unsupported` leave
  the connection open.
- The 64-byte limit of `phone_name` in the comment at `message.rs:90` is not
  enforced.
- `install-service` on an installed service is an error; the comment at
  `service.rs:156` calls it idempotent.

**Bounds.** The window: a budget of a few attempts, a code space that does not
divide the sample range (so that rejection matters), and a clock of a few ticks
whose last value saturates; every call takes any clock reading. `pair`: two runs
over two phones, one of which may be in the keystore already, and one clock
step: a first run that is lost or succeeds, and a second that must preserve what
the first did. The file: one for the keystore and one per temporary name or
orphan a task still has open, so that a save never runs out. The server: two
connections are enough for every race on the shared copy, since a race is
between one save and one other task. They share one temporary name and have two
files, so that they truncate and rename each other's; what the second file cuts
off is a third save in a row while another task still has the orphan of the
first open, which waits. Two starts are for what a restart loads. A day is a
tick and the keystore starts with the interval `Off`: in `server_admin` a phone
that asks for `OneDay` tightens it, and one tick later the gate must refuse; in
`server_sessions` phones ask for both, so that an old and a new interval can be
told apart. Nonces go up to 2 with one connection, so that equal and smaller
ones occur. `Drain` lets connections run on after the accept loop; it is off in
`server_sessions`, which has a single start and nobody to share the port with.
The largest server run has 1.6 million distinct states. The framing: bytes have
three values, the prefix is two bytes, the header one, and a stream up to nine,
so that frames below, at and above both limits occur, two frames fit in one
stream, and every cut of them is a chunking; messages have different numbers of
field bytes, so that short and trailing payloads occur. The service: two
launches, so that a process that has reported Stopped overlaps the next, and two
admin processes, so that an install or a second uninstall races an uninstall.
The OS handlers: two processes with different luck in `prepare`, two sessions to
switch between. `Symmetry` permutes files, processes or sessions, and only in
runs of invariants or action properties.

**Deadlock.** The server runs say `CHECK_DEADLOCK FALSE`: a listener that has
been stopped for the last time stays stopped. So do the runs of `pair`, of the
stream and of the service, whose processes end.

**Fairness.** `pair`: weak fairness of its own steps and of time; strong
fairness of the deadline, because `tokio::select!` without `biased` polls its
branches in random order and a ready deadline is not passed over for ever.
`PeerFairness` is an assumption about peers that nothing in the code enforces,
which is why `StalledPeerSpec` leaves it out. Server: weak fairness of the tasks
and of their file operations: the executor schedules tasks, and system calls
return, well or badly. That includes `write_all` of a reply, which has no
timeout: `RequestAnswered` assumes that a small reply fits the socket's buffer
or the connection breaks, and a peer that stays connected and never reads can
hold a task there. Nothing else is assumed of peers, and nothing of users or the
clock. Stream: weak fairness of the loop, for a peer that writes what it will
and then closes or breaks the connection: a read returns bytes, the end of the
stream or an error. `StreamEnds` says nothing of a peer that stays connected and
silent, which holds the connection open; the code has no idle timeout. Service:
weak fairness of `run_service`, of `uninstall-service` once it has the service
open, and of the SCM's removal of what it may remove; nothing is assumed of
phones, users and crashes. That a connecting phone never starves a Stop is the
`biased` of the select, not an assumption. That the reports to the SCM
themselves succeed is assumed for Stopped, whose result the code ignores.

## Proofs

`PairingHandshakeProofs` proves, for every budget of 1 to 255 attempts, code
modulus, sample range, clock range and set of phones,

- `HandshakeCorrect`: `HandshakeSpec => []HandshakeInv`;
- `GuessesAreBounded`: at most `MAX_PAIRING_ATTEMPTS` comparisons per window;
- `EndIsReportedOnce` and `NoLatePairing`: `OneVerdict` and `PairedInTime`;
- `OpenWindowIsFixed`: the action property `WindowIsFixed`;
- `CodesAreUniform`: `UniformCodes`, because the accepted samples of a code are
  in bijection with `0 .. k - 1` for the same `k` whatever the code.

`GuessBound` is not inductive: it says nothing about how many comparisons an
open window still allows. `OpenWindowCounts` adds that, while the window is
open, the failures counted are the comparisons made and the end is the one
fixed at `start`; the type invariant bounds the failures below the budget. The
proof has one lemma per call.

`PairingFlowProofs` proves, for any number of runs, clock steps and phones and
any keystore on disk with one record per SPKI (what this program writes),
`FlowTypesHold` (`FlowTypeOK`), `AckedStaysPaired` (`AckedIsPaired`),
`SpkisAreUnique` (`OneRecordPerSpki`) and the action property
`SavesAddOnePhone` (`SaveAddsOnePhone`). The invariant is `FlowInv`, of
`FlowCorrect`: on top of `HandshakeInv`, `MemoryFollowsDisk` says that the
keystore in memory is the one on disk, or a fresh one if there is none, until
the handshake is `Paired`, and then has that phone more and the same identity;
`ProgressMatches` ties the place in the code to the phase of the handshake, so
that what is saved is what was presented and an Ack follows a save. Without
them nothing links what is acknowledged to what a later run loads. The phases
of the handshake come from the lemmas of `PairingHandshakeProofs`.

`FlowDrivesHandshake` ties the two modules together: every behaviour of `pair`
is one of `PairingHandshake`, except that a new process begins with a new
machine. `FlowBoundsGuesses` (`GuessBound`), `FlowPairsInTime` (`PairedInTime`)
and `FlowWindowIsFixed` (`WindowIsFixed`) therefore hold of the whole process
and not only of the machine called in isolation, over kills, reruns and clock
steps.

`KeystoreFileProofs` proves, for any number of processes and files and under
`OneSaverPerProcess`,

- `FileCorrect`: `FileSpec => []FileInv`;
- `KeystoreAlwaysLoadable`: the keystore loads at every moment;
- `SaveIsAtomic`: `FileSpec => ImplementsStore`, step simulation of
  `AtomicStore` with the loaded value as its register.

`AlwaysLoadable` needs two strengthenings: `OwnTmp`, that the temporary file of
a process is nobody else's and is not the keystore, and `WholeBeforeRename`,
that it holds exactly the contents being saved when the rename comes. Without
`OneSaverPerProcess` both fail, as `keystore_shared_tmp` shows; the hypothesis
holds for `pair` and the admin subcommands, and for a listener with one
connection at a time.

`ServerProofs` proves, for any number of connections, subcommands, phones and
restarts, `ServerTypesHold` (`ServerTypeOK`) and `ServerUsesFile`: every
behaviour of `Server` is one of `KeystoreFile`. Under `OneSaverPerProcess`,
which here says one connection at a time, `ServerKeystoreLoadable`
(`AlwaysLoadable`) and `ServerSavesAreAtomic` (`ImplementsStore`) follow from
the theorems about the file. The invariant is `BaseInv`: the types, and in
`WorkMatches` what a connection or a subcommand holds at each place of its
code, for a step of the file belongs to a task only where its code saves.

`ServerSafetyProofs` builds on `BaseInv`, and everything in it holds for any
number of connections, subcommands, phones and restarts. Two lemmas carry it:
`ConnChanges`, that whatever happens, the record of a connection changes in one
of seven ways, and `MemoryChanges`, that a running listener keeps its
authentication time and its active phones in memory, and changes the interval
only for a `ReauthConfig`.

- `NoncesRunOnce` (`NoCommandTwice`): `NoncesCount` adds that no nonce after
  the last one seen has run anything, nor has the one in `dispatch`.
- `SessionsStayActive` (`SessionsAreActive`): `PinsAreActive` adds that the
  pins taken at accept are still active in memory and that the phone of a
  session is one of them. No step of a running listener makes an active phone
  inactive.
- `CommandsAreGated` (`GateHolds`): `HeldAreGranted` adds that every keystore
  held anywhere, in a file, by a save, in memory or by a subcommand, has an
  authentication that `reauth-now` recorded, so that a stale copy has one, too;
  `MemInForce`, that memory has the interval last asked for or loaded. What
  `evaluate` admits is inside the window by `ActiveIsOpen`: saturation only
  makes a window shorter.
- `AckedConfigIsDurable` (`AckedConfigDurable`): connections share a temporary
  file, so nothing can be said of a save that another one overlaps. What can be
  said is in `ConfigOnItsWay`: as long as none did, one save at most is under
  way in the listener, its file is `Whole` (empty before the write, exactly the
  clone before the rename), and the interval is followed from the
  `ReauthConfig` over memory and clone to the file and the Ack. `TmpsApart`,
  that the temporary files of two processes differ and none is the keystore,
  keeps every other process out of it.
- `PairedStaysKnown` (`PairedKnown`): `AlonePairs` says that a `pair` that
  bound the port with no listener process left keeps it down, because a
  listener binds before it loads, and that the file of one that crossed nobody
  is whole and then on disk; `PairedKept`, that from the Ack on the phone is on
  disk, in memory and in every clone and file on its way there. Two connections
  may mix their clones in one file: whatever comes of that has the phone or
  does not load.

`EnvelopeStreamProofs` proves, for every base, prefix, header, limit, chunk
size and stream, `HandledIsWellFormed` (`StreamTypeOK`), `BufferIsBounded`
(`BoundedBuffer`) and `EndIsJudgedTruly` (`EndIsTrue`). The strengthening is
`ReadsIncomplete`: the loop reads only while the decoder calls the buffer
incomplete, which is what bounds the buffer before a read and leaves no whole
frame behind at the end.

`DeliveredAsSent` (`DeliveredIsSent`) and `WellFormedIsAlwaysServed`
(`WellFormedIsServed`) say what `encode_envelope` and `decode_envelope` are to
each other, over whole streams. Both need induction over data: over the digits
of a length prefix and over the envelopes of a stream. The library's induction
theorems, which take a predicate, are out of the provers' reach, but its
`WFMin`, which takes a set, is not: `LeastElement` and `InductionUpTo` make
induction over a set of numbers of it, and the recursive functions of the codec
and of `FlattenSeq` are unfolded one index at a time.

- `PrefixRoundTrip`: the bytes of a prefix are those `ToBytes` makes of the
  number they announce; with `EncodedAppend`, taking a frame out of the buffer
  moves exactly its encoding from one side of `DeliveredIsSent` to the other.
- `LengthFits`: the other way, a length within the limits is what its prefix
  announces. This needs `PrefixAssumption`, that the largest frame is a number
  the prefix can hold (64 KiB in four bytes); a prefix one byte long would cut
  lengths off.
- `DecodeStart`: on a buffer that holds the beginning of an accepted envelope's
  encoding the decoder says incomplete until it is whole, and then returns it.
- `FollowsPeer` is the invariant: while the peer writes accepted envelopes,
  those returned are the first ones it wrote, and no framing error was found.
  At the end of the stream `EndIsTrue` leaves no whole frame, so that all of
  them were returned.

Apart from that, the sizes are only assumed to be positive and a byte to have at
least two values.

`ServiceProofs` proves, for any number of launches and admin processes,
`ServiceTypesHold`, `StoppedFreesThePort` and `CleanExitsWereAsked`. None is
inductive alone: `OneService` says that from its launch to its report of
Stopped a process is the one the SCM has on record (so there is one),
`StatusFits` and `HandleKeeps` that the record of a running or opened service
is not replaced, `SignalWasAsked` that the oneshot has a value only after a
Stop. There is one lemma per kind of step.

`OsHandlersProofs` proves, for any number of processes and sessions,
`OsTypesHold` (`OsTypeOK`), `LockReportsAreTrue` (`NoFalseLock`) and
`PowerOffIsAuthorised` (`PowerOffAuthorised`), from `ProbeSees` (an open probe
has seen a console that is locked now) and `ReadyIsEnabled` (the flag stands for
the token of the same process).

Every invariant and action property of the passing runs is proved. Only
model-checked: liveness (`PairTerminates`, `RequestAnswered`, `StreamEnds`,
`StopIsServed`, `DeleteCompletes`), which needs fairness and `ENABLED`.

## Not modelled

- The postcard encoding of fields: a message is its tag and a number of bytes.
- `sleep` and `lock`: one Win32 call each, which succeeds or fails. Remote
  sessions that take over the console's session between two calls of a probe.
- The installer: the Windows Installer's own tables install, stop and remove the
  service, and decide the order. Its one custom action is the broadcast, which
  `Server` models and which it runs before the service is stopped. It removes
  the data directory only if that is empty, so the keystore stays.
- TLS, key generation and DPAPI: external.
- Power loss: `save` does not sync, so what a volume keeps is not decided here.
- The send nonces, which nothing else in the daemon depends on.
- Command line, configuration, logging; the desktop UI, bindings and mobile
  directories, which are stubs.
- Sending a `Revoke` to a phone, which the code does not do. The removal in
  `RevokeAck` is modelled, but never reached (see the list under Runs).

## Open ends

- `Server`'s `pair` and `PairingFlow` are tied by review: the first is the
  second with the phone's frames and the window left out.
- `ServerKeystoreLoadable` and `ServerSavesAreAtomic` need one connection at a
  time, as `keystore_shared_tmp` shows; the theorems of `ServerSafetyProofs` do
  not.
- A restart of the listener may load an interval that a save of its last moments
  left; `GateHolds` takes what it loads as in force.
- Proofs about `Server` repeat the case splits of `ConnChanges` in the lemmas on
  acknowledgements.
