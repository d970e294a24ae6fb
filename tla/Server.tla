------------------------------- MODULE Server -------------------------------
(***************************************************************************)
(* The long-running listener (daemon/src/server/) together with the admin  *)
(* subcommands (daemon/src/admin.rs) and `pair`, which are processes of    *)
(* their own: they share the keystore file with it and, for `pair`, the    *)
(* TCP port.                                                               *)
(*                                                                         *)
(* The listener loads the keystore once, when it starts, and keeps it in   *)
(* memory behind a lock.  Every connection is a task: an action below is   *)
(* what a task does between two awaits, or under one hold of the lock.     *)
(* SharedState::save clones the contents under the read lock and writes    *)
(* the file after releasing it, with the steps of KeystoreFile.            *)
(***************************************************************************)
EXTENDS KeystoreFile, Reauth

CONSTANTS
    Phone,      \* SPKI hashes of client certificates
    NameOf,     \* the phone_name of each phone
    Addr,       \* socket addresses phones connect from
    NoAddr,     \* last_known_address: None
    Conn,       \* connection slots: how many connections can be open at once
    Cli,        \* admin processes; each runs one subcommand
    ServePid,   \* the listener's process
    Command,    \* Sleep, Lock, PowerOff: state-changing, gated by re-auth
    Intervals,  \* the intervals phones configure
    Keystores,  \* what the keystore may hold at the beginning
    MaxTime,    \* bound: last clock reading
    MaxNonce,   \* bound: largest nonce a phone sends
    MaxStarts,  \* bound: times the listener is started
    Drain       \* bound: whether the connections take steps of their own
                \* between the end of accept_loop and the drop of the runtime

Time == 0 .. MaxTime

(* KeystoreContents.  A pairing is revoked and revoke_pending together, and *)
(* there is one record per SPKI (PairingFlow!OneRecordPerSpki).             *)
KeystoreContents ==
    [pairing  : [Phone -> {"none", "active", "revoked"}],
     address  : [Phone -> Addr \cup {NoAddr}],
     interval : {interval_to_days(i) : i \in Interval},
     last_auth : Time]

\* The frames of a phone that do not change the state of the machine.
OtherFrames == {"Pair", "StateProbe", "ReauthStatus", "RevokeAck", "ReauthConfig"}

ASSUME ServerAssumption ==
    /\ Contents = KeystoreContents
    /\ Keystores \subseteq KeystoreContents
    /\ Saver = Conn \cup Cli
    /\ \A s \in Saver : PidOf[s] = ServePid <=> s \in Conn
    /\ \A k, l \in Cli : PidOf[k] = PidOf[l] => k = l
    /\ Conn \cap Cli = {}
    /\ ServePid \in Pid
    /\ NoAddr \notin Addr
    /\ NoData \notin Phone
    /\ Command \cap OtherFrames = {}
    /\ Intervals \subseteq Interval
    /\ MaxTime \in Nat /\ MaxNonce \in Nat /\ MaxStarts \in Nat
    /\ Drain \in BOOLEAN
    /\ NoData \notin Pid
    /\ U64_MAX > MaxTime

VARIABLES
    serve,     \* the listener: down, bound, up, or draining its connections
    port,      \* the process bound to the TCP port, NoData if none
    starts,    \* times the listener was started
    mem,       \* SharedState.contents, NoData while the listener is down
    conn,      \* the connections
    cli,       \* the admin processes
    now,       \* wall clock
    config,    \* observation: the last ReauthConfig that reached memory, by
               \* which connection, whether it was acknowledged, and whether
               \* saves of connections overlapped since
    reported,  \* observation: the phones revoke reported as revoked and no
               \* pair has saved since
    crossed,   \* observation: the subcommands that saved while another did
    paired,    \* observation: the phones acknowledged by a pair that found no
               \* listener and crossed no other subcommand, as long as no
               \* subcommand has saved a copy without them
    granted    \* observation: the authentications reauth-now recorded since
               \* the beginning, and the interval the listener started with
               \* or was last told

observations == <<config, reported, crossed, paired, granted>>
vars == <<fileVars, serve, port, starts, mem, conn, cli, now, observations>>

\* ran and known are observations: how often this session ran a command for
\* each nonce, and the phones reported as revoked when it was accepted.
NoConn == [st |-> "none", phone |-> NoData, addr |-> NoAddr, pins |-> {},
           last_seen |-> 0, frame |-> "none", arg |-> "none", at |-> 0,
           resp |-> "none", ran |-> [n \in 0 .. MaxNonce |-> 0], known |-> {}]

\* alone is an observation: no listener process was left when pair bound.
NoCli == [st |-> "none", op |-> "none", data |-> NoData, phone |-> NoData,
          alone |-> FALSE]

NoRequest == [by |-> NoData, days |-> 0, acked |-> FALSE, overlap |-> FALSE]

Init ==
    /\ \E k \in Keystores, i \in Inode :
         /\ path = i
         /\ file = [j \in Inode |-> IF j = i THEN k ELSE Empty]
         /\ granted = [auths |-> {k.last_auth}, interval |-> k.interval]
    /\ tmp = [p \in Pid |-> NoInode]
    /\ step = [s \in Saver |-> "idle"]
    /\ fd = [s \in Saver |-> NoInode]
    /\ pending = [s \in Saver |-> NoData]
    /\ outcome = [s \in Saver |-> "none"]
    /\ serve = "down"
    /\ port = NoData
    /\ starts = 0
    /\ mem = NoData
    /\ conn = [c \in Conn |-> NoConn]
    /\ cli = [k \in Cli |-> NoCli]
    /\ now = 0
    /\ config = NoRequest
    /\ reported = {}
    /\ crossed = {}
    /\ paired = {}

-----------------------------------------------------------------------------
(* The process *)

BindPort == port = NoData /\ port' = ServePid /\ UNCHANGED <<mem, granted>>

(* A keystore that is missing or does not load ends the process.            *)
LoadKeystore ==
    /\ Load \in Contents
    /\ mem' = Load
    /\ granted' = [granted EXCEPT !.interval = Load.interval]
    /\ UNCHANGED port

\* A listener that loads the keystore first and then takes the port.
Startup_LoadFirst(n) == IF n = 1 THEN LoadKeystore ELSE BindPort

(* server::run binds first: the port keeps `pair` and a second listener out *)
(* before run_with_listener_handlers_shutdown loads.                        *)
Startup(n) == IF n = 1 THEN BindPort ELSE LoadKeystore

ServeBind ==
    /\ serve = "down"
    /\ starts < MaxStarts
    /\ Startup(1)
    /\ serve' = "bound"
    /\ starts' = starts + 1
    /\ UNCHANGED <<fileVars, conn, cli, now, config, reported, crossed, paired>>

ServeStart ==
    /\ serve = "bound"
    /\ Startup(2)
    /\ serve' = "up"
    /\ UNCHANGED <<fileVars, starts, conn, cli, now, config, reported, crossed, paired>>

(* accept_loop returns and the TcpListener is dropped; the connections go   *)
(* on until the runtime is.                                                 *)
ServeClose ==
    /\ Drain
    /\ serve = "up"
    /\ serve' = "draining"
    /\ port' = NoData
    /\ UNCHANGED <<fileVars, starts, mem, conn, cli, now, observations>>

PortWithout(pid) == IF port = pid THEN NoData ELSE port

\* Connections that outlive the process.
ServeStop_KeepsTasks ==
    /\ serve # "down"
    /\ serve' = "down"
    /\ port' = PortWithout(ServePid)
    /\ mem' = NoData
    /\ Exit(ServePid)
    /\ UNCHANGED <<starts, conn, cli, now, observations>>

(* The process ends: shutdown, crash or a keystore that does not load.      *)
(* Every task is dropped where it is.                                       *)
ServeStop ==
    /\ serve # "down"
    /\ serve' = "down"
    /\ port' = PortWithout(ServePid)
    /\ mem' = NoData
    /\ conn' = [c \in Conn |-> NoConn]
    /\ Exit(ServePid)
    /\ UNCHANGED <<starts, cli, now, observations>>

-----------------------------------------------------------------------------
(* A connection *)

Become(c, r) == conn' = [conn EXCEPT ![c] = r]

Running == serve \in {"up", "draining"}

At(c, st) == Running /\ conn[c].st = st

Paired(k) == {p \in Phone : k.pairing[p] # "none"}

is_active(status) == status = "active"

active_pairing(k, p) == is_active(k.pairing[p])

ActivePhones(k) == {p \in Phone : active_pairing(k, p)}

(* accept_loop and build_acceptor: the pin set of this connection is taken  *)
(* from memory when the connection is accepted.                             *)
Accept(c, p, a) ==
    /\ serve = "up"
    /\ conn[c].st = "none"
    /\ Become(c, [NoConn EXCEPT !.st = "tls", !.phone = p, !.addr = a,
                                !.pins = ActivePhones(mem),
                                !.known = reported])
    /\ UNCHANGED <<fileVars, serve, port, starts, mem, cli, now, observations>>

(* The TLS handshake, against the pins of this connection. *)
Handshake(c) ==
    /\ At(c, "tls")
    /\ Become(c, IF conn[c].phone \in conn[c].pins
                 THEN [conn[c] EXCEPT !.st = "preflight"] ELSE NoConn)
    /\ UNCHANGED <<fileVars, serve, port, starts, mem, cli, now, observations>>

\* A connection that only has to be shut down.
Closing(c) == [NoConn EXCEPT !.st = "closing", !.phone = conn[c].phone]

(* send_error_and_close: the error, then the connection is shut down. *)
SendErrorAndClose(c) == Become(c, Closing(c))

(* tls.shutdown() returns and the task ends. *)
Shutdown(c) ==
    /\ At(c, "closing")
    /\ Become(c, NoConn)
    /\ UNCHANGED <<fileVars, serve, port, starts, mem, cli, now, observations>>

(* The pairing is looked up again before the protocol starts. *)
Preflight(c) ==
    /\ At(c, "preflight")
    /\ IF active_pairing(mem, conn[c].phone)
       THEN Become(c, [conn[c] EXCEPT !.st = "address"])
       ELSE SendErrorAndClose(c)
    /\ UNCHANGED <<fileVars, serve, port, starts, mem, cli, now, observations>>

(* last_known_address, under the write lock. *)
RecordAddress(c) ==
    LET p == conn[c].phone
        changed == p \in Paired(mem) /\ mem.address[p] # conn[c].addr IN
    /\ At(c, "address")
    /\ mem' = IF changed THEN [mem EXCEPT !.address[p] = conn[c].addr] ELSE mem
    /\ Become(c, [conn[c] EXCEPT !.st = IF changed THEN "address save" ELSE "read"])
    /\ UNCHANGED <<fileVars, serve, port, starts, cli, now, observations>>

OthersSave(c) == \E d \in Conn \ {c} : step[d] # "idle"

(* SharedState::save: clone the contents; KeystoreFile takes it from there. *)
SaveShared(c) ==
    /\ Running
    /\ conn[c].st \in {"address save", "config save", "ack save"}
    /\ SaveCall(c, mem)
    /\ Become(c, [conn[c] EXCEPT !.st =
            CASE @ = "address save" -> "address saving"
              [] @ = "config save"  -> "config saving"
              [] @ = "ack save"     -> "ack saving"])
    /\ config' = [config EXCEPT !.overlap = @ \/ OthersSave(c)]
    /\ UNCHANGED <<serve, port, starts, mem, cli, now, reported, crossed, paired, granted>>

\* A check that lets the last nonce pass again.
NonceReplayed_Equal(c, n) == n < conn[c].last_seen

(* NonceReceiver::accept *)
NonceReplayed(c, n) == n <= conn[c].last_seen

(* A replayed nonce, and a payload that does not decode: an error and close. *)
ReceiveReplay(c, n) ==
    /\ At(c, "read")
    /\ NonceReplayed(c, n)
    /\ SendErrorAndClose(c)
    /\ UNCHANGED <<fileVars, serve, port, starts, mem, cli, now, observations>>

ReceiveUndecodable(c, n) ==
    /\ At(c, "read")
    /\ ~NonceReplayed(c, n)
    /\ SendErrorAndClose(c)
    /\ UNCHANGED <<fileVars, serve, port, starts, mem, cli, now, observations>>

(* A frame goes to dispatch, which reads the clock first. *)
Receive(c, n, frame, arg) ==
    /\ At(c, "read")
    /\ ~NonceReplayed(c, n)
    /\ Become(c, [conn[c] EXCEPT !.st = "dispatch", !.last_seen = n,
                                 !.frame = frame, !.arg = arg, !.at = now])
    /\ UNCHANGED <<fileVars, serve, port, starts, mem, cli, now, observations>>

Reply(c, resp) == [conn[c] EXCEPT !.st = "reply", !.resp = resp]

Blocked(c) ==
    block_state_change(evaluate(conn[c].at, mem.last_auth, mem.interval))

(* What a handler of the OS comes to on the wire. *)
Handlers(ok) == {ok, "Internal"}

(* Sleep, Lock, PowerOff: the gate, then the OS handler. *)
DispatchCommand(c) ==
    /\ At(c, "dispatch")
    /\ conn[c].frame \in Command
    /\ \/ Blocked(c) /\ Become(c, Reply(c, "RequiresReauth"))
       \/ /\ ~Blocked(c)
          /\ \E resp \in Handlers("Ack") :
               Become(c, [Reply(c, resp) EXCEPT !.ran[conn[c].last_seen] = @ + 1])
    /\ UNCHANGED <<fileVars, serve, port, starts, mem, cli, now, observations>>

(* Frames that change nothing: a Pair outside a window, and the queries. *)
DispatchQuery(c) ==
    /\ At(c, "dispatch")
    /\ \E resp \in CASE conn[c].frame = "Pair" -> {"NotPaired"}
                     [] conn[c].frame = "StateProbe" -> Handlers("StateReport")
                     [] conn[c].frame = "ReauthStatus" -> {"ReauthInfo"}
                     [] OTHER -> {} :
         Become(c, Reply(c, resp))
    /\ UNCHANGED <<fileVars, serve, port, starts, mem, cli, now, observations>>

\* A shorter interval waits for the next start.
DispatchReauthConfig_Defers(c) ==
    LET days == interval_to_days(conn[c].arg)
        longer == days = 0 \/ (mem.interval # 0 /\ days > mem.interval) IN
    /\ At(c, "dispatch")
    /\ conn[c].frame = "ReauthConfig"
    /\ mem' = IF longer THEN [mem EXCEPT !.interval = days] ELSE mem
    /\ Become(c, [conn[c] EXCEPT !.st = "config save"])
    /\ config' = [by |-> c, days |-> days, acked |-> FALSE, overlap |-> OthersSave(c)]
    /\ granted' = [granted EXCEPT !.interval = days]
    /\ UNCHANGED <<fileVars, serve, port, starts, cli, now, reported, crossed, paired>>

(* ReauthConfig changes memory under the write lock, then saves.  It is not *)
(* gated: a phone may set the interval in NeedsReauth too.                  *)
DispatchReauthConfig(c) ==
    LET days == interval_to_days(conn[c].arg) IN
    /\ At(c, "dispatch")
    /\ conn[c].frame = "ReauthConfig"
    /\ mem' = [mem EXCEPT !.interval = days]
    /\ Become(c, [conn[c] EXCEPT !.st = "config save"])
    /\ config' = [by |-> c, days |-> days, acked |-> FALSE, overlap |-> OthersSave(c)]
    /\ granted' = [granted EXCEPT !.interval = days]
    /\ UNCHANGED <<fileVars, serve, port, starts, cli, now, reported, crossed, paired>>

\* The removal forgets to look at the revoked flag.
Removable_Any(status) == status # "none"

Removable(status) == status = "revoked"

(* RevokeAck removes the peer's record if it is revoked, and then saves. *)
DispatchRevokeAck(c) ==
    LET p == conn[c].phone
        removed == Removable(mem.pairing[p]) IN
    /\ At(c, "dispatch")
    /\ conn[c].frame = "RevokeAck"
    /\ mem' = IF removed THEN [mem EXCEPT !.pairing[p] = "none",
                                          !.address[p] = NoAddr] ELSE mem
    /\ Become(c, IF removed THEN [conn[c] EXCEPT !.st = "ack save"]
                 ELSE Reply(c, "Ack"))
    /\ UNCHANGED <<fileVars, serve, port, starts, cli, now, observations>>

\* The Ack no longer depends on the save.
ConfigResponse_AlwaysAck(result) == "Ack"

ConfigResponse(result) == IF result = "ok" THEN "Ack" ELSE "Internal"

\* A failed save leaves its caller without a result.
SaveReturned_OnlyOk(c) == step[c] = "idle" /\ outcome[c] = "ok"

(* The await of SharedState::save ends, with Ok or with an error. *)
SaveReturned(c) == step[c] = "idle"

(* A task takes the result of its save: best effort after an address and    *)
(* after a RevokeAck, an error to the phone after a ReauthConfig.           *)
Saved(c) ==
    /\ Running
    /\ conn[c].st \in {"address saving", "config saving", "ack saving"}
    /\ SaveReturned(c)
    /\ Become(c, CASE conn[c].st = "address saving" -> [conn[c] EXCEPT !.st = "read"]
                   [] conn[c].st = "config saving" -> Reply(c, ConfigResponse(outcome[c]))
                   [] conn[c].st = "ack saving" -> Reply(c, "Ack"))
    /\ Consume(c)
    /\ UNCHANGED <<serve, port, starts, mem, cli, now, observations>>

response_closes_connection(resp) == resp = "NotPaired"

(* write_frame, then the next frame or the end of the connection. *)
WriteReply(c) ==
    /\ At(c, "reply")
    /\ Become(c, IF response_closes_connection(conn[c].resp)
                 THEN Closing(c)
                 ELSE [conn[c] EXCEPT !.st = "read", !.frame = "none",
                         !.arg = "none", !.at = 0, !.resp = "none"])
    /\ config' = IF /\ config.by = c
                    /\ conn[c].frame = "ReauthConfig" /\ conn[c].resp = "Ack"
                 THEN [config EXCEPT !.acked = TRUE] ELSE config
    /\ UNCHANGED <<fileVars, serve, port, starts, mem, cli, now, reported, crossed,
                   paired, granted>>

(* The peer closes, breaks the framing or stops reading: a task waiting for *)
(* it ends.                                                                 *)
Hangup(c) ==
    /\ Running
    /\ conn[c].st \in {"tls", "read", "reply"}
    /\ Become(c, NoConn)
    /\ UNCHANGED <<fileVars, serve, port, starts, mem, cli, now, observations>>

-----------------------------------------------------------------------------
(* The admin subcommands and pair: load, change, save, report. *)

MarkRevoked(k, phones) ==
    [k EXCEPT !.pairing = [p \in Phone |->
        IF p \in phones /\ @[p] # "none" THEN "revoked" ELSE @[p]]]

CliLoads(k, op, data, phone) ==
    /\ cli[k].st = "none"
    /\ Load \in Contents
    /\ cli' = [cli EXCEPT ![k] =
                  [NoCli EXCEPT !.st = "loaded", !.op = op, !.data = data,
                                !.phone = phone]]
    /\ UNCHANGED <<fileVars, serve, port, starts, mem, conn, now, observations>>

(* revoke <name>: every record with that name; none is an error. *)
revoke(k, name) ==
    LET phones == {p \in Phone : NameOf[p] = name} IN
    /\ Load \in Contents
    /\ phones \cap Paired(Load) # {}
    /\ CliLoads(k, "revoke", MarkRevoked(Load, phones), NoData)

(* reauth-now, whose credential prompt is a stub that always succeeds. *)
reauth_now(k) == CliLoads(k, "reauth_now", Load, NoData)

(* The uninstaller's broadcast: every pairing. *)
uninstall_revoke_broadcast(k) ==
    /\ Load \in Contents
    /\ CliLoads(k, "revoke", MarkRevoked(Load, Phone), NoData)

(* pair, run for a phone: PairingFlow has its steps.  It loads first, binds *)
(* the port, and saves what it loaded once the phone has sent the code.     *)
pair(k, p) == CliLoads(k, "pair", Load, p)

PairBinds(k) ==
    /\ cli[k].st = "loaded"
    /\ cli[k].op = "pair"
    /\ port = NoData
    /\ port' = PidOf[k]
    /\ cli' = [cli EXCEPT ![k].st = "bound",
                           ![k].alone = (serve = "down")]
    /\ UNCHANGED <<fileVars, serve, starts, mem, conn, now, observations>>

(* reauth-now reads the clock after the prompt; pair replaces the record of *)
(* the phone, which has no address yet.                                     *)
ToSave(k) ==
    LET data == cli[k].data IN
    CASE cli[k].op = "reauth_now" -> [data EXCEPT !.last_auth = now]
      [] cli[k].op = "pair" -> [data EXCEPT !.pairing[cli[k].phone] = "active",
                                            !.address[cli[k].phone] = NoAddr]
      [] cli[k].op = "revoke" -> data

CliSaves(k) ==
    LET others == {l \in Cli \ {k} : cli[l].st = "saving"} IN
    /\ cli[k].st = IF cli[k].op = "pair" THEN "bound" ELSE "loaded"
    /\ SaveCall(k, ToSave(k))
    /\ cli' = [cli EXCEPT ![k].st = "saving", ![k].data = ToSave(k)]
    /\ granted' = [granted EXCEPT !.auths = @ \cup {ToSave(k).last_auth}]
    /\ reported' = reported \ {cli[k].phone}
    /\ crossed' = crossed \cup (IF others = {} THEN {} ELSE others \cup {k})
    /\ paired' = paired \cap ActivePhones(ToSave(k))
    /\ UNCHANGED <<serve, port, starts, mem, conn, now, config>>

CliExits(k) ==
    /\ cli' = [cli EXCEPT ![k] = [NoCli EXCEPT !.st = "done"]]
    /\ port' = PortWithout(PidOf[k])

(* The subcommand prints its result, Ok or an error, and exits; pair exits  *)
(* once the Ack is sent.                                                    *)
CliEnds(k) ==
    /\ cli[k].st = "saving"
    /\ step[k] = "idle"
    /\ cli[k].op = "pair" => outcome[k] = "ok"
    /\ CliExits(k)
    /\ reported' = reported \cup
         IF outcome[k] = "ok" /\ cli[k].op = "revoke"
         THEN {p \in Phone : cli[k].data.pairing[p] = "revoked"} ELSE {}
    /\ paired' = paired \cup
         IF cli[k].op = "pair" /\ cli[k].alone /\ k \notin crossed
         THEN {cli[k].phone} ELSE {}
    /\ Consume(k)
    /\ UNCHANGED <<serve, starts, mem, conn, now, config, crossed, granted>>

(* The save or the Ack of pair fails: it goes on accepting, and holds the   *)
(* port, until its deadline; it pairs nobody any more (PairingFlow).        *)
PairLingers(k) ==
    /\ cli[k].st = "saving"
    /\ cli[k].op = "pair"
    /\ step[k] = "idle"
    /\ cli' = [cli EXCEPT ![k] = [NoCli EXCEPT !.st = "lingering"]]
    /\ Consume(k)
    /\ UNCHANGED <<serve, port, starts, mem, conn, now, observations>>

(* The process dies, or ends early: a port that is taken, a window that     *)
(* expires.                                                                 *)
CliKilled(k) ==
    /\ cli[k].st \in {"loaded", "bound", "saving", "lingering"}
    /\ Exit(PidOf[k])
    /\ CliExits(k)
    /\ UNCHANGED <<serve, starts, mem, conn, now, observations>>

-----------------------------------------------------------------------------
Advance ==
    /\ now < MaxTime
    /\ now' = now + 1
    /\ UNCHANGED <<fileVars, serve, port, starts, mem, conn, cli, observations>>

FileStep(s) ==
    /\ SaveStep(s)
    /\ UNCHANGED <<serve, port, starts, mem, conn, cli, now, observations>>

\* What a connection's task does on its own, and what its peer decides.
Task(c) == \/ Preflight(c) \/ RecordAddress(c) \/ SaveShared(c) \/ Saved(c)
           \/ DispatchCommand(c) \/ DispatchQuery(c)
           \/ DispatchReauthConfig(c) \/ DispatchRevokeAck(c)
           \/ WriteReply(c) \/ Shutdown(c)

PeerActs(c) ==
    \/ \E p \in Phone, a \in Addr : Accept(c, p, a)
    \/ Handshake(c)
    \/ \E n \in 0 .. MaxNonce :
          \/ ReceiveReplay(c, n)
          \/ ReceiveUndecodable(c, n)
          \/ \E frame \in (Command \cup OtherFrames) \ {"ReauthConfig"} :
                Receive(c, n, frame, "none")
          \/ \E i \in Intervals : Receive(c, n, "ReauthConfig", i)
    \/ Hangup(c)

CliStep(k) ==
    \/ \E p \in Phone : revoke(k, NameOf[p]) \/ pair(k, p)
    \/ PairBinds(k)
    \/ reauth_now(k) \/ uninstall_revoke_broadcast(k)
    \/ CliSaves(k) \/ CliEnds(k) \/ PairLingers(k) \/ CliKilled(k)

Next ==
    \/ ServeBind \/ ServeStart \/ ServeClose \/ ServeStop \/ Advance
    \/ \E c \in Conn : Task(c) \/ PeerActs(c)
    \/ \E k \in Cli : CliStep(k)
    \/ \E s \in Saver : FileStep(s)

Spec == Init /\ [][Next]_vars

(* Tasks are scheduled, and file operations and the write of a small reply  *)
(* end, well or badly.  Nothing is assumed about what peers send, about the *)
(* user or about the clock.                                                 *)
Fairness == \A c \in Conn : WF_vars(Task(c)) /\ WF_vars(FileStep(c))

FairSpec == Spec /\ Fairness

-----------------------------------------------------------------------------
States == {"none", "tls", "preflight", "address", "address save",
           "address saving", "read", "dispatch", "config save",
           "config saving", "ack save", "ack saving", "reply", "closing"}

Responses == {"none", "Ack", "Internal", "RequiresReauth", "NotPaired",
              "StateReport", "ReauthInfo"}

Connection ==
    [st : States, phone : Phone \cup {NoData}, addr : Addr \cup {NoAddr},
     pins : SUBSET Phone, last_seen : 0 .. MaxNonce,
     frame : Command \cup OtherFrames \cup {"none"}, arg : Interval \cup {"none"},
     at : Time, resp : Responses, ran : [0 .. MaxNonce -> Nat],
     known : SUBSET Phone]

Process ==
    [st : {"none", "loaded", "bound", "saving", "lingering", "done"},
     op : {"none", "revoke", "reauth_now", "pair"}, data : Contents \cup {NoData},
     phone : Phone \cup {NoData}, alone : BOOLEAN]

(* The types of the listener's state, and how it hangs together: nothing is *)
(* in memory while the listener is down, and a task is inside keystore::save *)
(* only where its code is.                                                  *)
ServerTypeOK ==
    /\ FileTypeOK
    /\ serve \in {"down", "bound", "up", "draining"}
    /\ port \in Pid \cup {NoData}
    /\ port = ServePid <=> serve \in {"bound", "up"}
    /\ starts \in 0 .. MaxStarts
    /\ mem \in Contents \cup {NoData}
    /\ Running <=> mem # NoData
    /\ now \in Time
    /\ conn \in [Conn -> Connection]
    /\ cli \in [Cli -> Process]
    /\ \A c \in Conn :
         /\ conn[c].phone \in Phone <=> conn[c].st # "none"
         /\ conn[c].st # "none" => Running
         /\ step[c] # "idle" =>
              conn[c].st \in {"address saving", "config saving", "ack saving"}
    /\ \A k \in Cli : step[k] # "idle" => cli[k].st = "saving"

(* A phone has a session past the TLS handshake only while the listener's   *)
(* memory has it as paired and not revoked - all the time, not only at the  *)
(* pre-flight lookup, after which dispatch never looks again.               *)
SessionsAreActive ==
    \A c \in Conn : conn[c].st \notin {"none", "tls", "closing"} =>
                       mem.pairing[conn[c].phone] = "active"

(* No nonce of a session runs a state-changing command twice, whatever      *)
(* nonces the phone sends, repeats or leaves out (NonceReceiver::accept).   *)
NoCommandTwice == \A c \in Conn, n \in 0 .. MaxNonce : conn[c].ran[n] <= 1

\* This step runs a state-changing command.
CommandRuns(c) ==
    /\ conn[c].st = "dispatch" /\ conn[c].frame \in Command
    /\ conn'[c].st = "reply" /\ conn'[c].resp # "RequiresReauth"

(* A state-changing command runs only inside the window that an             *)
(* authentication recorded by reauth-now opens with the interval in force:  *)
(* the one the last ReauthConfig asked for, also when it is shorter, or the *)
(* one the listener started with.  Nothing a phone sends, and nothing that  *)
(* is restarted, overwritten or saved late, moves last_authenticated_at.    *)
(* Who may change the interval is another matter: dispatch lets a phone do  *)
(* it in NeedsReauth too, as reauth.rs says and PLAN.md does not.           *)
GateHolds ==
    [][\A c \in Conn : CommandRuns(c) =>
          \E a \in granted.auths :
              \/ granted.interval = 0
              \/ conn[c].at < a + granted.interval * DAY_MS]_vars

(* An interval the daemon acknowledged is the one on disk, across failed    *)
(* saves, crashes and restarts, until the next ReauthConfig (PROTOCOL.md:   *)
(* "ReauthConfig -> Ack on success"), whatever the other connections save   *)
(* before and after it.  Its scope: no save of another connection was under *)
(* way when it reached memory, no two overlapped since (SharedState::save   *)
(* does not keep them apart, and the older clone can land last), and no     *)
(* other process has saved its own copy.                                    *)
AckedConfigDurable ==
    config.acked /\ ~config.overlap
      /\ (\A k \in Cli : cli[k].st \in {"none", "loaded", "bound"})
        => Load \in Contents /\ Load.interval = config.days

(* A phone that pair acknowledged is active on disk, if the keystore loads, *)
(* and in the memory of the listener, until a subcommand saves a copy       *)
(* without it: a revoke, or one that had loaded before.  pair saves a copy  *)
(* it may have loaded beside a running listener, and a listener saves the   *)
(* copy it started with; the port, which a listener binds before it loads,  *)
(* keeps them apart, except for a pair that binds while a listener still    *)
(* drains.  Also left out is a pair whose save crossed the save of another  *)
(* subcommand: nothing keeps those apart.                                   *)
PairedKnown ==
    \A p \in paired : /\ Load \in Contents => Load.pairing[p] = "active"
                      /\ Running => mem.pairing[p] = "active"

(* Every request that reaches dispatch is answered, or its connection ends, *)
(* also when the keystore cannot be saved.                                  *)
RequestAnswered ==
    \A c \in Conn : conn[c].st = "dispatch" ~> conn[c].st \in {"read", "closing", "none"}

-----------------------------------------------------------------------------
(* What the documentation says beyond that. *)

(* admin.rs: "The running listener picks up changes on the next accept":    *)
(* a phone whose revocation was reported before it connected gets no        *)
(* session.                                                                 *)
RevokedGetNoSession ==
    \A c \in Conn : conn[c].phone \in conn[c].known =>
                       conn[c].st \in {"tls", "preflight", "closing"}

(* pairings.rs: "Immediate-effect revocation flag": a revocation that was   *)
(* reported stays on disk, until a pair takes the phone in again.           *)
RevocationStays ==
    Load \in Contents =>
        \A p \in reported : Load.pairing[p] # "active"
=============================================================================
