------------------------- MODULE ServerSafetyProofs -------------------------
(***************************************************************************)
(* Proofs of what the listener promises: its sessions, its nonces, its     *)
(* re-auth gate, and what it has acknowledged.                             *)
(***************************************************************************)
EXTENDS ServerProofs

(* The places of the code where a connection is no session of a phone.      *)
Outside == {"none", "tls", "closing"}

(* A nonce ran a command only if it is not above the last one accepted, and *)
(* the last one has run none between the nonce check and the handler.       *)
NoncesCount ==
    \A c \in Conn :
        /\ \A n \in 0 .. MaxNonce :
              conn[c].ran[n] <= 1 /\ (n > conn[c].last_seen => conn[c].ran[n] = 0)
        /\ conn[c].st = "dispatch" => conn[c].ran[conn[c].last_seen] = 0

(* The pins of a connection are active, and the phone of a session is one   *)
(* of them.                                                                 *)
PinsAreActive ==
    \A c \in Conn :
        /\ conn[c].st # "none" => conn[c].pins \subseteq ActivePhones(mem)
        /\ conn[c].st \notin Outside => conn[c].phone \in conn[c].pins

(* The keystores that are held anywhere: in files, by saves, in memory and  *)
(* by subcommands.                                                          *)
Stored == ({file[i] : i \in Inode} \cup {pending[s] : s \in Saver}) \cap Contents

Held == Stored \cup (({mem} \cup {cli[k].data : k \in Cli}) \cap Contents)

(* Each of them has an authentication that was granted. *)
HeldAreGranted == \A d \in Held : d.last_auth \in granted.auths

(* The interval in memory is the one in force. *)
MemInForce == Running => mem.interval = granted.interval

(* Each name has a file of its own, whatever the processes save and however *)
(* many of their saves overlap.                                             *)
TmpsApart ==
    /\ \A p \in Pid : tmp[p] # NoInode => tmp[p] # path
    /\ \A p, q \in Pid : p # q /\ tmp[p] # NoInode => tmp[p] # tmp[q]

(* A save that no other one of its process has disturbed. *)
Whole(s) ==
    /\ step[s] \in {"write", "rename"} => fd[s] = tmp[PidOf[s]]
    /\ step[s] = "write" => file[fd[s]] = Empty
    /\ step[s] = "rename" => file[fd[s]] = pending[s]

(* No subcommand has saved. *)
NoOtherSave == \A k \in Cli : cli[k].st \in {"none", "loaded", "bound"}

(* A connection whose ReauthConfig has reached memory and has not failed,   *)
(* and one that knows it to be on disk.                                     *)
Acks(r) == r.st = "reply" /\ r.frame = "ReauthConfig" /\ r.resp = "Ack"

InHand(r) == r.st \in {"config save", "config saving"} \/ Acks(r)

Settled(r, result) == (r.st = "config saving" /\ result = "ok") \/ Acks(r)

(* From the last ReauthConfig on, as long as no saves overlap: its interval *)
(* in memory, under way to the disk, and on disk.                           *)
ConfigOnItsWay ==
    /\ config.acked => config.by \in Conn
    /\ NoOtherSave /\ config.by \in Conn /\ ~config.overlap =>
         /\ \A c, d \in Conn : step[c] # "idle" /\ step[d] # "idle" => c = d
         /\ \A c \in Conn : Whole(c)
         /\ InHand(conn[config.by]) \/ config.acked =>
              /\ Running => mem.interval = config.days
              /\ \A c \in Conn : pending[c] # NoData => pending[c].interval = config.days
         /\ Settled(conn[config.by], outcome[config.by]) \/ config.acked =>
              Load \in Contents /\ Load.interval = config.days

ConfigInv == BaseInv /\ TmpsApart /\ ConfigOnItsWay

(* A pair that has bound the port keeps a listener out until it ends, and   *)
(* if it found none, its save is as undisturbed as no other subcommand      *)
(* saves.                                                                   *)
AlonePairs ==
    \A k \in Cli :
        LET active(d) == d.pairing[cli[k].phone] = "active" IN
        cli[k].op = "pair" =>
          /\ cli[k].st \in {"bound", "saving"} =>
               port = PidOf[k] /\ (cli[k].alone => serve = "down")
          /\ cli[k].st = "saving" /\ pending[k] # NoData => active(pending[k])
          /\ cli[k].st = "saving" /\ cli[k].alone /\ k \notin crossed =>
               /\ \A l \in Cli \ {k} : cli[l].st # "saving"
               /\ Whole(k)
               /\ outcome[k] = "ok" => Load \in Contents /\ active(Load)

(* Where a phone that was paired has to be active: on disk, in memory, in   *)
(* what is being saved, and in the files those saves have written.          *)
PairedKept ==
    \A p \in paired :
        /\ Load \in Contents => Load.pairing[p] = "active"
        /\ Running => mem.pairing[p] = "active"
        /\ \A s \in Saver :
             /\ pending[s] # NoData => pending[s].pairing[p] = "active"
             /\ step[s] \in {"write", "rename"} =>
                  \A i \in {fd[s], tmp[PidOf[s]]} \ {NoInode} :
                     file[i] \in Contents => file[i].pairing[p] = "active"

PairedInv == BaseInv /\ TmpsApart /\ AlonePairs /\ PairedKept

-----------------------------------------------------------------------------
(* What a step makes of a connection *)

Leaves(o, n) == n.st \in {"none", "closing"} /\ n.pins = {} /\ n.ran = NoConn.ran

Enters(n) == Running /\ n.st = "tls" /\ n.pins = ActivePhones(mem) /\ n.ran = NoConn.ran

SameSession(o, n) == n.phone = o.phone /\ n.pins = o.pins

Shakes(o, n) == /\ o.st = "tls" /\ o.phone \in o.pins /\ n.st = "preflight"
                /\ SameSession(o, n) /\ n.ran = o.ran /\ n.last_seen = o.last_seen

Receives(o, n) == /\ o.st \notin Outside /\ n.st = "dispatch" /\ SameSession(o, n)
                  /\ n.ran = o.ran /\ n.last_seen > o.last_seen

RunsCommand(c, n) == /\ conn[c].st = "dispatch" /\ ~Blocked(c) /\ Running
                     /\ n.st = "reply" /\ SameSession(conn[c], n) /\ n.at = conn[c].at
                     /\ n.ran = [conn[c].ran EXCEPT ![conn[c].last_seen] = @ + 1]
                     /\ n.last_seen = conn[c].last_seen

Moves(o, n) == /\ o.st \notin Outside /\ n.st \notin Outside \cup {"dispatch"}
               /\ SameSession(o, n) /\ n.ran = o.ran /\ n.last_seen = o.last_seen
               /\ n.st = "reply" => o.frame \notin Command \/ n.resp = "RequiresReauth"

Changes(c, n) == \/ n = conn[c]
                 \/ Leaves(conn[c], n) \/ Enters(n) \/ Shakes(conn[c], n)
                 \/ Receives(conn[c], n) \/ RunsCommand(c, n) \/ Moves(conn[c], n)

(* A session that only goes to another place of its code. *)
LEMMA GoesTo ==
    ASSUME NEW o \in Connection, NEW st \in States
    PROVE  /\ [o EXCEPT !.st = st] \in Connection
           /\ [o EXCEPT !.st = st].st = st
           /\ o.st \notin Outside /\ st \notin Outside \cup {"dispatch", "reply"} =>
                Moves(o, [o EXCEPT !.st = st])
  <1> DEFINE n == [o EXCEPT !.st = st]
  <1>1. n \in Connection
    BY DEF Connection
  <1>2. /\ n.st = st /\ n.phone = o.phone /\ n.pins = o.pins /\ n.ran = o.ran
        /\ n.last_seen = o.last_seen
    BY DEF Connection
  <1> HIDE DEF n
  <1>3. o.st \notin Outside /\ st \notin Outside \cup {"dispatch", "reply"} => Moves(o, n)
    BY <1>2 DEF Moves, SameSession
  <1> QED BY <1>1, <1>2, <1>3 DEF n

(* A session that answers. *)
LEMMA Answers ==
    ASSUME NEW c \in Conn, conn[c] \in Connection, NEW resp \in Responses,
           conn[c].st \notin Outside,
           conn[c].frame \notin Command \/ resp = "RequiresReauth"
    PROVE  Reply(c, resp) \in Connection /\ Moves(conn[c], Reply(c, resp))
  <1> DEFINE o == conn[c]
             n == Reply(c, resp)
  <1>1. n \in Connection
    BY DEF Connection, Reply, States
  <1>2. /\ n.st = "reply" /\ n.phone = o.phone /\ n.pins = o.pins /\ n.ran = o.ran
        /\ n.last_seen = o.last_seen /\ n.resp = resp
    BY DEF Connection, Reply
  <1> HIDE DEF n
  <1>3. Moves(o, n)
    BY <1>2 DEF Moves, SameSession, Outside
  <1> QED BY <1>1, <1>3 DEF n

(* Connecting and leaving. *)
LEMMA ConnectChanges ==
    ASSUME BaseInv, NEW c \in Conn,
           \/ \E p \in Phone, a \in Addr : Accept(c, p, a)
           \/ Handshake(c) \/ Preflight(c) \/ Shutdown(c) \/ Hangup(c)
    PROVE  \E n \in Connection : Become(c, n) /\ Changes(c, n)
  <1> DEFINE old == conn[c]
             Goal == \E n \in Connection : Become(c, n) /\ Changes(c, n)
  <1>1. old \in Connection /\ NoConn \in Connection
    BY ConnFacts, NoneTyped
  <1>2. Leaves(old, NoConn)
    BY DEF Leaves, NoConn
  <1>3. ASSUME NEW p \in Phone, NEW a \in Addr, Accept(c, p, a) PROVE Goal
    <2> DEFINE n == [NoConn EXCEPT !.st = "tls", !.phone = p, !.addr = a,
                                   !.pins = ActivePhones(mem), !.known = reported]
    <2>1. ActivePhones(mem) \subseteq Phone /\ reported \subseteq Phone
      BY DEF ActivePhones, BaseInv, ObservationsOK
    <2>2. n \in Connection /\ Enters(n)
      BY <1>1, <1>3, <2>1 DEF NoConn, Connection, States, Enters, Accept, Running
    <2>3. Become(c, n)
      BY <1>3 DEF Accept
    <2> HIDE DEF n
    <2> QED BY <2>2, <2>3 DEF Changes
  <1>4. ASSUME Handshake(c) PROVE Goal
    <2>1. CASE old.phone \in old.pins
      <3> DEFINE n == [old EXCEPT !.st = "preflight"]
      <3>1. Become(c, n) /\ old.st = "tls"
        BY <1>4, <2>1 DEF Handshake, At
      <3>2. n \in Connection /\ Shakes(old, n)
        BY <1>1, <2>1, <3>1 DEF Connection, States, Shakes, SameSession
      <3> HIDE DEF n
      <3> QED BY <3>1, <3>2 DEF Changes
    <2>2. CASE old.phone \notin old.pins
      <3>1. Become(c, NoConn)
        BY <1>4, <2>2 DEF Handshake
      <3> QED BY <1>1, <1>2, <3>1 DEF Changes
    <2> QED BY <2>1, <2>2
  <1>5. ASSUME Preflight(c) PROVE Goal
    <2>1. old.st = "preflight" /\ Become(c, IF active_pairing(mem, old.phone)
                                            THEN [old EXCEPT !.st = "address"]
                                            ELSE Closing(c))
      BY <1>5 DEF Preflight, At, SendErrorAndClose, Become
    <2>2. /\ Closing(c) \in Connection /\ Leaves(old, Closing(c))
      BY <1>1, ZenonT(30) DEF Closing, Connection, NoConn, States, Leaves
    <2> DEFINE n == [old EXCEPT !.st = "address"]
    <2>3. n \in Connection /\ Moves(old, n)
      BY <1>1, <2>1, GoesTo DEF States, Outside
    <2> HIDE DEF n
    <2>4. Become(c, n) \/ Become(c, Closing(c))
      BY <2>1 DEF n
    <2> QED BY <2>2, <2>3, <2>4 DEF Changes
  <1>6. ASSUME Shutdown(c) \/ Hangup(c) PROVE Goal
    <2>1. Become(c, NoConn)
      BY <1>6 DEF Shutdown, Hangup
    <2> QED BY <1>1, <1>2, <2>1 DEF Changes
  <1> HIDE DEF Goal
  <1>7. Goal
    BY <1>3, <1>4, <1>5, <1>6
  <1> QED BY <1>7 DEF Goal

(* Receiving. *)
LEMMA ReceiveChanges ==
    ASSUME BaseInv, NEW c \in Conn, NEW n \in 0 .. MaxNonce,
           \/ ReceiveReplay(c, n) \/ ReceiveUndecodable(c, n)
           \/ \E frame \in (Command \cup OtherFrames) \ {"ReauthConfig"} :
                 Receive(c, n, frame, "none")
           \/ \E i \in Intervals : Receive(c, n, "ReauthConfig", i)
    PROVE  \E m \in Connection : Become(c, m) /\ Changes(c, m)
  <1> DEFINE old == conn[c]
             Goal == \E m \in Connection : Become(c, m) /\ Changes(c, m)
  <1>1. old \in Connection
    BY ConnFacts
  <1>2. ASSUME ReceiveReplay(c, n) \/ ReceiveUndecodable(c, n) PROVE Goal
    <2>1. Become(c, Closing(c))
      BY <1>2 DEF ReceiveReplay, ReceiveUndecodable, SendErrorAndClose
    <2>2. Closing(c) \in Connection /\ Leaves(old, Closing(c))
      BY <1>1, NoneTyped, ZenonT(30) DEF Closing, Connection, NoConn, States, Leaves
    <2> QED BY <2>1, <2>2 DEF Changes
  <1>3. ASSUME NEW frame \in Command \cup OtherFrames, NEW arg \in Interval \cup {"none"},
               Receive(c, n, frame, arg)
        PROVE  Goal
    <2> DEFINE m == [old EXCEPT !.st = "dispatch", !.last_seen = n,
                                !.frame = frame, !.arg = arg, !.at = now]
    <2>1. Become(c, m) /\ old.st = "read" /\ ~(n <= old.last_seen)
      BY <1>3 DEF Receive, At, NonceReplayed
    <2>2. now \in Time /\ old.last_seen \in 0 .. MaxNonce
      BY <1>1 DEF BaseInv, ServerTypeOK, Connection
    <2>3. n > old.last_seen
      BY <2>1, <2>2
    <2>4. m \in Connection
      BY <1>1, <2>2 DEF Connection, States
    <2>5. /\ m.st = "dispatch" /\ m.phone = old.phone /\ m.pins = old.pins
          /\ m.ran = old.ran /\ m.last_seen = n
      BY <1>1 DEF Connection
    <2> HIDE DEF m
    <2>6. Receives(old, m)
      BY <2>1, <2>3, <2>5 DEF Receives, SameSession, Outside
    <2> QED BY <2>1, <2>4, <2>6 DEF Changes
  <1>4. Intervals \subseteq Interval /\ "ReauthConfig" \in OtherFrames
    BY ServerAssumption DEF OtherFrames
  <1> HIDE DEF Goal
  <1>5. Goal
    BY <1>2, <1>3, <1>4
  <1> QED BY <1>5 DEF Goal

(* dispatch *)
LEMMA DispatchChanges ==
    ASSUME BaseInv, NEW c \in Conn,
           \/ DispatchCommand(c) \/ DispatchQuery(c)
           \/ DispatchReauthConfig(c) \/ DispatchRevokeAck(c)
    PROVE  \E n \in Connection : Become(c, n) /\ Changes(c, n)
  <1> DEFINE old == conn[c]
             Goal == \E n \in Connection : Become(c, n) /\ Changes(c, n)
  <1>1. old \in Connection /\ old.st = "dispatch" /\ Running
    BY ConnFacts DEF DispatchCommand, DispatchQuery, DispatchReauthConfig,
                     DispatchRevokeAck, At
  <1>2. old.frame \in OtherFrames => old.frame \notin Command
    BY ServerAssumption
  <1>3. ASSUME NEW resp \in Responses, Become(c, Reply(c, resp)),
               old.frame \in OtherFrames \/ resp = "RequiresReauth"
        PROVE  Goal
    BY <1>1, <1>2, <1>3, Answers DEF Changes, Outside
  <1>4. ASSUME DispatchCommand(c) PROVE Goal
    <2>1. ASSUME NEW resp \in Handlers("Ack"), ~Blocked(c),
                 Become(c, [Reply(c, resp) EXCEPT !.ran[old.last_seen] = @ + 1])
          PROVE  Goal
      <3> DEFINE n == [Reply(c, resp) EXCEPT !.ran[old.last_seen] = @ + 1]
      <3>1. resp \in Responses
        BY DEF Handlers, Responses
      <3>2. Reply(c, resp) \in Connection
        BY <1>1, <3>1 DEF Reply, Connection, States
      <3> DEFINE once == [old.ran EXCEPT ![old.last_seen] = @ + 1]
      <3>3. once \in [0 .. MaxNonce -> Nat]
        <4>1. old.ran \in [0 .. MaxNonce -> Nat] /\ old.last_seen \in 0 .. MaxNonce
          BY <1>1 DEF Connection
        <4> QED BY <4>1, CountsOne
      <3>4. n = [Reply(c, resp) EXCEPT !.ran = once]
        BY <1>1 DEF Reply, Connection
      <3>5. n \in Connection /\ n.ran = once
        <4> HIDE DEF n, once
        <4> QED BY <3>2, <3>3, <3>4 DEF Connection
      <3>6. /\ n.st = "reply" /\ n.phone = old.phone /\ n.pins = old.pins
            /\ n.at = old.at /\ n.last_seen = old.last_seen
        BY <1>1 DEF Reply, Connection
      <3> HIDE DEF n
      <3>7. RunsCommand(c, n)
        BY <1>1, <2>1, <3>5, <3>6 DEF RunsCommand, SameSession
      <3>8. Become(c, n)
        BY <2>1 DEF n
      <3> QED BY <3>5, <3>7, <3>8 DEF Changes
    <2>2. \/ Become(c, Reply(c, "RequiresReauth"))
          \/ ~Blocked(c) /\ \E resp \in Handlers("Ack") :
               Become(c, [Reply(c, resp) EXCEPT !.ran[old.last_seen] = @ + 1])
      BY <1>4 DEF DispatchCommand
    <2>3. "RequiresReauth" \in Responses
      BY DEF Responses
    <2> HIDE DEF Goal
    <2> QED BY <1>3, <2>1, <2>2, <2>3
  <1>5. ASSUME DispatchQuery(c) PROVE Goal
    <2>1. PICK resp \in {"NotPaired", "StateReport", "Internal", "ReauthInfo"} :
            Become(c, Reply(c, resp)) /\ old.frame \in {"Pair", "StateProbe", "ReauthStatus"}
      BY <1>5 DEF DispatchQuery, Handlers
    <2>2. resp \in Responses /\ old.frame \in OtherFrames
      BY <2>1 DEF Responses, OtherFrames
    <2> QED BY <1>3, <2>1, <2>2
  <1>6. ASSUME DispatchReauthConfig(c) PROVE Goal
    <2>1. Become(c, [old EXCEPT !.st = "config save"])
      BY <1>6 DEF DispatchReauthConfig
    <2> QED BY <1>1, <2>1, GoesTo DEF Changes, States, Outside
  <1>7. ASSUME DispatchRevokeAck(c) PROVE Goal
    <2>1. /\ old.frame \in OtherFrames
          /\ \/ Become(c, [old EXCEPT !.st = "ack save"])
             \/ Become(c, Reply(c, "Ack"))
      BY <1>7 DEF DispatchRevokeAck, OtherFrames
    <2>2. CASE Become(c, [old EXCEPT !.st = "ack save"])
      BY <1>1, <2>2, GoesTo DEF Changes, States, Outside
    <2>3. CASE Become(c, Reply(c, "Ack"))
      BY <1>3, <2>1, <2>3 DEF Responses
    <2> QED BY <2>1, <2>2, <2>3
  <1> HIDE DEF Goal
  <1>8. Goal
    BY <1>4, <1>5, <1>6, <1>7
  <1> QED BY <1>8 DEF Goal

(* The saves of a connection, and the answer. *)
LEMMA SavingChanges ==
    ASSUME BaseInv, NEW c \in Conn,
           RecordAddress(c) \/ SaveShared(c) \/ Saved(c) \/ WriteReply(c)
    PROVE  \E n \in Connection : Become(c, n) /\ Changes(c, n)
  <1> DEFINE old == conn[c]
             Goal == \E n \in Connection : Become(c, n) /\ Changes(c, n)
  <1>1. /\ old \in Connection
        /\ old.st = "config saving" => old.frame = "ReauthConfig"
        /\ old.st = "ack saving" => old.frame = "RevokeAck"
        /\ outcome[c] \in {"none", "ok", "err"}
    BY ServerAssumption DEF BaseInv, ServerTypeOK, WorkMatches, FileTypeOK
  <1>2. ASSUME NEW st \in {"address save", "address saving", "config saving",
                           "ack saving", "read"},
               Become(c, [old EXCEPT !.st = st]), old.st \notin Outside
        PROVE  Goal
    <2>1. st \in States /\ st \notin Outside \cup {"dispatch", "reply"}
      BY DEF States, Outside
    <2> QED BY <1>1, <1>2, <2>1, GoesTo DEF Changes
  <1>3. ASSUME RecordAddress(c) PROVE Goal
    <2>1. old.st = "address" /\ \E st \in {"address save", "read"} :
                                     Become(c, [old EXCEPT !.st = st])
      BY <1>3 DEF RecordAddress, At
    <2> QED BY <1>2, <2>1 DEF Outside
  <1>4. ASSUME SaveShared(c) PROVE Goal
    <2>1. /\ old.st \in {"address save", "config save", "ack save"}
          /\ \E st \in {"address saving", "config saving", "ack saving"} :
                Become(c, [old EXCEPT !.st = st])
      BY <1>1, <1>4 DEF SaveShared, Connection
    <2> QED BY <1>2, <2>1 DEF Outside
  <1>5. ASSUME Saved(c) PROVE Goal
    <2>1. CASE old.st = "address saving"
      <3>1. Become(c, [old EXCEPT !.st = "read"])
        BY <1>5, <2>1 DEF Saved
      <3> QED BY <1>2, <2>1, <3>1 DEF Outside
    <2>2. CASE old.st \in {"config saving", "ack saving"}
      <3>1. \E resp \in {"Ack", "Internal"} : Become(c, Reply(c, resp))
        BY <1>5, <2>2 DEF Saved, ConfigResponse
      <3>2. old.frame \notin Command /\ old.st \notin Outside
        BY <1>1, <2>2, ServerAssumption DEF OtherFrames, Outside
      <3> QED BY <1>1, <3>1, <3>2, Answers DEF Changes, Responses
    <2> QED BY <1>5, <2>1, <2>2 DEF Saved
  <1>6. ASSUME WriteReply(c) PROVE Goal
    <2> DEFINE n == [old EXCEPT !.st = "read", !.frame = "none",
                                !.arg = "none", !.at = 0, !.resp = "none"]
    <2>1. Closing(c) \in Connection /\ Leaves(old, Closing(c))
      BY <1>1, NoneTyped, ZenonT(30) DEF Closing, Connection, NoConn, States, Leaves
    <2>2. 0 \in Time
      BY ServerAssumption DEF Time
    <2>3. n \in Connection
      BY <1>1, <2>2 DEF Connection, States, Responses
    <2>4. /\ n.st = "read" /\ n.phone = old.phone /\ n.pins = old.pins
          /\ n.ran = old.ran /\ n.last_seen = old.last_seen
      BY <1>1 DEF Connection
    <2>5. old.st = "reply" /\ (Become(c, Closing(c)) \/ Become(c, n))
      BY <1>6 DEF WriteReply, At
    <2> HIDE DEF n
    <2>6. Moves(old, n)
      BY <2>4, <2>5 DEF Moves, SameSession, Outside
    <2> QED BY <2>1, <2>3, <2>5, <2>6 DEF Changes
  <1> HIDE DEF Goal
  <1>7. Goal
    BY <1>3, <1>4, <1>5, <1>6
  <1> QED BY <1>7 DEF Goal

(* Whatever happens, a connection changes in one of these ways. *)
LEMMA ConnChanges ==
    ASSUME BaseInv, [Next]_vars, NEW c \in Conn
    PROVE  Changes(c, conn'[c])
  <1>1. conn \in [Conn -> Connection]
    BY DEF BaseInv, ServerTypeOK
  <1>2. ASSUME NEW d \in Conn, Task(d) \/ PeerActs(d)
        PROVE  \E n \in Connection : Become(d, n) /\ Changes(d, n)
    <2>1. CASE \/ \E p \in Phone, a \in Addr : Accept(d, p, a)
               \/ Handshake(d) \/ Preflight(d) \/ Shutdown(d) \/ Hangup(d)
      BY <2>1, ConnectChanges
    <2>2. CASE \E n \in 0 .. MaxNonce :
                 \/ ReceiveReplay(d, n) \/ ReceiveUndecodable(d, n)
                 \/ \E frame \in (Command \cup OtherFrames) \ {"ReauthConfig"} :
                       Receive(d, n, frame, "none")
                 \/ \E i \in Intervals : Receive(d, n, "ReauthConfig", i)
      BY <2>2, ReceiveChanges
    <2>3. CASE \/ DispatchCommand(d) \/ DispatchQuery(d)
               \/ DispatchReauthConfig(d) \/ DispatchRevokeAck(d)
      BY <2>3, DispatchChanges
    <2>4. CASE RecordAddress(d) \/ SaveShared(d) \/ Saved(d) \/ WriteReply(d)
      BY <2>4, SavingChanges
    <2> QED BY <1>2, <2>1, <2>2, <2>3, <2>4 DEF Task, PeerActs
  <1>3. ASSUME NEW d \in Conn, Task(d) \/ PeerActs(d) PROVE Changes(c, conn'[c])
    <2>1. PICK n \in Connection : Become(d, n) /\ Changes(d, n)
      BY <1>2, <1>3
    <2>2. conn'[c] = IF c = d THEN n ELSE conn[c]
      BY <1>1, <2>1 DEF Become
    <2> QED BY <2>1, <2>2 DEF Changes
  <1>4. ASSUME conn' = conn PROVE Changes(c, conn'[c])
    BY <1>4 DEF Changes
  <1>5. ASSUME ServeStop PROVE Changes(c, conn'[c])
    <2>1. conn'[c] = NoConn
      BY <1>5 DEF ServeStop
    <2> QED BY <2>1 DEF Changes, Leaves, NoConn
  <1>6. ASSUME NEW k \in Cli, CliStep(k) PROVE conn' = conn
    BY <1>6, Zenon DEF CliStep, revoke, pair, PairBinds, reauth_now,
           uninstall_revoke_broadcast, CliLoads, CliSaves, CliEnds, PairLingers, CliKilled
  <1>7. ASSUME ServeBind \/ ServeStart \/ ServeClose \/ Advance PROVE conn' = conn
    BY <1>7 DEF ServeBind, ServeStart, ServeClose, Advance
  <1>8. ASSUME NEW s \in Saver, FileStep(s) PROVE conn' = conn
    BY <1>8 DEF FileStep
  <1>9. ASSUME UNCHANGED vars PROVE conn' = conn
    BY <1>9 DEF vars
  <1> QED BY <1>3, <1>4, <1>5, <1>6, <1>7, <1>8, <1>9 DEF Next

-----------------------------------------------------------------------------
(* What a step makes of memory *)

(* While the listener runs its tasks change an address or the interval, and *)
(* remove a record only if it is revoked.                                   *)
LEMMA MemoryChanges ==
    ASSUME BaseInv, [Next]_vars, Running, Running'
    PROVE  /\ mem \in Contents /\ mem' \in Contents
           /\ mem'.last_auth = mem.last_auth
           /\ ActivePhones(mem) \subseteq ActivePhones(mem')
           /\ \/ mem'.interval = mem.interval
              \/ \E c \in Conn : /\ DispatchReauthConfig(c)
                                 /\ mem'.interval = interval_to_days(conn[c].arg)
  <1> DEFINE Keeps == /\ mem'.last_auth = mem.last_auth
                      /\ ActivePhones(mem) \subseteq ActivePhones(mem')
                      /\ mem'.interval = mem.interval
             Goal == /\ mem'.last_auth = mem.last_auth
                     /\ ActivePhones(mem) \subseteq ActivePhones(mem')
                     /\ \/ mem'.interval = mem.interval
                        \/ \E c \in Conn : /\ DispatchReauthConfig(c)
                                           /\ mem'.interval = interval_to_days(conn[c].arg)
  <1>1. mem \in Contents /\ mem' \in Contents
    BY BaseStep DEF BaseInv, ServerTypeOK
  <1>2. /\ mem.pairing \in [Phone -> {"none", "active", "revoked"}]
        /\ mem \in KeystoreContents
    BY <1>1, ContentsFields, ServerAssumption
  <1>3. ASSUME mem' = mem PROVE Keeps
    BY <1>3
  <1>4. ASSUME NEW c \in Conn, RecordAddress(c) PROVE Keeps
    <2>1. \/ mem' = mem
          \/ mem' = [mem EXCEPT !.address[conn[c].phone] = conn[c].addr]
      BY <1>4 DEF RecordAddress
    <2> QED BY <1>2, <2>1 DEF KeystoreContents, ActivePhones, active_pairing, is_active
  <1>5. ASSUME NEW c \in Conn, DispatchReauthConfig(c) PROVE Goal
    <2>1. mem' = [mem EXCEPT !.interval = interval_to_days(conn[c].arg)]
      BY <1>5 DEF DispatchReauthConfig
    <2>2. /\ mem'.pairing = mem.pairing /\ mem'.last_auth = mem.last_auth
          /\ mem'.interval = interval_to_days(conn[c].arg)
      BY <1>2, <2>1 DEF KeystoreContents
    <2> QED BY <1>5, <2>2 DEF ActivePhones, active_pairing, is_active
  <1>6. ASSUME NEW c \in Conn, DispatchRevokeAck(c) PROVE Keeps
    <2> DEFINE p == conn[c].phone
    <2>1. \/ mem' = mem
          \/ /\ mem.pairing[p] = "revoked"
             /\ mem' = [mem EXCEPT !.pairing[p] = "none", !.address[p] = NoAddr]
      BY <1>6 DEF DispatchRevokeAck, Removable
    <2>2. CASE mem' = mem
      BY <1>3, <2>2
    <2>3. CASE /\ mem.pairing[p] = "revoked"
               /\ mem' = [mem EXCEPT !.pairing[p] = "none", !.address[p] = NoAddr]
      <3>1. /\ mem'.pairing = [mem.pairing EXCEPT ![p] = "none"]
            /\ mem'.last_auth = mem.last_auth /\ mem'.interval = mem.interval
        BY <1>2, <2>3 DEF KeystoreContents
      <3>2. \A q \in Phone : mem.pairing[q] = "active" => mem'.pairing[q] = "active"
        BY <1>2, <2>3, <3>1
      <3> QED BY <3>1, <3>2 DEF ActivePhones, active_pairing, is_active
    <2> QED BY <2>1, <2>2, <2>3
  <1>7. ASSUME NEW c \in Conn, Task(c) PROVE Goal
    <2>1. CASE \/ Preflight(c) \/ SaveShared(c) \/ Saved(c) \/ DispatchCommand(c)
               \/ DispatchQuery(c) \/ WriteReply(c) \/ Shutdown(c)
      <3>1. mem' = mem
        BY <2>1, Zenon DEF Preflight, SaveShared, Saved, DispatchCommand, DispatchQuery,
                           WriteReply, Shutdown
      <3> QED BY <1>3, <3>1
    <2> HIDE DEF Goal
    <2>2. Keeps => Goal
      BY DEF Goal
    <2> HIDE DEF Keeps
    <2> QED BY <1>4, <1>5, <1>6, <1>7, <2>1, <2>2 DEF Task
  <1>8. ASSUME NEW c \in Conn, PeerActs(c) PROVE mem' = mem
    BY <1>8, Zenon DEF PeerActs, Accept, Handshake, ReceiveReplay, ReceiveUndecodable,
                       Receive, Hangup
  <1>9. ASSUME NEW k \in Cli, CliStep(k) PROVE mem' = mem
    BY <1>9, Zenon DEF CliStep, revoke, pair, PairBinds, reauth_now,
           uninstall_revoke_broadcast, CliLoads, CliSaves, CliEnds, PairLingers, CliKilled
  <1>10. ASSUME ServeBind \/ ServeStart \/ ServeClose \/ ServeStop \/ Advance
         PROVE  mem' = mem
    BY <1>10 DEF ServeBind, ServeStart, ServeClose, ServeStop, Advance, Running,
                 Startup, BindPort
  <1>11. ASSUME NEW s \in Saver, FileStep(s) PROVE mem' = mem
    BY <1>11 DEF FileStep
  <1>12. ASSUME UNCHANGED vars PROVE mem' = mem
    BY <1>12 DEF vars
  <1>13. Keeps => Goal
    OBVIOUS
  <1> HIDE DEF Goal, Keeps
  <1>14. Goal
    BY <1>3, <1>7, <1>8, <1>9, <1>10, <1>11, <1>12, <1>13 DEF Next
  <1> QED BY <1>1, <1>14 DEF Goal

-----------------------------------------------------------------------------
(* Nonces and sessions *)

(* A step of a connection keeps the count of its nonces. *)
LEMMA NoncesStep ==
    ASSUME BaseInv, NoncesCount, [Next]_vars
    PROVE  NoncesCount'
  <1> SUFFICES ASSUME NEW c \in Conn
               PROVE  /\ \A m \in 0 .. MaxNonce :
                            /\ conn'[c].ran[m] <= 1
                            /\ m > conn'[c].last_seen => conn'[c].ran[m] = 0
                      /\ conn'[c].st = "dispatch" => conn'[c].ran[conn'[c].last_seen] = 0
    BY DEF NoncesCount
  <1> DEFINE o == conn[c]
             n == conn'[c]
  <1>1. o \in Connection /\ n \in Connection
    BY BaseStep DEF BaseInv, ServerTypeOK
  <1>2. /\ o.ran \in [0 .. MaxNonce -> Nat] /\ n.ran \in [0 .. MaxNonce -> Nat]
        /\ o.last_seen \in 0 .. MaxNonce /\ n.last_seen \in 0 .. MaxNonce
    BY <1>1 DEF Connection
  <1>3. /\ \A m \in 0 .. MaxNonce : o.ran[m] <= 1 /\ (m > o.last_seen => o.ran[m] = 0)
        /\ o.st = "dispatch" => o.ran[o.last_seen] = 0
    BY DEF NoncesCount
  <1>4. Changes(c, n)
    BY ConnChanges
  <1>5. CASE n = o
    BY <1>3, <1>5
  <1>6. CASE Leaves(o, n) \/ Enters(n)
    <2>1. n.ran = [m \in 0 .. MaxNonce |-> 0]
      BY <1>6 DEF Leaves, Enters, NoConn
    <2> QED BY <1>2, <2>1
  <1>7. CASE Shakes(o, n) \/ Moves(o, n)
    <2>1. n.ran = o.ran /\ n.last_seen = o.last_seen /\ n.st # "dispatch"
      BY <1>7 DEF Shakes, Moves
    <2> QED BY <1>3, <2>1
  <1>8. CASE Receives(o, n)
    <2>1. n.ran = o.ran /\ n.last_seen > o.last_seen
      BY <1>8 DEF Receives
    <2>2. \A m \in 0 .. MaxNonce : m > n.last_seen => m > o.last_seen
      BY <1>2, <2>1
    <2> QED BY <1>2, <1>3, <2>1, <2>2
  <1>9. CASE RunsCommand(c, n)
    <2>1. /\ o.st = "dispatch" /\ n.st = "reply" /\ n.last_seen = o.last_seen
          /\ n.ran = [o.ran EXCEPT ![o.last_seen] = @ + 1]
      BY <1>9 DEF RunsCommand
    <2>2. n.ran[o.last_seen] = o.ran[o.last_seen] + 1
      BY <1>2, <2>1, CountsOne
    <2>3. \A m \in 0 .. MaxNonce : m # o.last_seen => n.ran[m] = o.ran[m]
      BY <1>2, <2>1, CountsOne
    <2>4. o.last_seen \in Nat
      BY <1>2, ServerAssumption
    <2>5. ASSUME NEW m \in 0 .. MaxNonce
          PROVE  n.ran[m] <= 1 /\ (m > n.last_seen => n.ran[m] = 0)
      <3>1. CASE m = o.last_seen
        BY <1>3, <2>1, <2>2, <2>4, <3>1
      <3>2. CASE m # o.last_seen
        BY <1>3, <2>1, <2>3, <3>2
      <3> QED BY <3>1, <3>2
    <2> QED BY <2>1, <2>5
  <1> QED BY <1>4, <1>5, <1>6, <1>7, <1>8, <1>9 DEF Changes

(* A step of a connection, or of memory, keeps the sessions active. *)
LEMMA PinsStep ==
    ASSUME BaseInv, PinsAreActive, [Next]_vars
    PROVE  PinsAreActive'
  <1> SUFFICES ASSUME NEW c \in Conn
               PROVE  /\ conn'[c].st # "none" => conn'[c].pins \subseteq ActivePhones(mem')
                      /\ conn'[c].st \notin Outside => conn'[c].phone \in conn'[c].pins
    BY DEF PinsAreActive, ActivePhones
  <1> DEFINE o == conn[c]
             n == conn'[c]
             act == ActivePhones(mem)
             actN == ActivePhones(mem')
  <1>1. /\ o.st # "none" => Running
        /\ n.st # "none" => Running'
    BY BaseStep DEF BaseInv, ServerTypeOK
  <1>2. /\ o.st # "none" => o.pins \subseteq act
        /\ o.st \notin Outside => o.phone \in o.pins
    BY DEF PinsAreActive
  <1>3. Running /\ Running' => act \subseteq actN
    BY MemoryChanges
  <1>4. Changes(c, n)
    BY ConnChanges
  <1>5. CASE n = o
    BY <1>1, <1>2, <1>3, <1>5
  <1>6. CASE Leaves(o, n)
    BY <1>6 DEF Leaves, Outside
  <1>7. CASE Enters(n)
    <2>1. Running /\ n.st = "tls" /\ n.pins = act
      BY <1>7 DEF Enters
    <2> QED BY <1>1, <1>3, <2>1 DEF Outside
  <1>8. CASE Shakes(o, n) \/ Receives(o, n) \/ RunsCommand(c, n) \/ Moves(o, n)
    <2>1. /\ o.st # "none" /\ n.st # "none" /\ n.pins = o.pins /\ n.phone = o.phone
          /\ o.phone \in o.pins
      BY <1>2, <1>8 DEF Shakes, Receives, RunsCommand, Moves, SameSession, Outside
    <2> QED BY <1>1, <1>2, <1>3, <2>1
  <1> QED BY <1>4, <1>5, <1>6, <1>7, <1>8 DEF Changes

(* Init has no connection. *)
LEMMA SessionsInit == Init => NoncesCount /\ PinsAreActive
  <1> SUFFICES ASSUME Init PROVE NoncesCount /\ PinsAreActive
    OBVIOUS
  <1>1. \A c \in Conn : conn[c] = NoConn
    BY DEF Init
  <1>2. \A n \in 0 .. MaxNonce : NoConn.ran[n] = 0
    BY DEF NoConn
  <1>3. NoConn.st = "none"
    BY DEF NoConn
  <1>4. NoncesCount
    BY <1>1, <1>2, <1>3 DEF NoncesCount
  <1>5. PinsAreActive
    BY <1>1, <1>3 DEF PinsAreActive, Outside
  <1> QED BY <1>4, <1>5

(* No session runs a command twice for one nonce: NonceReceiver lets a      *)
(* connection pass only nonces above those it has seen, whatever nonces the *)
(* phone sends and however the commands of several connections interleave   *)
(* (connection.rs).                                                         *)
THEOREM NoncesRunOnce == Spec => []NoCommandTwice
  <1>1. NoncesCount => NoCommandTwice
    BY DEF NoncesCount, NoCommandTwice
  <1>2. BaseInv /\ NoncesCount /\ [Next]_vars => NoncesCount'
    BY NoncesStep
  <1> QED BY <1>1, <1>2, SessionsInit, ServerBase, PTL DEF Spec

(* Every session is of a phone that memory has as active, long after the    *)
(* pre-flight lookup: nothing a connection or a subcommand does takes an    *)
(* active pairing out of a running listener's memory.                       *)
THEOREM SessionsStayActive == Spec => []SessionsAreActive
  <1>1. BaseInv /\ PinsAreActive => SessionsAreActive
    <2> SUFFICES ASSUME BaseInv, PinsAreActive, NEW c \in Conn,
                        conn[c].st \notin {"none", "tls", "closing"}
                 PROVE  mem.pairing[conn[c].phone] = "active"
      BY DEF SessionsAreActive
    <2>1. conn[c].phone \in ActivePhones(mem)
      BY DEF PinsAreActive, Outside
    <2> QED BY <2>1 DEF ActivePhones, active_pairing, is_active
  <1>2. BaseInv /\ PinsAreActive /\ [Next]_vars => PinsAreActive'
    BY PinsStep
  <1> QED BY <1>1, <1>2, SessionsInit, ServerBase, PTL DEF Spec

-----------------------------------------------------------------------------
(* The re-auth gate *)

(* A save writes what it was called with; nothing else comes into a file.   *)
LEMMA StoredBySave ==
    ASSUME FileTypeOK, NEW s \in Saver, SaveStep(s) \/ Consume(s) \/ \E p \in Pid : Exit(p)
    PROVE  Stored' \subseteq Stored
  <1> DEFINE Files == \A i \in Inode : file'[i] \in {file[i], pending[s], Empty, Unreadable}
             Saves == \A t \in Saver : pending'[t] \in {pending[t], NoData}
  <1>1. CASE Consume(s) \/ \E p \in Pid : Exit(p)
    <2>1. Files
      BY <1>1 DEF Consume, Exit
    <2>2. Saves
      BY <1>1 DEF Consume, Exit, FileTypeOK
    <2> QED BY <2>1, <2>2, FileAssumption DEF Stored
  <1>2. CASE SaveStep(s)
    <2>1. Files
      BY <1>2, SaverAssumption, FileAssumption
      DEF SaveStep, SaveOpenFails, SaveCreate, SaveWrite, SaveWriteFails, SaveRename,
          SaveRenameFails, Return, FileTypeOK, TmpFile
    <2>2. Saves
      BY <1>2 DEF SaveStep, SaveOpenFails, SaveCreate, SaveWrite, SaveWriteFails,
                  SaveRename, SaveRenameFails, Return, FileTypeOK
    <2> QED BY <2>1, <2>2, FileAssumption DEF Stored
  <1> QED BY <1>1, <1>2

(* ... and what it was called with. *)
LEMMA StoredByCall ==
    ASSUME FileTypeOK, NEW s \in Saver, NEW d, SaveCall(s, d)
    PROVE  Stored' \subseteq Stored \cup {d}
  <1>1. file' = file /\ \A t \in Saver : pending'[t] \in {pending[t], d}
    BY DEF SaveCall, FileTypeOK
  <1> QED BY <1>1 DEF Stored

(* The keystores in files and saves come from memory and the subcommands.   *)
LEMMA StoredStep ==
    ASSUME BaseInv, [Next]_vars, NEW d \in Stored'
    PROVE  \/ d \in Stored \/ d = mem
           \/ \E k \in Cli : CliSaves(k) /\ d = ToSave(k)
  <1> DEFINE Goal == \/ d \in Stored \/ d = mem
                     \/ \E k \in Cli : CliSaves(k) /\ d = ToSave(k)
  <1>1. FileTypeOK /\ Conn \subseteq Saver /\ Cli \subseteq Saver /\ ServePid \in Pid
    BY ServerAssumption DEF BaseInv, ServerTypeOK
  <1>2. ASSUME UNCHANGED fileVars PROVE Goal
    BY <1>2 DEF fileVars, Stored
  <1>3. ASSUME NEW c \in Conn, SaveShared(c) PROVE Goal
    <2>1. SaveCall(c, mem)
      BY <1>3 DEF SaveShared
    <2> QED BY <1>1, <2>1, StoredByCall
  <1>4. ASSUME NEW k \in Cli, CliSaves(k) PROVE Goal
    <2>1. SaveCall(k, ToSave(k))
      BY <1>4 DEF CliSaves
    <2> QED BY <1>1, <1>4, <2>1, StoredByCall
  <1>5. ASSUME NEW c \in Conn, Saved(c) PROVE Goal
    BY <1>1, <1>5, StoredBySave DEF Saved
  <1>6. ASSUME NEW k \in Cli, CliEnds(k) \/ PairLingers(k) PROVE Goal
    BY <1>1, <1>6, StoredBySave DEF CliEnds, PairLingers
  <1>7. ASSUME NEW s \in Saver, FileStep(s) PROVE Goal
    BY <1>1, <1>7, StoredBySave DEF FileStep
  <1>8. ASSUME NEW k \in Cli, CliKilled(k) PROVE Goal
    <2>1. Exit(PidOf[k]) /\ PidOf[k] \in Pid
      BY <1>1, <1>8, SaverAssumption DEF CliKilled
    <2> QED BY <1>1, <2>1, StoredBySave
  <1>9. ASSUME ServeStop PROVE Goal
    <2>1. CASE Saver = {}
      BY <1>9, <2>1 DEF ServeStop, Exit, Stored
    <2>2. CASE Saver # {}
      BY <1>1, <1>9, <2>2, StoredBySave DEF ServeStop
    <2> QED BY <2>1, <2>2
  <1>10. ASSUME NEW c \in Conn, Task(c) PROVE Goal
    <2>1. CASE \/ Preflight(c) \/ RecordAddress(c) \/ DispatchCommand(c) \/ DispatchQuery(c)
               \/ DispatchReauthConfig(c) \/ DispatchRevokeAck(c) \/ WriteReply(c)
               \/ Shutdown(c)
      <3>1. UNCHANGED fileVars
        BY <2>1, Zenon DEF Preflight, RecordAddress, DispatchCommand, DispatchQuery,
                  DispatchReauthConfig, DispatchRevokeAck, WriteReply, Shutdown
      <3> QED BY <1>2, <3>1
    <2> HIDE DEF Goal
    <2> QED BY <1>3, <1>5, <1>10, <2>1 DEF Task
  <1>11. ASSUME NEW c \in Conn, PeerActs(c) PROVE UNCHANGED fileVars
    BY <1>11, Zenon DEF PeerActs, Accept, Handshake, ReceiveReplay, ReceiveUndecodable,
                        Receive, Hangup
  <1>12. ASSUME NEW k \in Cli, CliStep(k) PROVE Goal
    <2>1. CASE \/ \E p \in Phone : revoke(k, NameOf[p]) \/ pair(k, p)
               \/ PairBinds(k) \/ reauth_now(k) \/ uninstall_revoke_broadcast(k)
      <3>1. UNCHANGED fileVars
        BY <2>1, Zenon DEF revoke, pair, PairBinds, reauth_now,
                           uninstall_revoke_broadcast, CliLoads
      <3> QED BY <1>2, <3>1
    <2> HIDE DEF Goal
    <2> QED BY <1>4, <1>6, <1>8, <1>12, <2>1 DEF CliStep
  <1>13. ASSUME ServeBind \/ ServeStart \/ ServeClose \/ Advance PROVE UNCHANGED fileVars
    BY <1>13 DEF ServeBind, ServeStart, ServeClose, Advance
  <1>14. ASSUME UNCHANGED vars PROVE UNCHANGED fileVars
    BY <1>14 DEF vars
  <1> HIDE DEF Goal
  <1>15. Goal
    BY <1>2, <1>7, <1>9, <1>10, <1>11, <1>12, <1>13, <1>14 DEF Next
  <1> QED BY <1>15 DEF Goal

(* What was granted stays granted, and a save of a subcommand grants what   *)
(* it brings; the interval in force is what the last ReauthConfig asked     *)
(* for, or what a listener that starts loads.                               *)
LEMMA GrantsGrow ==
    ASSUME BaseInv, [Next]_vars
    PROVE  /\ granted.auths \subseteq granted'.auths
           /\ \A k \in Cli : CliSaves(k) => ToSave(k).last_auth \in granted'.auths
           /\ \/ granted'.interval = granted.interval
              \/ ServeStart /\ granted'.interval = Load.interval
              \/ \E c \in Conn : DispatchReauthConfig(c)
           /\ \A c \in Conn : DispatchReauthConfig(c) =>
                 granted'.interval = interval_to_days(conn[c].arg)
  <1> DEFINE Auths == granted.auths \subseteq granted'.auths
             Same == granted'.interval = granted.interval
             Goal == /\ Auths
                     /\ \/ Same
                        \/ ServeStart /\ granted'.interval = Load.interval
                        \/ \E c \in Conn : DispatchReauthConfig(c)
  <1>1. granted \in [auths : SUBSET Time, interval : Nat]
    BY DEF BaseInv, ObservationsOK
  <1>2. ASSUME granted' = granted PROVE Auths /\ Same
    BY <1>2
  <1>3. ASSUME NEW c \in Conn, DispatchReauthConfig(c)
        PROVE  Goal /\ granted'.interval = interval_to_days(conn[c].arg)
    BY <1>1, <1>3 DEF DispatchReauthConfig
  <1>4. ASSUME NEW k \in Cli, CliSaves(k)
        PROVE  Auths /\ Same /\ ToSave(k).last_auth \in granted'.auths
    BY <1>1, <1>4 DEF CliSaves
  <1>5. ASSUME NEW c \in Conn, Task(c) PROVE Goal
    <2>1. CASE \/ Preflight(c) \/ RecordAddress(c) \/ SaveShared(c) \/ Saved(c)
               \/ DispatchCommand(c) \/ DispatchQuery(c) \/ DispatchRevokeAck(c)
               \/ WriteReply(c) \/ Shutdown(c)
      <3>1. granted' = granted
        BY <2>1, Zenon DEF Preflight, RecordAddress, SaveShared, Saved, DispatchCommand,
                           DispatchQuery, DispatchRevokeAck, WriteReply, Shutdown, observations
      <3> QED BY <1>2, <3>1
    <2> HIDE DEF Auths, Same
    <2> QED BY <1>3, <1>5, <2>1 DEF Task
  <1>6. ASSUME NEW c \in Conn, PeerActs(c) PROVE granted' = granted
    BY <1>6, Zenon DEF PeerActs, Accept, Handshake, ReceiveReplay, ReceiveUndecodable,
                       Receive, Hangup, observations
  <1>7. ASSUME NEW k \in Cli, CliStep(k) PROVE Goal
    <2>1. CASE \/ \E p \in Phone : revoke(k, NameOf[p]) \/ pair(k, p)
               \/ PairBinds(k) \/ reauth_now(k) \/ uninstall_revoke_broadcast(k)
               \/ CliEnds(k) \/ PairLingers(k) \/ CliKilled(k)
      <3>1. granted' = granted
        BY <2>1, Zenon DEF revoke, pair, PairBinds, reauth_now, CliEnds, PairLingers,
              CliKilled, uninstall_revoke_broadcast, CliLoads, observations
      <3> QED BY <1>2, <3>1
    <2> HIDE DEF Auths, Same
    <2> QED BY <1>4, <1>7, <2>1 DEF CliStep
  <1>8. ASSUME ServeBind \/ ServeClose \/ ServeStop \/ Advance
        PROVE  granted' = granted
    BY <1>8 DEF ServeBind, ServeClose, ServeStop, Advance, observations, Startup, BindPort
  <1>9. ASSUME ServeStart PROVE Goal
    BY <1>1, <1>9 DEF ServeStart, Startup, LoadKeystore
  <1>10. ASSUME NEW s \in Saver, FileStep(s) PROVE granted' = granted
    BY <1>10 DEF FileStep, observations
  <1>11. ASSUME UNCHANGED vars PROVE granted' = granted
    BY <1>11 DEF vars, observations
  <1> HIDE DEF Auths, Same
  <1>12. Goal
    <2>1. granted' = granted => Goal
      BY <1>2
    <2> HIDE DEF Goal
    <2> QED BY <1>5, <1>6, <1>7, <1>8, <1>9, <1>10, <1>11, <2>1 DEF Next
  <1> QED BY <1>3, <1>4, <1>12 DEF Auths, Same

(* The data of a subcommand: what it loaded, changed in its pairings, or    *)
(* what it saves.                                                           *)
LEMMA CliDataStep ==
    ASSUME BaseInv, [Next]_vars, NEW k \in Cli, cli'[k].data \in Contents
    PROVE  \/ cli'[k].data = cli[k].data
           \/ CliSaves(k) /\ cli'[k].data = ToSave(k)
           \/ Load \in Contents /\ cli'[k].data.last_auth = Load.last_auth
  <1> DEFINE Goal == \/ cli'[k].data = cli[k].data
                     \/ CliSaves(k) /\ cli'[k].data = ToSave(k)
                     \/ Load \in Contents /\ cli'[k].data.last_auth = Load.last_auth
  <1>1. cli \in [Cli -> Process]
    BY DEF BaseInv, ServerTypeOK
  <1>2. ASSUME cli'[k] = cli[k] PROVE Goal
    BY <1>2
  <1>3. ASSUME NEW op, NEW data, NEW p, CliLoads(k, op, data, p),
               data.last_auth = Load.last_auth
        PROVE  Goal
    <2>1. cli'[k].data = data /\ Load \in Contents
      BY <1>1, <1>3 DEF CliLoads, NoCli
    <2> QED BY <1>3, <2>1
  <1>4. ASSUME NEW phones \in SUBSET Phone, Load \in Contents
        PROVE  MarkRevoked(Load, phones).last_auth = Load.last_auth
    <2>1. Load \in KeystoreContents
      BY <1>4, ServerAssumption
    <2> QED BY <2>1 DEF MarkRevoked, KeystoreContents
  <1>5. ASSUME NEW p \in Phone, revoke(k, NameOf[p]) PROVE Goal
    <2> DEFINE phones == {q \in Phone : NameOf[q] = NameOf[p]}
    <2>1. Load \in Contents /\ CliLoads(k, "revoke", MarkRevoked(Load, phones), NoData)
      BY <1>5 DEF revoke
    <2>2. phones \in SUBSET Phone
      OBVIOUS
    <2> HIDE DEF phones, Goal
    <2> QED BY <1>3, <1>4, <2>1, <2>2
  <1>6. ASSUME uninstall_revoke_broadcast(k) PROVE Goal
    <2>1. Load \in Contents /\ CliLoads(k, "revoke", MarkRevoked(Load, Phone), NoData)
      BY <1>6 DEF uninstall_revoke_broadcast
    <2> HIDE DEF Goal
    <2> QED BY <1>3, <1>4, <2>1
  <1>7. ASSUME NEW p \in Phone, pair(k, p) PROVE Goal
    BY <1>3, <1>7 DEF pair
  <1>8. ASSUME reauth_now(k) PROVE Goal
    BY <1>3, <1>8 DEF reauth_now
  <1>9. ASSUME PairBinds(k) PROVE Goal
    BY <1>1, <1>9 DEF PairBinds, Process
  <1>10. ASSUME CliSaves(k) PROVE Goal
    <2>1. cli' = [cli EXCEPT ![k].st = "saving", ![k].data = ToSave(k)]
      BY <1>10 DEF CliSaves
    <2>2. cli'[k].data = ToSave(k)
      BY <1>1, <2>1 DEF Process
    <2> QED BY <1>10, <2>2
  <1>11. ASSUME CliEnds(k) \/ PairLingers(k) \/ CliKilled(k) PROVE Goal
    <2>1. \E st \in {"done", "lingering"} : cli' = [cli EXCEPT ![k] = [NoCli EXCEPT !.st = st]]
      BY <1>11 DEF CliEnds, PairLingers, CliKilled, CliExits
    <2>2. cli'[k].data = NoData
      BY <1>1, <2>1 DEF NoCli
    <2> QED BY <2>2, FileAssumption
  <1>12. ASSUME NEW l \in Cli, CliStep(l) PROVE Goal
    <2>1. CASE l = k
      <3> HIDE DEF Goal
      <3> QED BY <1>5, <1>6, <1>7, <1>8, <1>9, <1>10, <1>11, <1>12, <2>1 DEF CliStep
    <2>2. CASE l # k
      <3>1. \/ \E r : cli' = [cli EXCEPT ![l] = r]
            \/ cli' = [cli EXCEPT ![l].st = "bound", ![l].alone = (serve = "down")]
            \/ cli' = [cli EXCEPT ![l].st = "saving", ![l].data = ToSave(l)]
        BY <1>12, Zenon DEF CliStep, revoke, pair, PairBinds, reauth_now,
              uninstall_revoke_broadcast, CliLoads, CliSaves, CliEnds, PairLingers, CliKilled, CliExits
      <3>2. cli'[k] = cli[k]
        BY <1>1, <2>2, <3>1
      <3> QED BY <1>2, <3>2
    <2> QED BY <2>1, <2>2
  <1>13. ASSUME NEW c \in Conn, Task(c) PROVE cli' = cli
    BY <1>13, Zenon DEF Task, Preflight, RecordAddress, SaveShared, Saved, DispatchCommand,
          DispatchQuery, DispatchReauthConfig, DispatchRevokeAck, WriteReply, Shutdown
  <1>14. ASSUME NEW c \in Conn, PeerActs(c) PROVE cli' = cli
    BY <1>14, Zenon DEF PeerActs, Accept, Handshake, ReceiveReplay, ReceiveUndecodable,
                        Receive, Hangup
  <1>15. ASSUME ServeBind \/ ServeStart \/ ServeClose \/ ServeStop \/ Advance
         PROVE  cli' = cli
    BY <1>15 DEF ServeBind, ServeStart, ServeClose, ServeStop, Advance
  <1>16. ASSUME NEW s \in Saver, FileStep(s) PROVE cli' = cli
    BY <1>16 DEF FileStep
  <1>17. ASSUME UNCHANGED vars PROVE cli' = cli
    BY <1>17 DEF vars
  <1>18. cli' = cli => cli'[k] = cli[k]
    OBVIOUS
  <1> HIDE DEF Goal
  <1>19. Goal
    BY <1>2, <1>12, <1>13, <1>14, <1>15, <1>16, <1>17, <1>18 DEF Next
  <1> QED BY <1>19 DEF Goal

(* A listener that begins to run has just loaded the keystore. *)
LEMMA MemoryLoads ==
    ASSUME BaseInv, [Next]_vars, ~Running, Running'
    PROVE  ServeStart
  <1>1. serve' # serve
    BY DEF Running
  <1>2. ASSUME NEW c \in Conn, Task(c) \/ PeerActs(c) PROVE serve' = serve
    BY <1>2, Zenon DEF Task, Preflight, RecordAddress, SaveShared, Saved, DispatchCommand,
          DispatchQuery, DispatchReauthConfig, DispatchRevokeAck, WriteReply, Shutdown,
          PeerActs, Accept, Handshake, ReceiveReplay, ReceiveUndecodable, Receive, Hangup
  <1>3. ASSUME NEW k \in Cli, CliStep(k) PROVE serve' = serve
    BY <1>3, Zenon DEF CliStep, revoke, pair, PairBinds, reauth_now,
          uninstall_revoke_broadcast, CliLoads, CliSaves, CliEnds, PairLingers, CliKilled
  <1>4. ASSUME NEW s \in Saver, FileStep(s) PROVE serve' = serve
    BY <1>4 DEF FileStep
  <1>5. ASSUME ServeBind \/ ServeClose \/ ServeStop \/ Advance PROVE FALSE
    BY <1>5 DEF ServeBind, ServeClose, ServeStop, Advance, Running
  <1>6. ASSUME UNCHANGED vars PROVE serve' = serve
    BY <1>6 DEF vars
  <1> QED BY <1>1, <1>2, <1>3, <1>4, <1>5, <1>6 DEF Next

(* load finds a keystore that some file holds. *)
LEMMA LoadIsHeld ==
    ASSUME BaseInv, Load \in Contents
    PROVE  Load \in Held
  <1>1. path \in Inode /\ Load = file[path]
    BY FileAssumption DEF BaseInv, ServerTypeOK, FileTypeOK, Load
  <1> QED BY <1>1 DEF Held, Stored

(* Whatever a step makes of the keystores, each one still holds an          *)
(* authentication that was granted.                                         *)
LEMMA HeldStep ==
    ASSUME BaseInv, HeldAreGranted, [Next]_vars
    PROVE  HeldAreGranted'
  <1> SUFFICES ASSUME NEW d \in Held'
               PROVE  d.last_auth \in granted'.auths
    BY DEF HeldAreGranted
  <1> DEFINE Goal(e) == e.last_auth \in granted'.auths
  <1>1. /\ granted.auths \subseteq granted'.auths
        /\ \A k \in Cli : CliSaves(k) => ToSave(k).last_auth \in granted'.auths
    BY GrantsGrow
  <1>2. ASSUME NEW e \in Held PROVE Goal(e)
    BY <1>1 DEF HeldAreGranted
  <1>3. ASSUME d = mem', d \in Contents PROVE Goal(d)
    <2>1. Running'
      BY <1>3, BaseStep, FileAssumption DEF BaseInv, ServerTypeOK
    <2>2. CASE Running
      <3>1. mem \in Contents /\ mem'.last_auth = mem.last_auth
        BY <2>1, <2>2, MemoryChanges
      <3>2. Goal(mem)
        BY <1>2, <3>1 DEF Held
      <3> QED BY <1>3, <3>1, <3>2
    <2>3. CASE ~Running
      <3>1. Load \in Contents /\ mem' = Load
        BY <2>1, <2>3, MemoryLoads DEF ServeStart, Startup, LoadKeystore
      <3> QED BY <1>2, <1>3, <3>1, LoadIsHeld
    <2> QED BY <2>2, <2>3
  <1>4. ASSUME NEW k \in Cli, d = cli'[k].data, d \in Contents PROVE Goal(d)
    <2>1. \/ d = cli[k].data
          \/ CliSaves(k) /\ d = ToSave(k)
          \/ Load \in Contents /\ d.last_auth = Load.last_auth
      BY <1>4, CliDataStep
    <2>2. CASE d = cli[k].data
      <3>1. d \in Held
        BY <1>4, <2>2 DEF Held
      <3> QED BY <1>2, <3>1
    <2>3. CASE CliSaves(k) /\ d = ToSave(k)
      BY <1>1, <2>3
    <2>4. CASE Load \in Contents /\ d.last_auth = Load.last_auth
      <3>1. Goal(Load)
        BY <1>2, <2>4, LoadIsHeld
      <3> QED BY <2>4, <3>1
    <2> QED BY <2>1, <2>2, <2>3, <2>4
  <1>5. ASSUME d \in Stored' PROVE Goal(d)
    <2>1. d \in Contents
      BY <1>5 DEF Stored
    <2>2. \/ d \in Stored \/ d = mem
          \/ \E k \in Cli : CliSaves(k) /\ d = ToSave(k)
      BY <1>5, StoredStep
    <2>3. d \in Stored \/ d = mem => d \in Held
      BY <2>1 DEF Held
    <2> HIDE DEF Goal
    <2>4. \A k \in Cli : CliSaves(k) => Goal(ToSave(k))
      BY <1>1 DEF Goal
    <2> QED BY <1>2, <2>2, <2>3, <2>4
  <1>6. Goal(d)
    BY <1>3, <1>4, <1>5 DEF Held
  <1> QED BY <1>6

(* The interval in memory is always the one in force: a ReauthConfig sets   *)
(* both, and a listener that starts loads it.                               *)
LEMMA InForceStep ==
    ASSUME BaseInv, MemInForce, [Next]_vars
    PROVE  MemInForce'
  <1> SUFFICES ASSUME Running' PROVE mem'.interval = granted'.interval
    BY DEF MemInForce
  <1>1. CASE ~Running
    <2>1. ServeStart
      BY <1>1, MemoryLoads
    <2>2. granted \in [auths : SUBSET Time, interval : Nat]
      BY DEF BaseInv, ObservationsOK
    <2> QED BY <2>1, <2>2 DEF ServeStart, Startup, LoadKeystore
  <1>2. CASE Running
    <2>1. /\ mem \in Contents
          /\ \/ mem'.interval = mem.interval
             \/ \E c \in Conn : /\ DispatchReauthConfig(c)
                                /\ mem'.interval = interval_to_days(conn[c].arg)
      BY <1>2, MemoryChanges
    <2>2. ASSUME NEW c \in Conn, DispatchReauthConfig(c) PROVE mem'.interval = granted'.interval
      <3>1. mem \in KeystoreContents
        BY <2>1, ServerAssumption
      <3>2. mem'.interval = interval_to_days(conn[c].arg)
        BY <2>2, <3>1 DEF DispatchReauthConfig, KeystoreContents
      <3> QED BY <2>2, <3>2, GrantsGrow
    <2>3. ASSUME ~\E c \in Conn : DispatchReauthConfig(c) PROVE mem'.interval = granted'.interval
      <3>1. ~ServeStart
        BY <1>2 DEF ServeStart, Running
      <3>2. granted'.interval = granted.interval
        BY <2>3, <3>1, GrantsGrow
      <3> QED BY <1>2, <2>1, <2>3, <3>2 DEF MemInForce
    <2> QED BY <2>2, <2>3
  <1> QED BY <1>1, <1>2

(* reauth.rs: a window that evaluates as active is open, though the         *)
(* arithmetic saturates.                                                    *)
LEMMA ActiveIsOpen ==
    ASSUME NEW at \in Nat, NEW a \in Nat, NEW d \in Nat,
           ~block_state_change(evaluate(at, a, d))
    PROVE  d = 0 \/ at < a + d * DAY_MS
  <1> DEFINE w == d * DAY_MS
  <1>1. w \in Nat /\ U64_MAX \in Nat
    BY ReauthAssumption
  <1>2. CASE d = 0
    BY <1>2
  <1>3. CASE d # 0
    <2>1. at < Saturate(a + Saturate(w))
      BY <1>3 DEF block_state_change, evaluate, expires_at
    <2> HIDE DEF w
    <2>2. at < a + w
      BY <1>1, <2>1 DEF Saturate
    <2> QED BY <2>2 DEF w
  <1> QED BY <1>2, <1>3

(* A command that runs, runs inside a window that was granted. *)
LEMMA GateStep ==
    ASSUME BaseInv, HeldAreGranted, MemInForce, [Next]_vars, NEW c \in Conn, CommandRuns(c)
    PROVE  \E a \in granted.auths :
              \/ granted.interval = 0
              \/ conn[c].at < a + granted.interval * DAY_MS
  <1> DEFINE o == conn[c]
             n == conn'[c]
  <1>1. Changes(c, n)
    BY ConnChanges
  <1>2. /\ o.st = "dispatch" /\ o.frame \in Command
        /\ n.st = "reply" /\ n.resp # "RequiresReauth"
    BY DEF CommandRuns
  <1>3. ~Blocked(c) /\ Running
    BY <1>1, <1>2 DEF Changes, Leaves, Enters, Shakes, Receives, RunsCommand, Moves
  <1>4. mem \in Contents /\ o \in Connection
    BY <1>3, ConnFacts
  <1>5. mem.last_auth \in Nat /\ mem.interval \in Nat /\ o.at \in Nat
    BY <1>4, ContentsFields DEF Connection, Time
  <1>6. mem.last_auth \in granted.auths /\ mem.interval = granted.interval
    BY <1>3, <1>4 DEF HeldAreGranted, Held, MemInForce
  <1>7. mem.interval = 0 \/ o.at < mem.last_auth + mem.interval * DAY_MS
    BY <1>3, <1>5, ActiveIsOpen DEF Blocked
  <1> QED BY <1>6, <1>7

(* At the beginning nothing is held but the keystore on disk. *)
LEMMA GateInit == Init => HeldAreGranted /\ MemInForce
  <1> SUFFICES ASSUME Init PROVE HeldAreGranted /\ MemInForce
    OBVIOUS
  <1>1. PICK k \in Keystores, i \in Inode :
          /\ path = i
          /\ file = [j \in Inode |-> IF j = i THEN k ELSE Empty]
          /\ granted = [auths |-> {k.last_auth}, interval |-> k.interval]
    BY DEF Init
  <1>2. \A d \in Held : d = k
    BY <1>1, FileAssumption DEF Init, Held, Stored, NoCli
  <1>3. HeldAreGranted
    BY <1>1, <1>2 DEF HeldAreGranted
  <1>4. MemInForce
    BY DEF Init, MemInForce, Running
  <1> QED BY <1>3, <1>4

(* The gate of dispatch holds for every interleaving of connections,        *)
(* restarts and subcommands: a command runs only inside the window of an    *)
(* authentication that reauth-now recorded and of the interval in force -   *)
(* what the last ReauthConfig asked for, shorter ones included, or what the *)
(* listener started with (connection.rs, reauth.rs).                        *)
THEOREM CommandsAreGated == Spec => GateHolds
  <1> DEFINE Gate == \A c \in Conn : CommandRuns(c) =>
                       \E a \in granted.auths :
                          \/ granted.interval = 0
                          \/ conn[c].at < a + granted.interval * DAY_MS
  <1>1. BaseInv /\ HeldAreGranted /\ MemInForce /\ [Next]_vars
          => HeldAreGranted' /\ MemInForce' /\ [Gate]_vars
    BY HeldStep, InForceStep, GateStep
  <1> QED BY <1>1, GateInit, ServerBase, PTL DEF Spec, GateHolds

-----------------------------------------------------------------------------
(* The files *)

(* Every use of the keystore file leaves each name a file of its own. *)
LEMMA ApartStep ==
    ASSUME FileTypeOK, TmpsApart, [FileNext]_fileVars
    PROVE  TmpsApart'
  <1> USE SaverAssumption, FileAssumption
  <1>1. ASSUME UNCHANGED <<path, tmp>> PROVE TmpsApart'
    BY <1>1 DEF TmpsApart
  <1>2. ASSUME NEW s \in Saver, SaveCreate(s) PROVE TmpsApart'
    <2>1. PICK i \in IF TmpFile(s) = NoInode THEN Inode \ InUse ELSE {TmpFile(s)} :
            tmp' = [tmp EXCEPT ![PidOf[s]] = i]
      BY <1>2 DEF SaveCreate
    <2>2. path' = path
      BY <1>2 DEF SaveCreate
    <2>3. i # path /\ \A p \in Pid : p # PidOf[s] => tmp[p] # i
      BY <2>1 DEF TmpsApart, TmpFile, InUse
    <2> QED BY <2>1, <2>2, <2>3 DEF TmpsApart, FileTypeOK
  <1>3. ASSUME NEW s \in Saver, SaveRename(s) PROVE TmpsApart'
    <2>1. /\ path' = tmp[PidOf[s]] /\ tmp[PidOf[s]] # NoInode
          /\ tmp' = [tmp EXCEPT ![PidOf[s]] = NoInode]
      BY <1>3 DEF SaveRename
    <2> QED BY <2>1 DEF TmpsApart, FileTypeOK
  <1>4. ASSUME NEW s \in Saver,
               \/ SaveOpenFails(s) \/ SaveWrite(s) \/ SaveWriteFails(s) \/ SaveRenameFails(s)
               \/ Consume(s) \/ \E d \in Contents : SaveCall(s, d)
        PROVE  UNCHANGED <<path, tmp>>
    BY <1>4, Zenon DEF SaveOpenFails, SaveWrite, SaveWriteFails, SaveRenameFails, Consume,
                       SaveCall
  <1>5. ASSUME NEW p \in Pid, Exit(p) PROVE UNCHANGED <<path, tmp>>
    BY <1>5 DEF Exit
  <1>6. ASSUME UNCHANGED fileVars PROVE UNCHANGED <<path, tmp>>
    BY <1>6 DEF fileVars
  <1> QED BY <1>1, <1>2, <1>3, <1>4, <1>5, <1>6 DEF FileNext, SaveStep

(* A step of an undisturbed save leaves it undisturbed, and leaves the      *)
(* keystore alone or replaces it by what was to be saved and succeeds.      *)
LEMMA SaveStepEffect ==
    ASSUME FileTypeOK, TmpsApart, NEW s \in Saver, Whole(s), SaveStep(s)
    PROVE  /\ Whole(s)'
           /\ \A t \in Saver \ {s} : /\ step'[t] = step[t] /\ pending'[t] = pending[t]
                                     /\ outcome'[t] = outcome[t]
           /\ pending'[s] \in {pending[s], NoData}
           /\ step[s] # "idle"
           /\ \/ Load' = Load /\ (outcome'[s] = "ok" => outcome[s] = "ok")
              \/ Load' = pending[s] /\ pending[s] \in Contents
  <1> USE SaverAssumption, FileAssumption
  <1>1. /\ \A t \in Saver \ {s} : /\ step'[t] = step[t] /\ pending'[t] = pending[t]
                                  /\ outcome'[t] = outcome[t]
        /\ pending'[s] \in {pending[s], NoData}
        /\ step[s] # "idle"
    BY DEF SaveStep, SaveOpenFails, SaveCreate, SaveWrite, SaveWriteFails, SaveRename,
           SaveRenameFails, Return, FileTypeOK
  <1> DEFINE Same == Load' = Load /\ (outcome'[s] = "ok" => outcome[s] = "ok")
             New == Load' = pending[s] /\ pending[s] \in Contents
             Goal == Whole(s)' /\ (Same \/ New)
  <1>2. ASSUME SaveOpenFails(s) \/ SaveRenameFails(s) PROVE Goal
    BY <1>2 DEF SaveOpenFails, SaveRenameFails, Return, Load, FileTypeOK, Whole
  <1>3. ASSUME SaveCreate(s) PROVE Goal
    <2>1. PICK i \in IF TmpFile(s) = NoInode THEN Inode \ InUse ELSE {TmpFile(s)} :
            /\ file' = [file EXCEPT ![i] = Empty]
            /\ tmp' = [tmp EXCEPT ![PidOf[s]] = i]
            /\ fd' = [fd EXCEPT ![s] = i]
      BY <1>3 DEF SaveCreate
    <2>2. i # path /\ i \in Inode
      BY <2>1 DEF TmpFile, InUse, TmpsApart, FileTypeOK
    <2>3. path' = path /\ outcome' = outcome /\ step' = [step EXCEPT ![s] = "write"]
      BY <1>3 DEF SaveCreate
    <2>4. Whole(s)'
      BY <2>1, <2>2, <2>3 DEF Whole, FileTypeOK
    <2>5. Same
      BY <2>1, <2>2, <2>3 DEF Load, FileTypeOK
    <2> QED BY <2>4, <2>5
  <1>4. ASSUME SaveWrite(s) \/ SaveWriteFails(s) PROVE Goal
    <2>1. step[s] = "write" /\ path' = path
      BY <1>4 DEF SaveWrite, SaveWriteFails
    <2>2. fd[s] = tmp[PidOf[s]] /\ file[fd[s]] = Empty /\ fd[s] \in Inode
      BY <2>1 DEF Whole, FileTypeOK
    <2>3. fd[s] # path
      BY <2>2 DEF TmpsApart
    <2>4. \E v : file' = [file EXCEPT ![fd[s]] = v]
      BY <1>4 DEF SaveWrite, SaveWriteFails
    <2>5. Load' = Load
      BY <2>1, <2>3, <2>4 DEF Load, FileTypeOK
    <2>6. outcome'[s] = "ok" => outcome[s] = "ok"
      BY <1>4 DEF SaveWrite, SaveWriteFails, Return, FileTypeOK
    <2>7. Whole(s)'
      BY <1>4, <2>2 DEF SaveWrite, SaveWriteFails, Return, FileTypeOK, Whole
    <2> QED BY <2>5, <2>6, <2>7
  <1>5. ASSUME SaveRename(s) PROVE Goal
    <2>1. step[s] = "rename" /\ path' = tmp[PidOf[s]] /\ tmp[PidOf[s]] # NoInode
      BY <1>5 DEF SaveRename
    <2>2. path' = fd[s] /\ fd[s] \in Inode /\ fd[s] # path
      BY <2>1 DEF Whole, TmpsApart, FileTypeOK
    <2>3. file'[fd[s]] = file[fd[s]]
      BY <1>5, <2>2 DEF SaveRename
    <2>4. file[fd[s]] = pending[s] /\ pending[s] \in Contents
      BY <2>1 DEF Whole, FileTypeOK
    <2>5. Whole(s)'
      BY <1>5 DEF SaveRename, Return, FileTypeOK, Whole
    <2> QED BY <2>2, <2>3, <2>4, <2>5 DEF Load
  <1> HIDE DEF Goal
  <1>6. Goal
    BY <1>2, <1>3, <1>4, <1>5 DEF SaveStep
  <1> QED BY <1>1, <1>6 DEF Goal

-----------------------------------------------------------------------------
(* What the listener has acknowledged *)

(* The steps of a connection that has no ReauthConfig in hand. *)
LEMMA NoConfigSteps ==
    ASSUME BaseInv, NEW c \in Conn,
           \/ PeerActs(c) \/ Preflight(c) \/ RecordAddress(c) \/ DispatchCommand(c)
           \/ DispatchQuery(c) \/ DispatchRevokeAck(c) \/ Shutdown(c)
    PROVE  /\ ~InHand(conn'[c])
           /\ UNCHANGED <<fileVars, serve, cli, config>>
  <1> DEFINE old == conn[c]
             Goal == ~InHand(conn'[c])
  <1>1. conn \in [Conn -> Connection] /\ old \in Connection
    BY DEF BaseInv, ServerTypeOK
  <1>2. UNCHANGED <<fileVars, serve, cli, config>>
    BY Zenon DEF PeerActs, Accept, Handshake, ReceiveReplay, ReceiveUndecodable, Receive,
         Hangup, Preflight, RecordAddress, DispatchCommand, DispatchQuery,
         DispatchRevokeAck, Shutdown, observations
  <1>3. ASSUME NEW r, Become(c, r), ~InHand(r) PROVE Goal
    <2>1. conn'[c] = r
      BY <1>1, <1>3 DEF Become
    <2> QED BY <1>3, <2>1
  <1>4. ASSUME NEW st \in {"preflight", "address", "read", "address save", "ack save"},
               Become(c, [old EXCEPT !.st = st])
        PROVE  Goal
    <2>1. [old EXCEPT !.st = st].st = st
      BY <1>1 DEF Connection
    <2> QED BY <1>3, <1>4, <2>1 DEF InHand, Acks
  <1>5. ASSUME Become(c, NoConn) \/ Become(c, Closing(c)) PROVE Goal
    <2>1. ~InHand(NoConn) /\ ~InHand(Closing(c))
      BY DEF InHand, Acks, NoConn, Closing
    <2> QED BY <1>3, <1>5, <2>1
  <1>6. ASSUME NEW resp, Become(c, Reply(c, resp)), old.frame # "ReauthConfig" PROVE Goal
    <2>1. Reply(c, resp).frame = old.frame /\ Reply(c, resp).st = "reply"
      BY <1>1 DEF Reply, Connection
    <2> QED BY <1>3, <1>6, <2>1 DEF InHand, Acks
  <1>7. ASSUME NEW p \in Phone, NEW a \in Addr, Accept(c, p, a) PROVE Goal
    <2> DEFINE r == [NoConn EXCEPT !.st = "tls", !.phone = p, !.addr = a,
                                   !.pins = ActivePhones(mem), !.known = reported]
    <2>1. r.st = "tls" /\ Become(c, r)
      BY <1>7 DEF Accept, NoConn
    <2> HIDE DEF r
    <2> QED BY <1>3, <2>1 DEF InHand, Acks
  <1>8. ASSUME NEW n, NEW frame, NEW arg, Receive(c, n, frame, arg) PROVE Goal
    <2> DEFINE r == [old EXCEPT !.st = "dispatch", !.last_seen = n,
                                !.frame = frame, !.arg = arg, !.at = now]
    <2>1. r.st = "dispatch" /\ Become(c, r)
      BY <1>1, <1>8 DEF Receive, Connection
    <2> HIDE DEF r
    <2> QED BY <1>3, <2>1 DEF InHand, Acks
  <1>9. ASSUME PeerActs(c) PROVE Goal
    <2>1. CASE Handshake(c)
      BY <1>4, <1>5, <2>1 DEF Handshake
    <2>2. CASE Hangup(c)
      BY <1>5, <2>2 DEF Hangup
    <2>3. CASE \E n \in 0 .. MaxNonce : ReceiveReplay(c, n) \/ ReceiveUndecodable(c, n)
      BY <1>5, <2>3 DEF ReceiveReplay, ReceiveUndecodable, SendErrorAndClose
    <2> HIDE DEF Goal
    <2> QED BY <1>7, <1>8, <1>9, <2>1, <2>2, <2>3 DEF PeerActs
  <1>10. ASSUME Preflight(c) PROVE Goal
    BY <1>4, <1>5, <1>10 DEF Preflight, SendErrorAndClose
  <1>11. ASSUME RecordAddress(c) PROVE Goal
    <2>1. \E st \in {"address save", "read"} : Become(c, [old EXCEPT !.st = st])
      BY <1>11 DEF RecordAddress
    <2> QED BY <1>4, <2>1
  <1>12. ASSUME DispatchCommand(c) PROVE Goal
    <2>1. old.frame # "ReauthConfig"
      BY <1>12, ServerAssumption DEF DispatchCommand, OtherFrames
    <2>2. ASSUME NEW resp, Become(c, [Reply(c, resp) EXCEPT !.ran[old.last_seen] = @ + 1]) PROVE Goal
      <3> DEFINE r == [Reply(c, resp) EXCEPT !.ran[old.last_seen] = @ + 1]
      <3>1. r.frame = old.frame /\ r.st = "reply"
        BY <1>1 DEF Reply, Connection
      <3>2. Become(c, r)
        BY <2>2
      <3> HIDE DEF r
      <3> QED BY <1>3, <2>1, <3>1, <3>2 DEF InHand, Acks
    <2>3. \/ Become(c, Reply(c, "RequiresReauth"))
          \/ \E resp \in Handlers("Ack") : Become(c, [Reply(c, resp) EXCEPT !.ran[old.last_seen] = @ + 1])
      BY <1>12 DEF DispatchCommand
    <2> HIDE DEF Goal
    <2> QED BY <1>6, <2>1, <2>2, <2>3
  <1>13. ASSUME DispatchQuery(c) PROVE Goal
    <2>1. (\E resp : Become(c, Reply(c, resp))) /\ old.frame # "ReauthConfig"
      BY <1>13 DEF DispatchQuery
    <2> QED BY <1>6, <2>1
  <1>14. ASSUME DispatchRevokeAck(c) PROVE Goal
    <2>1. /\ old.frame = "RevokeAck"
          /\ \/ Become(c, [old EXCEPT !.st = "ack save"])
             \/ Become(c, Reply(c, "Ack"))
      BY <1>14 DEF DispatchRevokeAck
    <2> QED BY <1>4, <1>6, <2>1
  <1>15. ASSUME Shutdown(c) PROVE Goal
    BY <1>5, <1>15 DEF Shutdown
  <1> HIDE DEF Goal
  <1>16. Goal
    BY <1>9, <1>10, <1>11, <1>12, <1>13, <1>14, <1>15
  <1> QED BY <1>2, <1>16 DEF Goal

(* The steps that leave the connections and memory alone: unless another    *)
(* process saves, they leave the keystore alone.                            *)
LEMMA ElsewhereKeepsConfig ==
    ASSUME ConfigOnItsWay, UNCHANGED <<mem, conn, config>>, Running' = Running,
           NoOtherSave' => NoOtherSave /\ UNCHANGED fileVars
    PROVE  ConfigOnItsWay'
  <1>1. CASE ~NoOtherSave'
    BY <1>1 DEF ConfigOnItsWay
  <1>2. CASE NoOtherSave'
    <2>1. NoOtherSave /\ UNCHANGED <<path, tmp, file, step, fd, pending, outcome>>
      BY <1>2 DEF fileVars
    <2>2. Load' = Load /\ \A c \in Conn : Whole(c)' <=> Whole(c)
      BY <2>1 DEF Load, Whole
    <2> QED BY <2>1, <2>2 DEF ConfigOnItsWay
  <1> QED BY <1>1, <1>2

(* The steps of a connection: what they have to show. *)
LEMMA ConnKeepsConfig ==
    ASSUME ConfigOnItsWay, NEW c \in Conn, c \in Saver, Load' = Load, cli' = cli,
           Running, Running',
           \A d \in Conn \ {c} : /\ conn'[d] = conn[d] /\ step'[d] = step[d]
                                 /\ pending'[d] = pending[d] /\ outcome'[d] = outcome[d]
                                 /\ Whole(d) => Whole(d)',
           Whole(c) => Whole(c)',
           pending'[c] \in {pending[c], mem, NoData},
           config'.by = config.by, config'.days = config.days,
           ~config'.overlap => /\ ~config.overlap
                               /\ step'[c] # "idle" /\ step[c] = "idle" =>
                                     \A d \in Conn \ {c} : step[d] = "idle",
           mem'.interval = mem.interval,
           InHand(conn'[c]) => InHand(conn[c]),
           Settled(conn'[c], outcome'[c]) => Settled(conn[c], outcome[c]),
           config'.acked => \/ config.acked
                            \/ config.by = c /\ Settled(conn[c], outcome[c])
    PROVE  ConfigOnItsWay'
  <1>1. NoOtherSave' <=> NoOtherSave
    BY DEF NoOtherSave
  <1>2. config'.acked => config'.by \in Conn
    BY DEF ConfigOnItsWay
  <1> SUFFICES ASSUME NoOtherSave, config.by \in Conn, ~config'.overlap
               PROVE  /\ \A a, b \in Conn : step'[a] # "idle" /\ step'[b] # "idle" => a = b
                      /\ \A a \in Conn : Whole(a)'
                      /\ InHand(conn'[config.by]) \/ config'.acked =>
                           /\ mem.interval = config.days
                           /\ \A a \in Conn : pending'[a] # NoData =>
                                                pending'[a].interval = config.days
                      /\ Settled(conn'[config.by], outcome'[config.by]) \/ config'.acked =>
                           Load \in Contents /\ Load.interval = config.days
    BY <1>1, <1>2 DEF ConfigOnItsWay
  <1>3. ~config.overlap
    OBVIOUS
  <1>4. /\ \A a, b \in Conn : step[a] # "idle" /\ step[b] # "idle" => a = b
        /\ \A a \in Conn : Whole(a)
        /\ InHand(conn[config.by]) \/ config.acked =>
             /\ mem.interval = config.days
             /\ \A a \in Conn : pending[a] # NoData => pending[a].interval = config.days
        /\ Settled(conn[config.by], outcome[config.by]) \/ config.acked =>
             Load \in Contents /\ Load.interval = config.days
    BY <1>3 DEF ConfigOnItsWay
  <1>5. \A a, b \in Conn : step'[a] # "idle" /\ step'[b] # "idle" => a = b
    BY <1>4
  <1>6. \A a \in Conn : Whole(a)'
    BY <1>4
  <1>7. Settled(conn[config.by], outcome[config.by]) => InHand(conn[config.by])
    BY DEF Settled, InHand
  <1>8. InHand(conn'[config.by]) \/ config'.acked => InHand(conn[config.by]) \/ config.acked
    BY <1>7
  <1>9. Settled(conn'[config.by], outcome'[config.by]) \/ config'.acked =>
          Settled(conn[config.by], outcome[config.by]) \/ config.acked
    OBVIOUS
  <1> QED BY <1>4, <1>5, <1>6, <1>8, <1>9

(* A connection touches the files only by starting a save and by taking its *)
(* result.                                                                  *)
LEMMA ConnLeavesFiles ==
    ASSUME BaseInv, NEW c \in Conn, Task(c) \/ PeerActs(c)
    PROVE  /\ Running /\ Running' /\ UNCHANGED <<serve, port, cli, paired, crossed>>
           /\ Load' = Load /\ UNCHANGED <<path, tmp, file, fd>>
           /\ \A s \in Saver \ {c} : /\ step'[s] = step[s] /\ pending'[s] = pending[s]
                                     /\ outcome'[s] = outcome[s]
           /\ pending'[c] \in {pending[c], mem}
           /\ step'[c] \in {step[c], "create"}
           /\ \A s \in Saver : Whole(s) => Whole(s)'
  <1>1. Running /\ UNCHANGED <<serve, port, cli, paired, crossed>>
    BY Zenon DEF Task, Preflight, RecordAddress, SaveShared, Saved, DispatchCommand,
          DispatchQuery, DispatchReauthConfig, DispatchRevokeAck, WriteReply, Shutdown,
          PeerActs, Accept, Handshake, ReceiveReplay, ReceiveUndecodable, Receive, Hangup,
          At, Running, observations
  <1>2. Running'
    BY <1>1 DEF Running
  <1>3. FileTypeOK /\ c \in Saver
    BY ServerAssumption DEF BaseInv, ServerTypeOK
  <1> DEFINE Goal == /\ Load' = Load /\ UNCHANGED <<path, tmp, file, fd>>
                     /\ \A s \in Saver \ {c} : /\ step'[s] = step[s] /\ pending'[s] = pending[s]
                                               /\ outcome'[s] = outcome[s]
                     /\ pending'[c] \in {pending[c], mem}
                     /\ step'[c] \in {step[c], "create"}
                     /\ \A s \in Saver : Whole(s) => Whole(s)'
  <1>4. ASSUME SaveShared(c) PROVE Goal
    <2>1. SaveCall(c, mem)
      BY <1>4 DEF SaveShared
    <2>2. /\ Load' = Load /\ UNCHANGED <<path, tmp, file, fd>>
          /\ pending'[c] = mem /\ step'[c] = "create"
          /\ \A s \in Saver \ {c} : /\ step'[s] = step[s] /\ pending'[s] = pending[s]
                                    /\ outcome'[s] = outcome[s]
      BY <1>3, <2>1 DEF SaveCall, FileTypeOK, Load
    <2>3. \A s \in Saver : Whole(s) => Whole(s)'
      BY <2>2 DEF Whole
    <2> QED BY <2>2, <2>3
  <1>5. ASSUME Saved(c) PROVE Goal
    <2>1. Consume(c)
      BY <1>5 DEF Saved
    <2>2. \A s \in Saver : Whole(s) => Whole(s)'
      BY <2>1 DEF Consume, Whole
    <2> QED BY <1>3, <2>1, <2>2 DEF Consume, FileTypeOK, Load
  <1>6. ASSUME \/ PeerActs(c) \/ Preflight(c) \/ RecordAddress(c) \/ DispatchCommand(c)
               \/ DispatchQuery(c) \/ DispatchReauthConfig(c) \/ DispatchRevokeAck(c)
               \/ WriteReply(c) \/ Shutdown(c)
        PROVE  Goal
    <2>1. UNCHANGED fileVars
      BY <1>6, Zenon DEF PeerActs, Accept, Handshake, ReceiveReplay, ReceiveUndecodable,
           Receive, Hangup, Preflight, RecordAddress, DispatchCommand, DispatchQuery,
           DispatchReauthConfig, DispatchRevokeAck, WriteReply, Shutdown
    <2>2. UNCHANGED <<path, tmp, file, step, fd, pending, outcome>>
      BY <2>1 DEF fileVars
    <2> QED BY <2>2 DEF Load, Whole
  <1> HIDE DEF Goal
  <1>7. Goal
    BY <1>4, <1>5, <1>6 DEF Task
  <1> QED BY <1>1, <1>2, <1>7 DEF Goal

(* ... and only its own record changes. *)
LEMMA ConnLeavesOthers ==
    ASSUME BaseInv, NEW c \in Conn, Task(c) \/ PeerActs(c), NEW d \in Conn \ {c}
    PROVE  conn'[d] = conn[d]
  <1>1. conn \in [Conn -> Connection]
    BY DEF BaseInv, ServerTypeOK
  <1>2. \E r : conn' = [conn EXCEPT ![c] = r]
    BY Zenon DEF Task, Preflight, RecordAddress, SaveShared, Saved, DispatchCommand,
          DispatchQuery, DispatchReauthConfig, DispatchRevokeAck, WriteReply, Shutdown,
          PeerActs, Accept, Handshake, ReceiveReplay, ReceiveUndecodable, Receive, Hangup,
          Become, SendErrorAndClose
  <1> QED BY <1>1, <1>2

(* The steps of connections. *)
LEMMA TaskKeepsConfig ==
    ASSUME ConfigInv, NEW c \in Conn, Task(c) \/ PeerActs(c), [Next]_vars
    PROVE  ConfigOnItsWay'
  <1> DEFINE old == conn[c]
             days == interval_to_days(old.arg)
             Others == \A d \in Conn \ {c} : /\ conn'[d] = conn[d] /\ step'[d] = step[d]
                                             /\ pending'[d] = pending[d]
                                             /\ outcome'[d] = outcome[d]
                                             /\ Whole(d) => Whole(d)'
  <1>1. /\ BaseInv /\ ConfigOnItsWay /\ FileTypeOK
        /\ conn \in [Conn -> Connection] /\ old \in Connection /\ c \in Saver
        /\ config \in [by : Conn \cup {NoData}, days : Nat, acked : BOOLEAN, overlap : BOOLEAN]
        /\ mem \in Contents \cup {NoData} /\ (Running <=> mem # NoData)
        /\ \A d \in Conn : pending[d] # NoData <=> step[d] # "idle"
    BY ServerAssumption DEF ConfigInv, BaseInv, ServerTypeOK, FileTypeOK, ObservationsOK
  <1>2. /\ Running /\ Running' /\ cli' = cli /\ Load' = Load
        /\ pending'[c] \in {pending[c], mem}
        /\ Whole(c) => Whole(c)'
    BY <1>1, ConnLeavesFiles
  <1>3. Others
    BY <1>1, ConnLeavesFiles, ConnLeavesOthers, ServerAssumption
  <1> HIDE DEF Others
  <1>4. ASSUME ~\E d \in Conn : DispatchReauthConfig(d) PROVE mem'.interval = mem.interval
    BY <1>1, <1>2, <1>4, MemoryChanges
  <1>5. ASSUME NEW d \in Conn, DispatchReauthConfig(d)
        PROVE  conn'[d].st = "config save" /\ conn[d].st = "dispatch"
    <2>1. Become(d, [conn[d] EXCEPT !.st = "config save"]) /\ conn[d].st = "dispatch"
      BY <1>5 DEF DispatchReauthConfig, At
    <2>2. conn[d] \in Connection
      BY <1>1
    <2>3. [conn[d] EXCEPT !.st = "config save"].st = "config save"
      BY <2>2 DEF Connection
    <2>4. conn'[d] = [conn[d] EXCEPT !.st = "config save"]
      BY <1>1, <2>1 DEF Become
    <2> QED BY <2>1, <2>3, <2>4
  <1>6. ASSUME conn'[c].st # "config save" PROVE mem'.interval = mem.interval
    <2>1. ASSUME NEW d \in Conn, DispatchReauthConfig(d) PROVE FALSE
      <3>1. conn'[d].st = "config save" /\ conn[d].st = "dispatch"
        BY <1>5, <2>1
      <3> QED BY <1>3, <1>6, <3>1 DEF Others
    <2> QED BY <1>4, <2>1
  <1>7. ASSUME \/ PeerActs(c) \/ Preflight(c) \/ RecordAddress(c) \/ DispatchCommand(c)
               \/ DispatchQuery(c) \/ DispatchRevokeAck(c) \/ Shutdown(c)
        PROVE  ConfigOnItsWay'
    <2>1. ~InHand(conn'[c]) /\ UNCHANGED <<fileVars, config>>
      BY <1>1, <1>7, NoConfigSteps
    <2>2. mem'.interval = mem.interval
      BY <1>6, <2>1 DEF InHand
    <2>3. ~Settled(conn'[c], outcome'[c]) /\ step' = step
      BY <2>1 DEF InHand, Settled, fileVars
    <2> QED BY <1>1, <1>2, <1>3, <2>1, <2>2, <2>3, ConnKeepsConfig DEF Others
  <1>8. ASSUME DispatchReauthConfig(c) PROVE ConfigOnItsWay'
    <2>1. /\ Become(c, [old EXCEPT !.st = "config save"]) /\ UNCHANGED fileVars
          /\ mem' = [mem EXCEPT !.interval = days]
          /\ config' = [by |-> c, days |-> days, acked |-> FALSE, overlap |-> OthersSave(c)]
          /\ old.st = "dispatch"
      BY <1>8 DEF DispatchReauthConfig, At
    <2>2. conn'[c] = [old EXCEPT !.st = "config save"]
      BY <1>1, <2>1 DEF Become
    <2>3. conn'[c].st = "config save"
      BY <1>1, <2>2 DEF Connection
    <2>4. mem'.interval = days
      <3>1. mem \in KeystoreContents
        BY <1>1, <1>2, ServerAssumption
      <3> QED BY <2>1, <3>1 DEF KeystoreContents
    <2>5. config'.by = c /\ config'.days = days /\ ~config'.acked /\ config'.overlap = OthersSave(c)
      BY <2>1
    <2>6. UNCHANGED <<path, tmp, file, step, fd, pending, outcome>>
      BY <2>1 DEF fileVars
    <2>7. step[c] = "idle"
      BY <1>1, <2>1 DEF BaseInv, ServerTypeOK
    <2>8. ASSUME ~config'.overlap PROVE \A d \in Conn : step[d] = "idle" /\ pending[d] = NoData
      BY <1>1, <2>5, <2>7, <2>8 DEF OthersSave
    <2>9. ~Settled(conn'[c], outcome'[c])
      BY <2>3 DEF Settled, Acks
    <2>10. ~config'.overlap => \A d \in Conn : Whole(d)'
      BY <2>6, <2>8 DEF Whole
    <2> QED BY <2>4, <2>5, <2>6, <2>8, <2>9, <2>10 DEF ConfigOnItsWay
  <1>9. ASSUME SaveShared(c) PROVE ConfigOnItsWay'
    <2>1. /\ SaveCall(c, mem) /\ mem' = mem
          /\ config' = [config EXCEPT !.overlap = @ \/ OthersSave(c)]
          /\ old.st \in {"address save", "config save", "ack save"}
          /\ \E st \in {"address saving", "config saving", "ack saving"} :
               /\ Become(c, [old EXCEPT !.st = st])
               /\ st = "config saving" => old.st = "config save"
      BY <1>1, <1>9 DEF SaveShared, Connection
    <2>2. /\ conn'[c].st \in {"address saving", "config saving", "ack saving"}
          /\ conn'[c].st = "config saving" => old.st = "config save"
      <3>1. PICK st \in {"address saving", "config saving", "ack saving"} :
              /\ Become(c, [old EXCEPT !.st = st])
              /\ st = "config saving" => old.st = "config save"
        BY <2>1
      <3>2. [old EXCEPT !.st = st].st = st
        BY <1>1 DEF Connection
      <3>3. conn'[c] = [old EXCEPT !.st = st]
        BY <1>1, <3>1 DEF Become
      <3> QED BY <3>1, <3>2, <3>3
    <2>3. outcome'[c] = "none"
      BY <1>1, <2>1 DEF SaveCall, FileTypeOK
    <2>4. /\ config'.by = config.by /\ config'.days = config.days
          /\ config'.acked = config.acked /\ config'.overlap = (config.overlap \/ OthersSave(c))
      BY <1>1, <2>1
    <2>5. InHand(conn'[c]) => InHand(conn[c])
      BY <2>2 DEF InHand, Acks
    <2>6. ~Settled(conn'[c], outcome'[c])
      BY <2>2, <2>3 DEF Settled, Acks
    <2>7. ~config'.overlap => ~config.overlap /\ \A d \in Conn \ {c} : step[d] = "idle"
      BY <2>4 DEF OthersSave
    <2> QED BY <1>1, <1>2, <1>3, <2>1, <2>4, <2>5, <2>6, <2>7, ConnKeepsConfig DEF Others
  <1>10. ASSUME Saved(c) PROVE ConfigOnItsWay'
    <2>1. /\ Consume(c) /\ UNCHANGED <<mem, config>>
          /\ old.st \in {"address saving", "config saving", "ack saving"}
      BY <1>10 DEF Saved, observations
    <2>2. step' = step
      BY <2>1 DEF Consume
    <2>3. old.st = "ack saving" => old.frame = "RevokeAck"
      BY <1>1 DEF BaseInv, WorkMatches
    <2>4. /\ conn'[c].st \in {"read", "reply"}
          /\ Acks(conn'[c]) => old.st = "config saving" /\ outcome[c] = "ok"
      <3>1. CASE old.st = "address saving"
        <4>1. Become(c, [old EXCEPT !.st = "read"])
          BY <1>10, <3>1 DEF Saved
        <4>2. conn'[c].st = "read"
          BY <1>1, <4>1 DEF Become, Connection
        <4> QED BY <4>2 DEF Acks
      <3>2. CASE old.st = "config saving"
        <4>1. Become(c, Reply(c, ConfigResponse(outcome[c])))
          BY <1>10, <3>2 DEF Saved
        <4>2. conn'[c].st = "reply" /\ conn'[c].resp = ConfigResponse(outcome[c])
          BY <1>1, <4>1 DEF Become, Connection, Reply
        <4> QED BY <3>2, <4>2 DEF ConfigResponse, Acks
      <3>3. CASE old.st = "ack saving"
        <4>1. Become(c, Reply(c, "Ack"))
          BY <1>10, <3>3 DEF Saved
        <4>2. conn'[c].st = "reply" /\ conn'[c].frame = old.frame
          BY <1>1, <4>1 DEF Become, Connection, Reply
        <4> QED BY <2>3, <3>3, <4>2 DEF Acks
      <3> QED BY <2>1, <3>1, <3>2, <3>3
    <2>5. /\ InHand(conn'[c]) => InHand(conn[c])
          /\ Settled(conn'[c], outcome'[c]) => Settled(conn[c], outcome[c])
      BY <2>4 DEF InHand, Settled
    <2> QED BY <1>1, <1>2, <1>3, <2>1, <2>2, <2>5, ConnKeepsConfig DEF Others
  <1>11. ASSUME WriteReply(c) PROVE ConfigOnItsWay'
    <2>1. /\ UNCHANGED <<fileVars, mem>> /\ old.st = "reply"
          /\ config' = IF config.by = c /\ Acks(old)
                       THEN [config EXCEPT !.acked = TRUE] ELSE config
      BY <1>11 DEF WriteReply, At, Acks
    <2>2. conn'[c].st \in {"read", "closing"}
      <3> DEFINE r == [old EXCEPT !.st = "read", !.frame = "none",
                         !.arg = "none", !.at = 0, !.resp = "none"]
      <3>1. r.st = "read" /\ Closing(c).st = "closing"
        BY <1>1 DEF Connection, Closing, NoConn
      <3>2. Become(c, r) \/ Become(c, Closing(c))
        BY <1>11 DEF WriteReply
      <3> HIDE DEF r
      <3> QED BY <1>1, <3>1, <3>2 DEF Become
    <2>3. ~InHand(conn'[c]) /\ ~Settled(conn'[c], outcome'[c])
      BY <2>2 DEF InHand, Settled, Acks
    <2>4. /\ config'.by = config.by /\ config'.days = config.days
          /\ config'.overlap = config.overlap
          /\ config'.acked => config.acked \/ (config.by = c /\ Settled(old, outcome[c]))
      BY <1>1, <2>1 DEF Settled
    <2>5. step' = step
      BY <2>1 DEF fileVars
    <2> QED BY <1>1, <1>2, <1>3, <2>1, <2>3, <2>4, <2>5, ConnKeepsConfig DEF Others
  <1> QED BY <1>7, <1>8, <1>9, <1>10, <1>11 DEF Task

(* The process: a listener that starts reads what it had acknowledged from  *)
(* the disk, and one that ends leaves it there.                             *)
LEMMA ServeKeepsConfig ==
    ASSUME ConfigInv, ServeStart \/ ServeStop
    PROVE  ConfigOnItsWay'
  <1>1. /\ BaseInv /\ ConfigOnItsWay /\ Conn \subseteq Saver
        /\ \A c \in Conn : /\ PidOf[c] = ServePid
                           /\ pending[c] # NoData <=> step[c] # "idle"
                           /\ conn[c].st # "none" => Running
                           /\ step[c] # "idle" => conn[c].st # "none"
    BY ServerAssumption DEF ConfigInv, BaseInv, ServerTypeOK, FileTypeOK
  <1>2. Load' = Load /\ cli' = cli /\ config' = config
    BY DEF ServeStart, ServeStop, Startup, LoadKeystore, Exit, fileVars, Load, observations
  <1>3. NoOtherSave' <=> NoOtherSave
    BY <1>2 DEF NoOtherSave
  <1>4. \A c \in Conn : conn'[c].st = "none" /\ pending'[c] = NoData /\ step'[c] = "idle"
    <2>1. CASE ServeStart
      <3>1. UNCHANGED <<pending, step, conn>> /\ ~Running
        BY <2>1 DEF ServeStart, fileVars, Running
      <3> QED BY <1>1, <3>1
    <2>2. CASE ServeStop
      <3>1. conn' = [c \in Conn |-> NoConn]
        BY <2>2 DEF ServeStop
      <3>2. /\ pending' = [s \in Saver |-> IF PidOf[s] = ServePid THEN NoData ELSE pending[s]]
            /\ step' = [s \in Saver |-> IF PidOf[s] = ServePid THEN "idle" ELSE step[s]]
        BY <2>2 DEF ServeStop, Exit
      <3> QED BY <1>1, <3>1, <3>2 DEF NoConn
    <2> QED BY <2>1, <2>2
  <1>5. Running' => mem' = Load
    BY DEF ServeStart, ServeStop, Startup, LoadKeystore, Running
  <1>6. \A c \in Conn : Whole(c)' /\ ~InHand(conn'[c]) /\ ~Settled(conn'[c], outcome'[c])
    BY <1>4 DEF Whole, InHand, Settled, Acks
  <1> QED BY <1>1, <1>2, <1>3, <1>4, <1>5, <1>6 DEF ConfigOnItsWay

(* A step of a save. *)
LEMMA FileKeepsConfig ==
    ASSUME ConfigInv, NEW s \in Saver, FileStep(s)
    PROVE  ConfigOnItsWay'
  <1>1. /\ UNCHANGED <<serve, mem, conn, cli, config>>
        /\ Running' = Running /\ (NoOtherSave' <=> NoOtherSave) /\ SaveStep(s)
    BY DEF FileStep, observations, Running, NoOtherSave
  <1>2. /\ FileTypeOK /\ TmpsApart /\ ConfigOnItsWay /\ Conn \subseteq Saver
        /\ s \in Conn \/ s \in Cli
        /\ \A k \in Cli : step[k] # "idle" => cli[k].st = "saving"
    BY ServerAssumption DEF ConfigInv, BaseInv, ServerTypeOK
  <1>3. step[s] # "idle"
    BY <1>1 DEF SaveStep, SaveOpenFails, SaveCreate, SaveWrite, SaveWriteFails, SaveRename,
                SaveRenameFails
  <1>4. CASE s \in Cli
    <2>1. ~NoOtherSave'
      BY <1>1, <1>2, <1>3, <1>4 DEF NoOtherSave
    <2> QED BY <1>1, <1>2, <2>1, ElsewhereKeepsConfig
  <1>5. CASE s \in Conn
    <2> SUFFICES ASSUME NoOtherSave, config.by \in Conn, ~config.overlap
                 PROVE  /\ \A a, b \in Conn : step'[a] # "idle" /\ step'[b] # "idle" => a = b
                        /\ \A a \in Conn : Whole(a)'
                        /\ InHand(conn[config.by]) \/ config.acked =>
                             /\ Running => mem.interval = config.days
                             /\ \A a \in Conn : pending'[a] # NoData =>
                                                  pending'[a].interval = config.days
                        /\ Settled(conn[config.by], outcome'[config.by]) \/ config.acked =>
                             Load' \in Contents /\ Load'.interval = config.days
      BY <1>1, <1>2 DEF ConfigOnItsWay
    <2>1. /\ \A a, b \in Conn : step[a] # "idle" /\ step[b] # "idle" => a = b
          /\ \A a \in Conn : Whole(a)
          /\ InHand(conn[config.by]) \/ config.acked =>
               /\ Running => mem.interval = config.days
               /\ \A a \in Conn : pending[a] # NoData => pending[a].interval = config.days
          /\ Settled(conn[config.by], outcome[config.by]) \/ config.acked =>
               Load \in Contents /\ Load.interval = config.days
      BY <1>2 DEF ConfigOnItsWay
    <2>2. /\ Whole(s)'
          /\ \A t \in Saver \ {s} : /\ step'[t] = step[t] /\ pending'[t] = pending[t]
                                    /\ outcome'[t] = outcome[t]
          /\ pending'[s] \in {pending[s], NoData}
          /\ \/ Load' = Load /\ (outcome'[s] = "ok" => outcome[s] = "ok")
             \/ Load' = pending[s] /\ pending[s] \in Contents
      BY <1>1, <1>2, <1>5, <2>1, SaveStepEffect
    <2>3. \A a \in Conn \ {s} : step'[a] = "idle"
      BY <1>2, <1>3, <1>5, <2>1, <2>2
    <2>4. \A a \in Conn : Whole(a)'
      BY <2>2, <2>3 DEF Whole
    <2>5. pending[s] \in Contents => pending[s] # NoData
      BY FileAssumption
    <2>6. ASSUME Settled(conn[config.by], outcome'[config.by]) \/ config.acked
          PROVE  InHand(conn[config.by]) \/ config.acked
      BY <2>6 DEF Settled, InHand
    <2>7. ASSUME Settled(conn[config.by], outcome'[config.by]) \/ config.acked
          PROVE  Load' \in Contents /\ Load'.interval = config.days
      <3>1. CASE Load' = pending[s] /\ pending[s] \in Contents
        BY <1>5, <2>1, <2>5, <2>6, <2>7, <3>1
      <3>2. CASE Load' = Load /\ (outcome'[s] = "ok" => outcome[s] = "ok")
        <4>1. outcome'[config.by] = "ok" => outcome[config.by] = "ok"
          BY <1>2, <2>2, <3>2
        <4> QED BY <2>1, <2>7, <3>2, <4>1 DEF Settled
      <3> QED BY <2>2, <3>1, <3>2
    <2>8. InHand(conn[config.by]) \/ config.acked =>
            \A a \in Conn : pending'[a] # NoData => pending'[a].interval = config.days
      BY <1>2, <2>1, <2>2
    <2> QED BY <2>1, <2>3, <2>4, <2>7, <2>8
  <1> QED BY <1>2, <1>4, <1>5

(* The subcommands: one that saves, or has, is another process that saved.  *)
LEMMA CliKeepsConfig ==
    ASSUME ConfigInv, NEW k \in Cli, CliStep(k)
    PROVE  ConfigOnItsWay'
  <1>1. UNCHANGED <<serve, mem, conn, config>>
    BY Zenon DEF CliStep, revoke, pair, PairBinds, reauth_now, uninstall_revoke_broadcast,
                 CliLoads, CliSaves, CliEnds, PairLingers, CliKilled, observations
  <1>2. cli \in [Cli -> Process] /\ cli[k] \in Process /\ ConfigOnItsWay
    BY DEF ConfigInv, BaseInv, ServerTypeOK
  <1>3. ASSUME NEW st, cli' = [cli EXCEPT ![k] = [NoCli EXCEPT !.st = st]],
               st \in {"done", "lingering"}
        PROVE  ~NoOtherSave'
    <2>1. cli'[k].st = st
      BY <1>2, <1>3 DEF NoCli
    <2> QED BY <1>3, <2>1 DEF NoOtherSave
  <1>4. CASE CliSaves(k)
    <2>1. cli'[k].st = "saving"
      BY <1>2, <1>4 DEF CliSaves, Process
    <2> QED BY <1>1, <1>2, <2>1, ElsewhereKeepsConfig DEF NoOtherSave, Running
  <1>5. CASE CliEnds(k) \/ CliKilled(k) \/ PairLingers(k)
    <2>1. ~NoOtherSave'
      BY <1>3, <1>5 DEF CliEnds, CliKilled, PairLingers, CliExits
    <2> QED BY <1>1, <1>2, <2>1, ElsewhereKeepsConfig DEF Running
  <1>6. CASE \/ \E p \in Phone : revoke(k, NameOf[p]) \/ pair(k, p)
             \/ PairBinds(k) \/ reauth_now(k) \/ uninstall_revoke_broadcast(k)
    <2>1. /\ UNCHANGED fileVars /\ cli[k].st \in {"none", "loaded"}
          /\ \A l \in Cli \ {k} : cli'[l] = cli[l]
      BY <1>2, <1>6, Zenon DEF revoke, pair, PairBinds, reauth_now,
                               uninstall_revoke_broadcast, CliLoads
    <2>2. NoOtherSave' => NoOtherSave
      BY <2>1 DEF NoOtherSave
    <2> QED BY <1>1, <1>2, <2>1, <2>2, ElsewhereKeepsConfig DEF Running
  <1> QED BY <1>4, <1>5, <1>6 DEF CliStep

(* Every step keeps what was acknowledged. *)
LEMMA ConfigStep ==
    ASSUME ConfigInv, [Next]_vars
    PROVE  ConfigInv'
  <1>1. BaseInv' /\ TmpsApart'
    BY BaseStep, FileFollows, ApartStep DEF ConfigInv, BaseInv, ServerTypeOK
  <1>2. ASSUME NEW c \in Conn, Task(c) \/ PeerActs(c) PROVE ConfigOnItsWay'
    BY <1>2, TaskKeepsConfig
  <1>3. ASSUME NEW k \in Cli, CliStep(k) PROVE ConfigOnItsWay'
    BY <1>3, CliKeepsConfig
  <1>4. ASSUME NEW s \in Saver, FileStep(s) PROVE ConfigOnItsWay'
    BY <1>4, FileKeepsConfig
  <1>5. ASSUME ServeStart \/ ServeStop PROVE ConfigOnItsWay'
    BY <1>5, ServeKeepsConfig
  <1>6. ASSUME ServeBind \/ ServeClose \/ Advance \/ UNCHANGED vars PROVE ConfigOnItsWay'
    <2>1. UNCHANGED <<fileVars, mem, conn, cli, config>> /\ Running' = Running
      BY <1>6 DEF ServeBind, Startup, BindPort, ServeClose, Advance, vars, observations, Running
    <2>2. NoOtherSave' => NoOtherSave
      BY <2>1 DEF NoOtherSave
    <2> QED BY <2>1, <2>2, ElsewhereKeepsConfig DEF ConfigInv
  <1> HIDE DEF ConfigOnItsWay
  <1>7. ConfigOnItsWay'
    BY <1>2, <1>3, <1>4, <1>5, <1>6 DEF Next
  <1> QED BY <1>1, <1>7 DEF ConfigInv

(* ReauthConfig is acknowledged only when its interval is on disk, and it   *)
(* stays there until the next ReauthConfig, whatever the other connections  *)
(* save one at a time and across failed saves, crashes and restarts         *)
(* (dispatch in connection.rs, SharedState::save).  Any number of           *)
(* connections; the observation config.overlap says when two of their saves *)
(* overlap, and from then on the property promises nothing.                 *)
THEOREM AckedConfigIsDurable == Spec => []AckedConfigDurable
  <1>1. Init => ConfigInv
    <2>1. Init => TmpsApart
      BY DEF Init, TmpsApart
    <2>2. Init => ~config.acked /\ config.by = NoData /\ (\A c \in Conn : step[c] = "idle")
      BY ServerAssumption DEF Init, NoRequest
    <2>3. Init => \A c \in Conn : Whole(c) /\ ~InHand(conn[c]) /\ ~Settled(conn[c], outcome[c])
      <3> SUFFICES ASSUME Init, NEW c \in Conn
                   PROVE  Whole(c) /\ ~InHand(conn[c]) /\ ~Settled(conn[c], outcome[c])
        OBVIOUS
      <3>1. conn[c].st = "none"
        BY DEF Init, NoConn
      <3> QED BY <2>2, <3>1 DEF Whole, InHand, Settled, Acks
    <2>4. Init => ConfigOnItsWay
      BY <2>2, <2>3 DEF ConfigOnItsWay
    <2> QED BY <2>1, <2>4, BaseInit DEF ConfigInv
  <1>2. ConfigInv /\ [Next]_vars => ConfigInv'
    BY ConfigStep
  <1>3. ConfigInv => AckedConfigDurable
    BY DEF ConfigInv, ConfigOnItsWay, AckedConfigDurable, NoOtherSave
  <1> QED BY <1>1, <1>2, <1>3, PTL DEF Spec

-----------------------------------------------------------------------------
(* What pair has acknowledged *)

(* What the invariant says of the processes and their saves. *)
LEMMA PairedFacts ==
    ASSUME PairedInv
    PROVE  /\ BaseInv /\ FileTypeOK /\ TmpsApart /\ AlonePairs /\ PairedKept
           /\ Saver = Conn \cup Cli /\ Conn \cap Cli = {}
           /\ \A k \in Cli : PidOf[k] \in Pid /\ PidOf[k] # ServePid /\ PidOf[k] # NoData
           /\ \A k, l \in Cli : PidOf[k] = PidOf[l] => k = l
           /\ \A c \in Conn : PidOf[c] = ServePid
           /\ \A s \in Saver : pending[s] # NoData <=> step[s] # "idle"
           /\ \A c \in Conn : ~Running => step[c] = "idle"
           /\ \A k \in Cli : cli[k].st # "saving" => step[k] = "idle"
           /\ cli \in [Cli -> Process] /\ paired \subseteq Phone /\ crossed \subseteq Cli
           /\ port = ServePid <=> serve \in {"bound", "up"}
           /\ mem \in Contents \cup {NoData} /\ (Running <=> mem # NoData)
  <1>1. /\ BaseInv /\ FileTypeOK /\ TmpsApart /\ AlonePairs /\ PairedKept
        /\ cli \in [Cli -> Process] /\ paired \subseteq Phone /\ crossed \subseteq Cli
        /\ port = ServePid <=> serve \in {"bound", "up"}
        /\ mem \in Contents \cup {NoData} /\ (Running <=> mem # NoData)
    BY DEF PairedInv, BaseInv, ServerTypeOK, ObservationsOK
  <1>2. /\ Saver = Conn \cup Cli /\ Conn \cap Cli = {}
        /\ \A k \in Cli : PidOf[k] \in Pid /\ PidOf[k] # ServePid
        /\ \A k, l \in Cli : PidOf[k] = PidOf[l] => k = l
        /\ \A c \in Conn : PidOf[c] = ServePid
    BY SaverAssumption, ServerAssumption
  <1>3. \A k \in Cli : PidOf[k] # NoData
    BY <1>2, ServerAssumption
  <1>4. /\ \A c \in Conn : ~Running => step[c] = "idle"
        /\ \A k \in Cli : cli[k].st # "saving" => step[k] = "idle"
    BY <1>1 DEF BaseInv, ServerTypeOK
  <1>5. \A s \in Saver : pending[s] # NoData <=> step[s] # "idle"
    BY <1>1 DEF FileTypeOK
  <1> QED BY <1>1, <1>2, <1>3, <1>4, <1>5

(* The steps that write nothing: saves go on as they were, or end.          *)
LEMMA QuietKeepsPaired ==
    ASSUME PairedKept, paired' \subseteq paired, UNCHANGED <<path, tmp, file>>,
           \A s \in Saver : \/ pending'[s] = NoData /\ step'[s] = "idle"
                            \/ /\ pending'[s] = pending[s] /\ step'[s] = step[s]
                               /\ fd'[s] = fd[s]
                            \/ /\ step'[s] = "create"
                               /\ \A p \in paired' : pending'[s].pairing[p] = "active",
           \A p \in paired' : Running' => mem'.pairing[p] = "active"
    PROVE  PairedKept'
  <1>1. Load' = Load
    BY DEF Load
  <1> QED BY <1>1 DEF PairedKept

(* ... and leave a pair that is alone as it was. *)
LEMMA QuietKeepsAlone ==
    ASSUME AlonePairs, NEW k \in Cli, cli'[k] = cli[k],
           cli[k].op = "pair" /\ cli[k].st \in {"bound", "saving"} =>
               port' = port /\ (serve = "down" => serve' = "down"),
           k \notin crossed' => k \notin crossed,
           cli[k].st = "saving" /\ k \notin crossed' =>
               \A l \in Cli \ {k} : cli'[l].st = "saving" => cli[l].st = "saving",
           pending'[k] = pending[k], outcome'[k] = outcome[k], Load' = Load,
           Whole(k) => Whole(k)'
    PROVE  LET active(d) == d.pairing[cli'[k].phone] = "active" IN
           cli'[k].op = "pair" =>
             /\ cli'[k].st \in {"bound", "saving"} =>
                  port' = PidOf[k] /\ (cli'[k].alone => serve' = "down")
             /\ cli'[k].st = "saving" /\ pending'[k] # NoData => active(pending'[k])
             /\ cli'[k].st = "saving" /\ cli'[k].alone /\ k \notin crossed' =>
                  /\ \A l \in Cli \ {k} : cli'[l].st # "saving"
                  /\ Whole(k)'
                  /\ outcome'[k] = "ok" => Load' \in Contents /\ active(Load')
  <1> SUFFICES ASSUME cli[k].op = "pair"
               PROVE  /\ cli[k].st \in {"bound", "saving"} =>
                           port' = PidOf[k] /\ (cli[k].alone => serve' = "down")
                      /\ cli[k].st = "saving" /\ pending[k] # NoData =>
                           pending[k].pairing[cli[k].phone] = "active"
                      /\ cli[k].st = "saving" /\ cli[k].alone /\ k \notin crossed' =>
                           /\ \A l \in Cli \ {k} : cli'[l].st # "saving"
                           /\ Whole(k)'
                           /\ outcome[k] = "ok" =>
                                Load \in Contents /\ Load.pairing[cli[k].phone] = "active"
    OBVIOUS
  <1>1. /\ cli[k].st \in {"bound", "saving"} =>
             port = PidOf[k] /\ (cli[k].alone => serve = "down")
        /\ cli[k].st = "saving" /\ pending[k] # NoData =>
             pending[k].pairing[cli[k].phone] = "active"
        /\ cli[k].st = "saving" /\ cli[k].alone /\ k \notin crossed =>
             /\ \A l \in Cli \ {k} : cli[l].st # "saving"
             /\ Whole(k)
             /\ outcome[k] = "ok" =>
                  Load \in Contents /\ Load.pairing[cli[k].phone] = "active"
    BY DEF AlonePairs
  <1> QED BY <1>1

(* The steps of connections: a connection saves memory. *)
LEMMA ConnKeepsPaired ==
    ASSUME PairedInv, [Next]_vars, NEW c \in Conn, Task(c) \/ PeerActs(c)
    PROVE  AlonePairs' /\ PairedKept'
  <1>0. BaseInv /\ AlonePairs /\ PairedKept /\ Saver = Conn \cup Cli /\ Conn \cap Cli = {}
    BY PairedFacts
  <1>1. /\ Running /\ Running' /\ UNCHANGED <<serve, port, cli, paired, crossed>>
        /\ Load' = Load /\ UNCHANGED <<path, tmp, file, fd>>
        /\ \A s \in Saver \ {c} : /\ step'[s] = step[s] /\ pending'[s] = pending[s]
                                  /\ outcome'[s] = outcome[s]
        /\ \A s \in Saver : Whole(s) => Whole(s)'
    BY <1>0, ConnLeavesFiles
  <1>2. \/ pending'[c] = pending[c] /\ step'[c] = step[c]
        \/ pending'[c] = mem /\ step'[c] = "create"
    <2>1. CASE SaveShared(c)
      <3>1. FileTypeOK /\ SaveCall(c, mem)
        BY <2>1, PairedFacts DEF SaveShared
      <3> QED BY <1>0, <3>1 DEF SaveCall, FileTypeOK
    <2>2. CASE Saved(c)
      BY <2>2 DEF Saved, Consume
    <2>3. CASE \/ PeerActs(c) \/ Preflight(c) \/ RecordAddress(c) \/ DispatchCommand(c)
               \/ DispatchQuery(c) \/ DispatchReauthConfig(c) \/ DispatchRevokeAck(c)
               \/ WriteReply(c) \/ Shutdown(c)
      <3>1. UNCHANGED fileVars
        BY <2>3, Zenon DEF PeerActs, Accept, Handshake, ReceiveReplay, ReceiveUndecodable,
             Receive, Hangup, Preflight, RecordAddress, DispatchCommand, DispatchQuery,
             DispatchReauthConfig, DispatchRevokeAck, WriteReply, Shutdown
      <3> QED BY <3>1 DEF fileVars
    <2> QED BY <2>1, <2>2, <2>3 DEF Task
  <1>3. AlonePairs'
    <2>1. \A k \in Cli : pending'[k] = pending[k] /\ outcome'[k] = outcome[k]
                         /\ (Whole(k) => Whole(k)')
      BY <1>0, <1>1
    <2> QED BY <1>0, <1>1, <2>1, QuietKeepsAlone DEF AlonePairs
  <1>4. \A p \in paired' : mem.pairing[p] = "active" /\ mem'.pairing[p] = "active"
    <2>1. \A p \in paired : p \in Phone /\ mem.pairing[p] = "active"
      BY <1>1, PairedFacts DEF PairedKept
    <2>2. ActivePhones(mem) \subseteq ActivePhones(mem')
      BY <1>0, <1>1, MemoryChanges
    <2> QED BY <1>1, <2>1, <2>2 DEF ActivePhones, active_pairing, is_active
  <1>5. PairedKept'
    BY <1>0, <1>1, <1>2, <1>4, QuietKeepsPaired
  <1> QED BY <1>3, <1>5

(* Whatever a save does next, a phone that is active in all that is saved   *)
(* stays so: the file it renames is one that a save of its process has      *)
(* written.                                                                 *)
LEMMA FileKeepsKept ==
    ASSUME PairedInv, NEW s \in Saver, FileStep(s)
    PROVE  PairedKept'
  <1> USE SaverAssumption, FileAssumption
  <1>1. /\ UNCHANGED <<serve, mem, cli, paired>> /\ Running' = Running /\ SaveStep(s)
        /\ FileTypeOK /\ TmpsApart /\ PairedKept
        /\ \A t \in Saver : pending[t] # NoData <=> step[t] # "idle"
    BY PairedFacts DEF FileStep, observations, Running
  <1> SUFFICES ASSUME NEW p \in paired
               PROVE  /\ Load' \in Contents => Load'.pairing[p] = "active"
                      /\ \A t \in Saver :
                           /\ pending'[t] # NoData => pending'[t].pairing[p] = "active"
                           /\ step'[t] \in {"write", "rename"} =>
                                \A i \in {fd'[t], tmp'[PidOf[t]]} \ {NoInode} :
                                   file'[i] \in Contents => file'[i].pairing[p] = "active"
    BY <1>1 DEF PairedKept
  <1> DEFINE Good(v) == v \in Contents => v.pairing[p] = "active"
             Goal == /\ Good(Load')
                     /\ \A t \in Saver :
                          /\ pending'[t] # NoData => pending'[t].pairing[p] = "active"
                          /\ step'[t] \in {"write", "rename"} =>
                               \A i \in {fd'[t], tmp'[PidOf[t]]} \ {NoInode} : Good(file'[i])
  <1>2. /\ Good(Load)
        /\ \A t \in Saver :
             /\ pending[t] # NoData => pending[t].pairing[p] = "active"
             /\ step[t] \in {"write", "rename"} =>
                  \A i \in {fd[t], tmp[PidOf[t]]} \ {NoInode} : Good(file[i])
    BY <1>1 DEF PairedKept
  <1>3. Good(Empty) /\ Good(Unreadable) /\ Good(Missing) /\ Good(pending[s])
    BY <1>2
  <1> HIDE DEF Good
  <1>4. ASSUME SaveOpenFails(s) \/ SaveRenameFails(s) PROVE Goal
    BY <1>1, <1>2, <1>4 DEF SaveOpenFails, SaveRenameFails, Return, Load, FileTypeOK
  <1>5. ASSUME SaveCreate(s) PROVE Goal
    <2>1. PICK i \in IF TmpFile(s) = NoInode THEN Inode \ InUse ELSE {TmpFile(s)} :
            /\ file' = [file EXCEPT ![i] = Empty]
            /\ tmp' = [tmp EXCEPT ![PidOf[s]] = i]
            /\ fd' = [fd EXCEPT ![s] = i]
      BY <1>5 DEF SaveCreate
    <2>2. i # path /\ i \in Inode
      BY <1>1, <2>1 DEF TmpFile, InUse, TmpsApart, FileTypeOK
    <2>3. path' = path /\ pending' = pending /\ step' = [step EXCEPT ![s] = "write"]
      BY <1>5 DEF SaveCreate
    <2>4. Load' = Load
      BY <1>1, <2>1, <2>2, <2>3 DEF Load, FileTypeOK
    <2>5. ASSUME NEW t \in Saver, step'[t] \in {"write", "rename"},
                 NEW j \in {fd'[t], tmp'[PidOf[t]]} \ {NoInode}
          PROVE  Good(file'[j])
      <3>1. CASE j = i
        BY <1>1, <1>3, <2>1, <2>2, <3>1 DEF FileTypeOK
      <3>2. CASE j # i
        <4>1. t # s
          BY <1>1, <2>1, <2>5, <3>2 DEF FileTypeOK
        <4>2. step[t] \in {"write", "rename"} /\ j \in {fd[t], tmp[PidOf[t]]} \ {NoInode}
          BY <1>1, <2>1, <2>3, <2>5, <3>2, <4>1 DEF FileTypeOK
        <4>3. file'[j] = file[j]
          BY <1>1, <2>1, <3>2, <4>2 DEF FileTypeOK
        <4> QED BY <1>2, <4>2, <4>3
      <3> QED BY <3>1, <3>2
    <2> QED BY <1>2, <2>3, <2>4, <2>5
  <1>6. ASSUME SaveWrite(s) \/ SaveWriteFails(s) PROVE Goal
    <2>1. step[s] = "write" /\ path' = path /\ tmp' = tmp
      BY <1>6 DEF SaveWrite, SaveWriteFails
    <2>2. PICK v \in {pending[s], Unreadable} : file' = [file EXCEPT ![fd[s]] = v]
      BY <1>6 DEF SaveWrite, SaveWriteFails
    <2>3. Good(v) /\ fd[s] \in Inode
      BY <1>1, <1>3, <2>1 DEF FileTypeOK
    <2>4. \A j \in Inode : file'[j] = v \/ file'[j] = file[j]
      BY <1>1, <2>2, <2>3 DEF FileTypeOK
    <2>5. Good(Load')
      BY <1>1, <1>2, <1>3, <2>1, <2>3, <2>4 DEF Load, FileTypeOK
    <2>6. \A t \in Saver : /\ pending'[t] \in {pending[t], NoData}
                           /\ step'[t] \in {"write", "rename"} =>
                                step[t] \in {"write", "rename"} /\ fd'[t] = fd[t]
      BY <1>1, <1>6, <2>1 DEF SaveWrite, SaveWriteFails, Return, FileTypeOK
    <2>7. ASSUME NEW t \in Saver, step'[t] \in {"write", "rename"},
                 NEW j \in {fd'[t], tmp'[PidOf[t]]} \ {NoInode}
          PROVE  Good(file'[j])
      <3>1. step[t] \in {"write", "rename"} /\ j \in {fd[t], tmp[PidOf[t]]} \ {NoInode}
        BY <2>1, <2>6, <2>7
      <3>2. j \in Inode
        BY <1>1, <3>1 DEF FileTypeOK
      <3> QED BY <1>2, <2>3, <2>4, <3>1, <3>2
    <2> QED BY <1>2, <2>5, <2>6, <2>7
  <1>7. ASSUME SaveRename(s) PROVE Goal
    <2>1. /\ step[s] = "rename" /\ path' = tmp[PidOf[s]] /\ tmp[PidOf[s]] # NoInode
          /\ tmp' = [tmp EXCEPT ![PidOf[s]] = NoInode]
          /\ file' = [i \in Inode |-> IF i = path THEN Empty ELSE file[i]]
          /\ Return(s, "ok")
      BY <1>7 DEF SaveRename
    <2>2. path' \in Inode /\ path' # path
      BY <1>1, <2>1 DEF TmpsApart, FileTypeOK
    <2>3. Good(Load')
      BY <1>2, <2>1, <2>2 DEF Load
    <2>4. \A t \in Saver : /\ pending'[t] \in {pending[t], NoData}
                           /\ step'[t] \in {"write", "rename"} =>
                                step[t] \in {"write", "rename"} /\ fd'[t] = fd[t]
                           /\ tmp'[PidOf[t]] \in {tmp[PidOf[t]], NoInode}
      BY <1>1, <2>1 DEF Return, FileTypeOK
    <2>5. ASSUME NEW t \in Saver, step'[t] \in {"write", "rename"},
                 NEW j \in {fd'[t], tmp'[PidOf[t]]} \ {NoInode}
          PROVE  Good(file'[j])
      <3>1. step[t] \in {"write", "rename"} /\ j \in {fd[t], tmp[PidOf[t]]} \ {NoInode}
        BY <2>4, <2>5
      <3>2. j \in Inode
        BY <1>1, <3>1 DEF FileTypeOK
      <3>3. file'[j] \in {Empty, file[j]}
        BY <2>1, <3>2
      <3> QED BY <1>2, <1>3, <3>1, <3>3
    <2> QED BY <1>2, <2>3, <2>4, <2>5
  <1>8. Goal
    BY <1>1, <1>4, <1>5, <1>6, <1>7 DEF SaveStep
  <1> QED BY <1>8 DEF Good

(* A step of a save: while a pair is alone, of that pair. *)
LEMMA FileKeepsAlone ==
    ASSUME PairedInv, NEW s \in Saver, FileStep(s)
    PROVE  AlonePairs'
  <1>1. /\ UNCHANGED <<serve, port, cli, crossed>> /\ SaveStep(s)
        /\ FileTypeOK /\ TmpsApart /\ AlonePairs /\ s \in Conn \cup Cli
    BY PairedFacts DEF FileStep, observations
  <1>2. /\ \A t \in Saver \ {s} : pending'[t] = pending[t]
        /\ pending'[s] \in {pending[s], NoData} /\ step[s] # "idle"
    BY <1>1 DEF SaveStep, SaveOpenFails, SaveCreate, SaveWrite, SaveWriteFails, SaveRename,
                SaveRenameFails, Return, FileTypeOK
  <1>3. s \in Conn => serve # "down"
    BY <1>2, PairedFacts DEF Running
  <1>4. s \in Cli => cli[s].st = "saving"
    BY <1>2, PairedFacts
  <1> SUFFICES ASSUME NEW k \in Cli, cli[k].op = "pair"
               PROVE  /\ cli[k].st \in {"bound", "saving"} =>
                           port = PidOf[k] /\ (cli[k].alone => serve = "down")
                      /\ cli[k].st = "saving" /\ pending'[k] # NoData =>
                           pending'[k].pairing[cli[k].phone] = "active"
                      /\ cli[k].st = "saving" /\ cli[k].alone /\ k \notin crossed =>
                           /\ \A l \in Cli \ {k} : cli[l].st # "saving"
                           /\ Whole(k)'
                           /\ outcome'[k] = "ok" =>
                                Load' \in Contents /\ Load'.pairing[cli[k].phone] = "active"
    BY <1>1 DEF AlonePairs
  <1>5. /\ cli[k].st \in {"bound", "saving"} =>
             port = PidOf[k] /\ (cli[k].alone => serve = "down")
        /\ cli[k].st = "saving" /\ pending[k] # NoData =>
             pending[k].pairing[cli[k].phone] = "active"
        /\ cli[k].st = "saving" /\ cli[k].alone /\ k \notin crossed =>
             /\ \A l \in Cli \ {k} : cli[l].st # "saving"
             /\ Whole(k)
             /\ outcome[k] = "ok" =>
                  Load \in Contents /\ Load.pairing[cli[k].phone] = "active"
    BY <1>1 DEF AlonePairs
  <1>6. k \in Saver /\ pending'[k] \in {pending[k], NoData}
    BY <1>2, PairedFacts
  <1>7. ASSUME cli[k].st = "saving", cli[k].alone, k \notin crossed
        PROVE  /\ Whole(k)'
               /\ outcome'[k] = "ok" =>
                    Load' \in Contents /\ Load'.pairing[cli[k].phone] = "active"
    <2>1. s = k
      BY <1>1, <1>3, <1>4, <1>5, <1>7
    <2>2. /\ Whole(k)'
          /\ \/ Load' = Load /\ (outcome'[k] = "ok" => outcome[k] = "ok")
             \/ Load' = pending[k] /\ pending[k] \in Contents
      BY <1>1, <1>5, <1>7, <2>1, SaveStepEffect
    <2>3. pending[k] \in Contents => pending[k] # NoData
      BY FileAssumption
    <2> QED BY <1>5, <1>7, <2>2, <2>3
  <1> QED BY <1>5, <1>6, <1>7

(* The process: the port keeps it away from a pair. *)
LEMMA ServeKeepsPaired ==
    ASSUME PairedInv, ServeBind \/ ServeStart \/ ServeClose \/ ServeStop
    PROVE  AlonePairs' /\ PairedKept'
  <1>1. UNCHANGED <<cli, paired, crossed, path, tmp, file>> /\ Load' = Load
    BY DEF ServeBind, ServeStart, Startup, BindPort, LoadKeystore, ServeClose, ServeStop,
           Exit, fileVars, Load, observations
  <1>2. /\ \A k \in Cli : /\ pending'[k] = pending[k] /\ outcome'[k] = outcome[k]
                          /\ step'[k] = step[k] /\ fd'[k] = fd[k]
        /\ \A s \in Saver : \/ pending'[s] = NoData /\ step'[s] = "idle"
                            \/ /\ pending'[s] = pending[s] /\ step'[s] = step[s]
                               /\ fd'[s] = fd[s]
    <2>1. CASE ServeBind \/ ServeStart \/ ServeClose
      BY <2>1 DEF ServeBind, ServeStart, ServeClose, fileVars
    <2>2. CASE ServeStop
      <3>1. Exit(ServePid)
        BY <2>2 DEF ServeStop
      <3> QED BY <3>1, PairedFacts DEF Exit
    <2> QED BY <2>1, <2>2
  <1>3. ASSUME NEW k \in Cli, cli[k].op = "pair", cli[k].st \in {"bound", "saving"}
        PROVE  port' = port /\ (serve = "down" => serve' = "down")
    <2>1. port = PidOf[k] /\ PidOf[k] # NoData /\ PidOf[k] # ServePid
      BY <1>3, PairedFacts DEF AlonePairs
    <2>2. port = ServePid <=> serve \in {"bound", "up"}
      BY PairedFacts
    <2> QED BY <2>1, <2>2 DEF ServeBind, ServeStart, Startup, BindPort, LoadKeystore,
                              ServeClose, ServeStop, PortWithout
  <1>4. AlonePairs'
    <2>1. AlonePairs /\ \A k \in Cli : Whole(k) => Whole(k)'
      BY <1>1, <1>2, PairedFacts DEF Whole
    <2> QED BY <1>1, <1>2, <1>3, <2>1, QuietKeepsAlone DEF AlonePairs
  <1>5. \A p \in paired' : Running' => mem'.pairing[p] = "active"
    <2>1. Running' => (mem' = mem /\ Running) \/ (mem' = Load /\ Load \in Contents)
      BY DEF ServeBind, ServeStart, Startup, BindPort, LoadKeystore, ServeClose, ServeStop,
             Running
    <2> QED BY <1>1, <2>1, PairedFacts DEF PairedKept
  <1>6. PairedKept'
    BY <1>1, <1>2, <1>5, QuietKeepsPaired, PairedFacts
  <1> QED BY <1>4, <1>6

(* A subcommand whose copy has the phone it is run for. *)
LEMMA ToSaveHasPhone ==
    ASSUME BaseInv, NEW k \in Cli, cli[k].op = "pair", cli[k].st = "bound"
    PROVE  ToSave(k).pairing[cli[k].phone] = "active"
  <1>1. cli[k].data \in Contents /\ cli[k].phone \in Phone
    BY DEF BaseInv, WorkMatches
  <1>2. cli[k].data \in KeystoreContents
    BY <1>1, ServerAssumption
  <1>3. ToSave(k) = [cli[k].data EXCEPT !.pairing[cli[k].phone] = "active",
                                       !.address[cli[k].phone] = NoAddr]
    BY DEF ToSave
  <1> QED BY <1>1, <1>2, <1>3 DEF KeystoreContents

(* What the steps of a subcommand do to the saves: they start its own, take *)
(* its result, or end it.                                                   *)
LEMMA CliLeavesSaves ==
    ASSUME PairedInv, NEW k \in Cli, CliStep(k)
    PROVE  /\ UNCHANGED <<path, tmp, file>> /\ Load' = Load
           /\ UNCHANGED <<serve, mem, conn>>
           /\ \A s \in Saver \ {k} : /\ pending'[s] = pending[s] /\ outcome'[s] = outcome[s]
                                     /\ step'[s] = step[s] /\ fd'[s] = fd[s]
           /\ \A l \in Cli \ {k} : cli'[l] = cli[l] /\ (Whole(l) => Whole(l)')
           /\ crossed \subseteq crossed'
  <1>1. /\ FileTypeOK /\ cli \in [Cli -> Process] /\ k \in Saver /\ Cli \subseteq Saver
        /\ \A s \in Saver : PidOf[s] = PidOf[k] => s = k
    BY PairedFacts
  <1>2. UNCHANGED <<path, tmp, file, serve, mem, conn>> /\ Load' = Load
    BY Zenon DEF CliStep, revoke, pair, PairBinds, reauth_now, uninstall_revoke_broadcast,
                 CliLoads, CliSaves, CliEnds, PairLingers, CliKilled, SaveCall, Consume,
                 Exit, fileVars, Load
  <1>3. \A s \in Saver \ {k} : /\ pending'[s] = pending[s] /\ outcome'[s] = outcome[s]
                               /\ step'[s] = step[s] /\ fd'[s] = fd[s]
    <2>1. CASE CliSaves(k)
      <3>1. SaveCall(k, ToSave(k))
        BY <2>1 DEF CliSaves
      <3> QED BY <1>1, <3>1 DEF SaveCall, FileTypeOK
    <2>2. CASE CliEnds(k) \/ PairLingers(k)
      BY <1>1, <2>2 DEF CliEnds, PairLingers, Consume, FileTypeOK
    <2>3. CASE CliKilled(k)
      <3>1. Exit(PidOf[k])
        BY <2>3 DEF CliKilled
      <3> QED BY <1>1, <3>1 DEF Exit
    <2>4. CASE \/ \E p \in Phone : revoke(k, NameOf[p]) \/ pair(k, p)
               \/ PairBinds(k) \/ reauth_now(k) \/ uninstall_revoke_broadcast(k)
      <3>1. UNCHANGED fileVars
        BY <2>4, Zenon DEF revoke, pair, PairBinds, reauth_now,
                           uninstall_revoke_broadcast, CliLoads
      <3> QED BY <3>1 DEF fileVars
    <2> QED BY <2>1, <2>2, <2>3, <2>4 DEF CliStep
  <1>4. \A l \in Cli \ {k} : cli'[l] = cli[l]
    <2>1. \/ \E r : cli' = [cli EXCEPT ![k] = r]
          \/ cli' = [cli EXCEPT ![k].st = "bound", ![k].alone = (serve = "down")]
          \/ cli' = [cli EXCEPT ![k].st = "saving", ![k].data = ToSave(k)]
      BY Zenon DEF CliStep, revoke, pair, PairBinds, reauth_now, uninstall_revoke_broadcast,
                   CliLoads, CliSaves, CliEnds, PairLingers, CliKilled, CliExits
    <2> QED BY <1>1, <2>1
  <1>5. \A l \in Cli \ {k} : Whole(l) => Whole(l)'
    BY <1>1, <1>2, <1>3 DEF Whole
  <1>6. crossed \subseteq crossed'
    BY Zenon DEF CliStep, revoke, pair, PairBinds, reauth_now, uninstall_revoke_broadcast,
                 CliLoads, CliSaves, CliEnds, PairLingers, CliKilled, observations
  <1> QED BY <1>2, <1>3, <1>4, <1>5, <1>6

(* A subcommand leaves the other pairs alone: only one has the port, and    *)
(* a save that crosses the save of a pair is noted.                         *)
LEMMA CliLeavesPairs ==
    ASSUME PairedInv, NEW k \in Cli, CliStep(k), NEW l \in Cli \ {k}
    PROVE  LET active(d) == d.pairing[cli'[l].phone] = "active" IN
           cli'[l].op = "pair" =>
             /\ cli'[l].st \in {"bound", "saving"} =>
                  port' = PidOf[l] /\ (cli'[l].alone => serve' = "down")
             /\ cli'[l].st = "saving" /\ pending'[l] # NoData => active(pending'[l])
             /\ cli'[l].st = "saving" /\ cli'[l].alone /\ l \notin crossed' =>
                  /\ \A m \in Cli \ {l} : cli'[m].st # "saving"
                  /\ Whole(l)'
                  /\ outcome'[l] = "ok" => Load' \in Contents /\ active(Load')
  <1>1. /\ AlonePairs /\ l \in Saver /\ l \in Cli /\ cli \in [Cli -> Process]
        /\ PidOf[l] # NoData /\ PidOf[l] # PidOf[k]
    BY PairedFacts
  <1>2. /\ Load' = Load /\ serve' = serve /\ cli'[l] = cli[l] /\ crossed \subseteq crossed'
        /\ pending'[l] = pending[l] /\ outcome'[l] = outcome[l] /\ (Whole(l) => Whole(l)')
        /\ \A m \in Cli \ {k} : cli'[m] = cli[m]
    BY <1>1, CliLeavesSaves
  <1>3. ASSUME cli[l].op = "pair", cli[l].st \in {"bound", "saving"} PROVE port' = port
    <2>1. port = PidOf[l]
      BY <1>1, <1>3 DEF AlonePairs
    <2> QED BY <1>1, <2>1 DEF CliStep, revoke, pair, PairBinds, reauth_now,
              uninstall_revoke_broadcast, CliLoads, CliSaves, CliEnds, PairLingers,
              CliKilled, CliExits, PortWithout
  <1>4. ASSUME cli[l].st = "saving", l \notin crossed'
        PROVE  cli'[k].st = "saving" => cli[k].st = "saving"
    <2>1. ~CliSaves(k)
      <3>1. CliSaves(k) => l \in {m \in Cli \ {k} : cli[m].st = "saving"}
        BY <1>1, <1>4
      <3> QED BY <1>4, <3>1 DEF CliSaves
    <2>2. CASE PairBinds(k)
      <3>1. cli' = [cli EXCEPT ![k].st = "bound", ![k].alone = (serve = "down")]
        BY <2>2 DEF PairBinds
      <3>2. cli'[k].st = "bound"
        BY <1>1, <3>1 DEF Process
      <3> QED BY <3>2
    <2>3. ASSUME NEW st \in {"loaded", "lingering", "done"}, NEW op, NEW data, NEW p,
                 \/ cli' = [cli EXCEPT ![k] = [NoCli EXCEPT !.st = st]]
                 \/ cli' = [cli EXCEPT ![k] = [NoCli EXCEPT !.st = st, !.op = op,
                                                            !.data = data, !.phone = p]]
          PROVE  cli'[k].st # "saving"
      BY <1>1, <2>3 DEF NoCli
    <2>4. CASE CliEnds(k) \/ PairLingers(k) \/ CliKilled(k)
      BY <2>3, <2>4 DEF CliEnds, PairLingers, CliKilled, CliExits
    <2>5. ASSUME NEW op, NEW data, NEW p, CliLoads(k, op, data, p)
          PROVE  cli'[k].st # "saving"
      BY <2>3, <2>5 DEF CliLoads
    <2>6. CASE \/ \E p \in Phone : revoke(k, NameOf[p]) \/ pair(k, p)
               \/ reauth_now(k) \/ uninstall_revoke_broadcast(k)
      <3>1. \E op, data, p : CliLoads(k, op, data, p)
        BY <2>6, Zenon DEF revoke, pair, reauth_now, uninstall_revoke_broadcast
      <3> QED BY <2>5, <3>1
    <2> QED BY <2>1, <2>2, <2>4, <2>6 DEF CliStep
  <1>5. cli[l].st = "saving" /\ l \notin crossed' =>
          \A m \in Cli \ {l} : cli'[m].st = "saving" => cli[m].st = "saving"
    BY <1>2, <1>4
  <1> QED BY <1>1, <1>2, <1>3, <1>5, QuietKeepsAlone

(* The subcommand itself: what it is allowed to acknowledge when it ends.   *)
LEMMA CliKeepsPaired ==
    ASSUME PairedInv, NEW k \in Cli, CliStep(k)
    PROVE  AlonePairs' /\ PairedKept'
  <1> DEFINE old == cli[k]
             Own == cli'[k].op = "pair" =>
                      /\ cli'[k].st \in {"bound", "saving"} =>
                           port' = PidOf[k] /\ (cli'[k].alone => serve' = "down")
                      /\ cli'[k].st = "saving" /\ pending'[k] # NoData =>
                           pending'[k].pairing[cli'[k].phone] = "active"
                      /\ cli'[k].st = "saving" /\ cli'[k].alone /\ k \notin crossed' =>
                           /\ \A m \in Cli \ {k} : cli'[m].st # "saving"
                           /\ Whole(k)'
                           /\ outcome'[k] = "ok" =>
                                /\ Load' \in Contents
                                /\ Load'.pairing[cli'[k].phone] = "active"
             Goal == Own /\ PairedKept'
  <1>1. /\ BaseInv /\ FileTypeOK /\ AlonePairs /\ PairedKept
        /\ cli \in [Cli -> Process] /\ old \in Process /\ k \in Saver
        /\ Saver = Conn \cup Cli /\ Conn \cap Cli = {}
        /\ old.st # "saving" => step[k] = "idle"
        /\ \A s \in Saver : pending[s] # NoData <=> step[s] # "idle"
    BY PairedFacts
  <1>2. /\ UNCHANGED <<path, tmp, file>> /\ Load' = Load /\ UNCHANGED <<serve, mem, conn>>
        /\ \A s \in Saver \ {k} : /\ pending'[s] = pending[s] /\ outcome'[s] = outcome[s]
                                  /\ step'[s] = step[s] /\ fd'[s] = fd[s]
        /\ \A l \in Cli \ {k} : cli'[l] = cli[l]
    BY CliLeavesSaves
  <1>3. \A p \in paired : Running' => mem'.pairing[p] = "active"
    BY <1>1, <1>2 DEF PairedKept, Running
  <1>4. ASSUME NEW op, NEW data, NEW p, CliLoads(k, op, data, p) PROVE Goal
    <2>1. cli'[k].st = "loaded" /\ paired' = paired /\ UNCHANGED fileVars
      BY <1>1, <1>4 DEF CliLoads, NoCli, observations
    <2>2. PairedKept'
      BY <1>1, <1>2, <1>3, <2>1, QuietKeepsPaired DEF fileVars
    <2> QED BY <2>1, <2>2
  <1>5. ASSUME PairBinds(k) PROVE Goal
    <2>1. /\ paired' = paired /\ port' = PidOf[k] /\ UNCHANGED fileVars
          /\ cli' = [cli EXCEPT ![k].st = "bound", ![k].alone = (serve = "down")]
      BY <1>5 DEF PairBinds, observations
    <2>2. cli'[k].st = "bound" /\ cli'[k].alone = (serve = "down")
      BY <1>1, <2>1 DEF Process
    <2>3. PairedKept'
      BY <1>1, <1>2, <1>3, <2>1, QuietKeepsPaired DEF fileVars
    <2> QED BY <1>2, <2>1, <2>2, <2>3
  <1>6. ASSUME CliSaves(k) PROVE Goal
    <2>1. /\ SaveCall(k, ToSave(k)) /\ paired' = paired \cap ActivePhones(ToSave(k))
          /\ cli' = [cli EXCEPT ![k].st = "saving", ![k].data = ToSave(k)]
          /\ old.op = "pair" => old.st = "bound"
          /\ port' = port
          /\ k \notin crossed' => \A m \in Cli \ {k} : cli[m].st # "saving"
      BY <1>6 DEF CliSaves
    <2>2. /\ cli'[k].st = "saving" /\ cli'[k].op = old.op /\ cli'[k].alone = old.alone
          /\ cli'[k].phone = old.phone
      BY <1>1, <2>1 DEF Process
    <2>3. pending'[k] = ToSave(k) /\ outcome'[k] = "none" /\ step'[k] = "create"
      BY <1>1, <2>1 DEF SaveCall, FileTypeOK
    <2>4. old.op = "pair" =>
            /\ port = PidOf[k]
            /\ old.alone => serve = "down"
            /\ ToSave(k).pairing[old.phone] = "active"
      BY <1>1, <2>1, ToSaveHasPhone DEF AlonePairs
    <2>5. Whole(k)'
      BY <2>3 DEF Whole
    <2>6. Own
      BY <1>2, <2>1, <2>2, <2>3, <2>4, <2>5, ZenonT(30)
    <2>7. \A p \in paired' : p \in paired /\ pending'[k].pairing[p] = "active"
      BY <2>1, <2>3 DEF ActivePhones, active_pairing, is_active
    <2>8. PairedKept'
      BY <1>1, <1>2, <1>3, <2>3, <2>7, QuietKeepsPaired
    <2> QED BY <2>6, <2>8
  <1>7. ASSUME CliExits(k) PROVE Own
    <2>1. cli'[k].op = "none"
      BY <1>1, <1>7 DEF CliExits, NoCli
    <2> QED BY <2>1
  <1>8. ASSUME CliKilled(k) PROVE Goal
    <2>1. CliExits(k) /\ paired' = paired /\ Exit(PidOf[k])
      BY <1>8 DEF CliKilled, observations
    <2>2. pending'[k] = NoData /\ step'[k] = "idle"
      BY <1>1, <2>1 DEF Exit
    <2>3. PairedKept'
      BY <1>1, <1>2, <1>3, <2>1, <2>2, QuietKeepsPaired
    <2> QED BY <1>7, <2>1, <2>3
  <1>9. ASSUME PairLingers(k) PROVE Goal
    <2>1. /\ paired' = paired /\ Consume(k)
          /\ cli' = [cli EXCEPT ![k] = [NoCli EXCEPT !.st = "lingering"]]
      BY <1>9 DEF PairLingers, observations
    <2>2. cli'[k].op = "none"
      BY <1>1, <2>1 DEF NoCli
    <2>3. UNCHANGED <<pending, step, fd>>
      BY <2>1 DEF Consume
    <2>4. PairedKept'
      BY <1>1, <1>2, <1>3, <2>1, <2>3, QuietKeepsPaired
    <2> QED BY <2>2, <2>4
  <1>10. ASSUME CliEnds(k) PROVE Goal
    <2>1. /\ CliExits(k) /\ old.st = "saving" /\ step[k] = "idle" /\ Consume(k)
          /\ old.op = "pair" => outcome[k] = "ok"
          /\ paired' = paired \cup
               IF old.op = "pair" /\ old.alone /\ k \notin crossed THEN {old.phone} ELSE {}
      BY <1>10 DEF CliEnds
    <2>2. UNCHANGED <<pending, step, fd>>
      BY <2>1 DEF Consume
    <2>3. CASE ~(old.op = "pair" /\ old.alone /\ k \notin crossed)
      <3>1. PairedKept'
        BY <1>1, <1>2, <1>3, <2>1, <2>2, <2>3, QuietKeepsPaired
      <3> QED BY <1>7, <2>1, <3>1
    <2>4. CASE old.op = "pair" /\ old.alone /\ k \notin crossed
      <3>1. /\ Load \in Contents /\ Load.pairing[old.phone] = "active"
            /\ serve = "down" /\ \A m \in Cli \ {k} : cli[m].st # "saving"
        BY <1>1, <2>1, <2>4 DEF AlonePairs
      <3>2. ~Running /\ ~Running'
        BY <1>2, <3>1 DEF Running
      <3>3. \A s \in Saver : step[s] = "idle" /\ pending[s] = NoData
        BY <1>1, <2>1, <3>1, <3>2, PairedFacts
      <3>4. \A p \in paired' : Load \in Contents => Load.pairing[p] = "active"
        BY <1>1, <2>1, <3>1 DEF PairedKept
      <3>5. PairedKept'
        BY <1>2, <2>2, <3>2, <3>3, <3>4 DEF PairedKept
      <3> QED BY <1>7, <2>1, <3>5
    <2> QED BY <2>3, <2>4
  <1> HIDE DEF Goal
  <1>11. Goal
    <2>1. ASSUME \/ \E p \in Phone : revoke(k, NameOf[p]) \/ pair(k, p)
                 \/ reauth_now(k) \/ uninstall_revoke_broadcast(k)
          PROVE  \E op, data, p : CliLoads(k, op, data, p)
      BY <2>1, Zenon DEF revoke, pair, reauth_now, uninstall_revoke_broadcast
    <2> QED BY <1>4, <1>5, <1>6, <1>8, <1>9, <1>10, <2>1 DEF CliStep
  <1>12. AlonePairs'
    <2> SUFFICES ASSUME NEW l \in Cli
                 PROVE  LET active(d) == d.pairing[cli'[l].phone] = "active" IN
             cli'[l].op = "pair" =>
               /\ cli'[l].st \in {"bound", "saving"} =>
                    port' = PidOf[l] /\ (cli'[l].alone => serve' = "down")
               /\ cli'[l].st = "saving" /\ pending'[l] # NoData => active(pending'[l])
               /\ cli'[l].st = "saving" /\ cli'[l].alone /\ l \notin crossed' =>
                    /\ \A m \in Cli \ {l} : cli'[m].st # "saving"
                    /\ Whole(l)'
                    /\ outcome'[l] = "ok" => Load' \in Contents /\ active(Load')
      BY DEF AlonePairs
    <2>1. CASE l = k
      BY <1>11, <2>1 DEF Goal
    <2>2. CASE l # k
      BY <2>2, CliLeavesPairs
    <2> QED BY <2>1, <2>2
  <1> QED BY <1>11, <1>12 DEF Goal

(* Every step keeps what pair has acknowledged. *)
LEMMA PairedStep ==
    ASSUME PairedInv, [Next]_vars
    PROVE  PairedInv'
  <1> DEFINE Goal == AlonePairs' /\ PairedKept'
  <1>1. BaseInv' /\ TmpsApart'
    BY BaseStep, FileFollows, ApartStep, PairedFacts
  <1>2. ASSUME NEW c \in Conn, Task(c) \/ PeerActs(c) PROVE Goal
    BY <1>2, ConnKeepsPaired
  <1>3. ASSUME NEW k \in Cli, CliStep(k) PROVE Goal
    BY <1>3, CliKeepsPaired
  <1>4. ASSUME NEW s \in Saver, FileStep(s) PROVE Goal
    BY <1>4, FileKeepsKept, FileKeepsAlone
  <1>5. ASSUME ServeBind \/ ServeStart \/ ServeClose \/ ServeStop PROVE Goal
    BY <1>5, ServeKeepsPaired
  <1>6. ASSUME Advance \/ UNCHANGED vars PROVE Goal
    <2>1. UNCHANGED <<fileVars, serve, port, mem, cli, paired, crossed>>
      BY <1>6 DEF Advance, vars, observations
    <2>2. /\ UNCHANGED <<path, tmp, file, step, fd, pending, outcome>>
          /\ Load' = Load /\ Running' = Running
      BY <2>1 DEF fileVars, Load, Running
    <2>3. AlonePairs'
      <3>1. \A k \in Cli : Whole(k) => Whole(k)'
        BY <2>2 DEF Whole
      <3> QED BY <2>1, <2>2, <3>1, QuietKeepsAlone, PairedFacts DEF AlonePairs
    <2>4. PairedKept'
      BY <2>1, <2>2, QuietKeepsPaired, PairedFacts DEF PairedKept
    <2> QED BY <2>3, <2>4
  <1> HIDE DEF Goal
  <1>7. Goal
    BY <1>2, <1>3, <1>4, <1>5, <1>6 DEF Next
  <1> QED BY <1>1, <1>7 DEF PairedInv, Goal

(* A phone that pair acknowledged while no listener was left stays active   *)
(* on disk and in the memory of every listener that starts afterwards,      *)
(* until a subcommand saves a copy without it: server::run binds the port   *)
(* before it loads, so a pair and a listener never hold copies of the       *)
(* keystore at once.  Any number of connections and subcommands; a pair     *)
(* whose save crossed that of another subcommand is left out, since nothing *)
(* keeps those apart.                                                       *)
THEOREM PairedStaysKnown == Spec => []PairedKnown
  <1>1. Init => PairedInv
    <2>1. Init => TmpsApart
      BY DEF Init, TmpsApart
    <2>2. Init => paired = {} /\ \A k \in Cli : cli[k].op = "none"
      BY DEF Init, NoCli
    <2>3. Init => AlonePairs /\ PairedKept
      BY <2>2 DEF AlonePairs, PairedKept
    <2> QED BY <2>1, <2>3, BaseInit DEF PairedInv
  <1>2. PairedInv /\ [Next]_vars => PairedInv'
    BY PairedStep
  <1>3. PairedInv => PairedKnown
    BY DEF PairedInv, PairedKept, PairedKnown
  <1> QED BY <1>1, <1>2, <1>3, PTL DEF Spec
=============================================================================
