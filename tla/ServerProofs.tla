---------------------------- MODULE ServerProofs ----------------------------
(***************************************************************************)
(* Proofs about the listener, for any number of connections, phones, admin *)
(* processes and restarts.                                                 *)
(***************************************************************************)
EXTENDS Server, KeystoreFileProofs

(* What a connection is working on at each place of its code, and what an   *)
(* admin process holds.                                                     *)
WorkMatches ==
    /\ \A c \in Conn :
         /\ conn[c].frame = "ReauthConfig" => conn[c].arg \in Intervals
         /\ conn[c].st \in {"config save", "config saving"} =>
              conn[c].frame = "ReauthConfig"
         /\ conn[c].st \in {"ack save", "ack saving"} => conn[c].frame = "RevokeAck"
    /\ \A k \in Cli :
         cli[k].st \in {"loaded", "bound", "saving"} =>
             /\ cli[k].op \in {"revoke", "reauth_now", "pair"}
             /\ cli[k].data \in Contents
             /\ cli[k].op = "pair" => cli[k].phone \in Phone

(* The types of the observations. *)
ObservationsOK ==
    /\ reported \subseteq Phone
    /\ paired \subseteq Phone
    /\ crossed \subseteq Cli
    /\ granted \in [auths : SUBSET Time, interval : Nat]
    /\ config \in [by : Conn \cup {NoData}, days : Nat, acked : BOOLEAN, overlap : BOOLEAN]

BaseInv == ServerTypeOK /\ WorkMatches /\ ObservationsOK

(* The days of an interval are a number the keystore can hold. *)
LEMMA IntervalDays ==
    ASSUME NEW i \in Interval
    PROVE  /\ interval_to_days(i) \in Nat
           /\ interval_to_days(i) \in {interval_to_days(j) : j \in Interval}
  BY DEF Interval, interval_to_days

(* The fields of a keystore have their types. *)
LEMMA ContentsFields ==
    ASSUME NEW k \in Contents
    PROVE  /\ k.pairing \in [Phone -> {"none", "active", "revoked"}]
           /\ k.address \in [Phone -> Addr \cup {NoAddr}]
           /\ k.interval \in {interval_to_days(i) : i \in Interval}
           /\ k.interval \in Nat
           /\ k.last_auth \in Time
  <1>1. k \in KeystoreContents
    BY ServerAssumption
  <1>2. /\ k.pairing \in [Phone -> {"none", "active", "revoked"}]
        /\ k.address \in [Phone -> Addr \cup {NoAddr}]
        /\ k.interval \in {interval_to_days(i) : i \in Interval}
        /\ k.last_auth \in Time
    BY <1>1 DEF KeystoreContents
  <1>3. k.interval \in Nat
    BY <1>2, IntervalDays
  <1> QED BY <1>2, <1>3

(* What the listener and the subcommands make of a keystore is a keystore.  *)
LEMMA ContentsChanges ==
    ASSUME NEW k \in Contents
    PROVE  /\ \A p \in Phone, a \in Addr \cup {NoAddr} :
                [k EXCEPT !.address[p] = a] \in Contents
           /\ \A i \in Interval : [k EXCEPT !.interval = interval_to_days(i)] \in Contents
           /\ \A p \in Phone, v \in {"none", "active", "revoked"} :
                [k EXCEPT !.pairing[p] = v, !.address[p] = NoAddr] \in Contents
           /\ \A t \in Time : [k EXCEPT !.last_auth = t] \in Contents
           /\ \A phones \in SUBSET Phone : MarkRevoked(k, phones) \in Contents
  <1>1. k \in KeystoreContents /\ Contents = KeystoreContents
    BY ServerAssumption
  <1>2. \A p \in Phone, a \in Addr \cup {NoAddr} : [k EXCEPT !.address[p] = a] \in Contents
    BY <1>1 DEF KeystoreContents
  <1>3. \A i \in Interval : [k EXCEPT !.interval = interval_to_days(i)] \in Contents
    BY <1>1, IntervalDays DEF KeystoreContents
  <1>4. \A p \in Phone, v \in {"none", "active", "revoked"} :
          [k EXCEPT !.pairing[p] = v, !.address[p] = NoAddr] \in Contents
    BY <1>1 DEF KeystoreContents
  <1>5. \A t \in Time : [k EXCEPT !.last_auth = t] \in Contents
    BY <1>1 DEF KeystoreContents
  <1>6. ASSUME NEW phones \in SUBSET Phone
        PROVE  MarkRevoked(k, phones) \in Contents
    <2> DEFINE m == [p \in Phone |->
                       IF p \in phones /\ k.pairing[p] # "none" THEN "revoked" ELSE k.pairing[p]]
    <2>1. m \in [Phone -> {"none", "active", "revoked"}]
      BY ContentsFields
    <2>2. MarkRevoked(k, phones) = [k EXCEPT !.pairing = m]
      BY DEF MarkRevoked
    <2> HIDE DEF m
    <2> QED BY <1>1, <2>1, <2>2 DEF KeystoreContents
  <1> QED BY <1>2, <1>3, <1>4, <1>5, <1>6

(* The connection and the process that are not there. *)
LEMMA NoneTyped == NoConn \in Connection /\ NoCli \in Process
  BY ServerAssumption DEF NoConn, NoCli, Connection, Process, States, Responses, Time

(* The listener that has not started. *)
LEMMA BaseInit == Init => BaseInv
  <1> SUFFICES ASSUME Init PROVE BaseInv
    OBVIOUS
  <1>1. PICK k \in Keystores, i \in Inode :
          /\ path = i
          /\ file = [j \in Inode |-> IF j = i THEN k ELSE Empty]
          /\ granted = [auths |-> {k.last_auth}, interval |-> k.interval]
    BY DEF Init
  <1>2. FileInit
    BY <1>1, ServerAssumption DEF Init, FileInit
  <1>3. FileTypeOK
    BY <1>2, FileInitInv DEF FileInv
  <1>4. k \in Contents
    BY ServerAssumption
  <1>5. ObservationsOK
    <2>1. k.last_auth \in Time /\ k.interval \in Nat
      BY <1>4, ContentsFields
    <2> QED BY <1>1, <2>1 DEF Init, ObservationsOK, NoRequest
  <1>6. ServerTypeOK
    BY <1>3, NoneTyped, ServerAssumption DEF Init, ServerTypeOK, Running, Time, NoConn
  <1>7. WorkMatches
    BY DEF Init, WorkMatches, NoConn, NoCli
  <1> QED BY <1>5, <1>6, <1>7 DEF BaseInv

-----------------------------------------------------------------------------
(* The keystore file *)

(* What a subcommand saves is a keystore. *)
LEMMA ToSaveTyped ==
    ASSUME BaseInv, NEW k \in Cli, cli[k].st \in {"loaded", "bound"}
    PROVE  ToSave(k) \in Contents
  <1>1. /\ cli[k].op \in {"revoke", "reauth_now", "pair"}
        /\ cli[k].data \in Contents
        /\ cli[k].op = "pair" => cli[k].phone \in Phone
        /\ now \in Time
    BY DEF BaseInv, WorkMatches, ServerTypeOK
  <1>2. CASE cli[k].op = "reauth_now"
    BY <1>1, <1>2, ContentsChanges DEF ToSave
  <1>3. CASE cli[k].op = "pair"
    BY <1>1, <1>3, ContentsChanges DEF ToSave
  <1>4. CASE cli[k].op = "revoke"
    BY <1>1, <1>4 DEF ToSave
  <1> QED BY <1>1, <1>2, <1>3, <1>4

(* The listener and the subcommands use the keystore file only through      *)
(* keystore::save and by ending: each of their steps is one of the file's.  *)
LEMMA FileFollows ==
    ASSUME BaseInv, [Next]_vars
    PROVE  [FileNext]_fileVars
  <1> DEFINE Goal == [FileNext]_fileVars
  <1>0. ASSUME UNCHANGED vars PROVE Goal
    BY <1>0 DEF vars
  <1>1. ASSUME ServeBind \/ ServeStart \/ ServeClose \/ Advance PROVE Goal
    BY <1>1, Zenon DEF ServeBind, ServeStart, ServeClose, Advance
  <1>2. ASSUME ServeStop PROVE Goal
    BY <1>2, ServerAssumption DEF ServeStop, FileNext
  <1>3. ASSUME NEW c \in Conn, Task(c) PROVE Goal
    <2>1. CASE SaveShared(c)
      <3>1. c \in Saver /\ mem \in Contents /\ SaveCall(c, mem)
        BY <2>1, ServerAssumption DEF SaveShared, BaseInv, ServerTypeOK
      <3> QED BY <3>1 DEF FileNext
    <2>2. CASE Saved(c)
      BY <2>2, ServerAssumption DEF Saved, FileNext
    <2>3. CASE \/ Preflight(c) \/ RecordAddress(c) \/ DispatchCommand(c) \/ DispatchQuery(c)
               \/ DispatchReauthConfig(c) \/ DispatchRevokeAck(c) \/ WriteReply(c)
               \/ Shutdown(c)
      BY <2>3 DEF Preflight, RecordAddress, DispatchCommand, DispatchQuery,
                  DispatchReauthConfig, DispatchRevokeAck, WriteReply, Shutdown
    <2> QED BY <1>3, <2>1, <2>2, <2>3 DEF Task
  <1>4. ASSUME NEW c \in Conn, PeerActs(c) PROVE Goal
    <2>1. UNCHANGED fileVars
      BY <1>4, Zenon DEF PeerActs, Accept, Handshake, ReceiveReplay, ReceiveUndecodable,
                         Receive, Hangup
    <2> QED BY <2>1
  <1>5. ASSUME NEW k \in Cli, CliStep(k) PROVE Goal
    <2>1. CASE CliSaves(k)
      <3>1. k \in Saver /\ ToSave(k) \in Contents /\ SaveCall(k, ToSave(k))
        BY <2>1, ToSaveTyped, ServerAssumption DEF CliSaves
      <3> QED BY <3>1 DEF FileNext
    <2>2. CASE CliEnds(k) \/ PairLingers(k)
      BY <2>2, ServerAssumption DEF CliEnds, PairLingers, FileNext
    <2>3. CASE CliKilled(k)
      BY <2>3, SaverAssumption, ServerAssumption DEF CliKilled, FileNext
    <2>4. CASE \/ \E p \in Phone : revoke(k, NameOf[p]) \/ pair(k, p)
               \/ PairBinds(k) \/ reauth_now(k) \/ uninstall_revoke_broadcast(k)
      BY <2>4 DEF revoke, pair, PairBinds, reauth_now, uninstall_revoke_broadcast, CliLoads
    <2> QED BY <1>5, <2>1, <2>2, <2>3, <2>4 DEF CliStep
  <1>6. ASSUME NEW s \in Saver, FileStep(s) PROVE Goal
    BY <1>6 DEF FileStep, FileNext
  <1> HIDE DEF Goal
  <1>7. Goal
    BY <1>0, <1>1, <1>2, <1>3, <1>4, <1>5, <1>6 DEF Next
  <1> QED BY <1>7 DEF Goal

-----------------------------------------------------------------------------
(* The types *)

(* A step that replaces the record of one connection, and may change memory *)
(* and observations: what it has to show.                                   *)
LEMMA ConnStepBase ==
    ASSUME BaseInv, FileTypeOK', NEW c \in Conn, NEW r \in Connection, Become(c, r),
           UNCHANGED <<serve, port, starts, cli, now>>,
           mem' \in Contents \cup {NoData}, mem' # NoData <=> mem # NoData,
           ObservationsOK',
           Running, r.phone \in Phone <=> r.st # "none",
           r.frame = "ReauthConfig" => r.arg \in Intervals,
           r.st \in {"config save", "config saving"} => r.frame = "ReauthConfig",
           r.st \in {"ack save", "ack saving"} => r.frame = "RevokeAck",
           step'[c] # "idle" => r.st \in {"address saving", "config saving", "ack saving"},
           \A s \in Saver \ {c} : step'[s] = step[s]
    PROVE  BaseInv'
  <1>1. /\ conn' \in [Conn -> Connection]
        /\ conn'[c] = r
        /\ \A d \in Conn \ {c} : conn'[d] = conn[d]
    BY DEF Become, BaseInv, ServerTypeOK
  <1>2. \A k \in Cli : step'[k] = step[k]
    BY ServerAssumption
  <1>3. ServerTypeOK'
    BY <1>1, <1>2, ServerAssumption, ZenonT(30) DEF BaseInv, ServerTypeOK, Running
  <1>4. WorkMatches'
    BY <1>1 DEF BaseInv, WorkMatches
  <1> QED BY <1>3, <1>4 DEF BaseInv

(* The connections that leave the file, memory and the observations alone.  *)
LEMMA QuietConnBase ==
    ASSUME BaseInv, NEW c \in Conn, NEW r \in Connection, Become(c, r),
           UNCHANGED <<fileVars, serve, port, starts, mem, cli, now, observations>>,
           conn[c].st \notin {"address saving", "config saving", "ack saving"},
           Running, r.phone \in Phone <=> r.st # "none",
           r.frame = "ReauthConfig" => r.arg \in Intervals,
           r.st \notin {"config save", "config saving", "ack save", "ack saving"}
    PROVE  BaseInv'
  <1>1. FileTypeOK'
    BY DEF fileVars, FileTypeOK, BaseInv, ServerTypeOK
  <1>2. step' = step /\ step[c] = "idle"
    BY DEF fileVars, BaseInv, ServerTypeOK
  <1>3. ObservationsOK' /\ mem' \in Contents \cup {NoData} /\ mem' = mem
    BY DEF observations, ObservationsOK, BaseInv, ServerTypeOK
  <1> QED BY <1>1, <1>2, <1>3, ConnStepBase

(* What the invariant says of one connection. *)
LEMMA ConnFacts ==
    ASSUME BaseInv, NEW c \in Conn
    PROVE  /\ conn[c] \in Connection
           /\ conn[c].phone \in Phone <=> conn[c].st # "none"
           /\ conn[c].frame = "ReauthConfig" => conn[c].arg \in Intervals
           /\ Running => mem \in Contents
  BY DEF BaseInv, ServerTypeOK, WorkMatches

(* Connecting: accept, the handshake, the pre-flight, and the ends.         *)
LEMMA ConnectBase ==
    ASSUME BaseInv, NEW c \in Conn,
           \/ \E p \in Phone, a \in Addr : Accept(c, p, a)
           \/ Handshake(c) \/ Preflight(c) \/ Shutdown(c) \/ Hangup(c)
    PROVE  BaseInv'
  <1> DEFINE old == conn[c]
  <1>1. /\ old \in Connection
        /\ old.phone \in Phone <=> old.st # "none"
        /\ old.frame = "ReauthConfig" => old.arg \in Intervals
        /\ NoConn \in Connection
        /\ NoConn.phone \notin Phone /\ NoConn.st = "none" /\ NoConn.frame = "none"
    BY ConnFacts, NoneTyped, ServerAssumption DEF NoConn
  <1>2. ASSUME NEW p \in Phone, NEW a \in Addr, Accept(c, p, a) PROVE BaseInv'
    <2> DEFINE r == [NoConn EXCEPT !.st = "tls", !.phone = p, !.addr = a,
                                   !.pins = ActivePhones(mem), !.known = reported]
    <2>1. ActivePhones(mem) \subseteq Phone /\ reported \subseteq Phone
      BY DEF ActivePhones, BaseInv, ObservationsOK
    <2>2. r \in Connection /\ r.st = "tls" /\ r.phone = p /\ r.frame = "none"
      BY <1>1, <2>1 DEF NoConn, Connection, States
    <2>3. Become(c, r) /\ Running /\ old.st = "none"
      BY <1>2 DEF Accept, Running
    <2>4. UNCHANGED <<fileVars, serve, port, starts, mem, cli, now, observations>>
      BY <1>2 DEF Accept
    <2> HIDE DEF r
    <2> QED BY <2>2, <2>3, <2>4, QuietConnBase
  <1>3. ASSUME Handshake(c) PROVE BaseInv'
    <2> DEFINE r == IF old.phone \in old.pins THEN [old EXCEPT !.st = "preflight"] ELSE NoConn
    <2>1. Become(c, r) /\ Running /\ old.st = "tls"
      BY <1>3 DEF Handshake, At
    <2>2. /\ r \in Connection
          /\ r.st \in {"none", "preflight"}
          /\ r.phone \in Phone <=> r.st # "none"
          /\ r.frame = "ReauthConfig" => r.arg \in Intervals
      BY <1>1, <2>1 DEF Connection, States
    <2>3. UNCHANGED <<fileVars, serve, port, starts, mem, cli, now, observations>>
      BY <1>3 DEF Handshake
    <2> HIDE DEF r
    <2> QED BY <2>1, <2>2, <2>3, QuietConnBase
  <1>4. ASSUME Preflight(c) PROVE BaseInv'
    <2> DEFINE r == IF active_pairing(mem, old.phone)
                    THEN [old EXCEPT !.st = "address"] ELSE Closing(c)
    <2>1. Become(c, r) /\ Running /\ old.st = "preflight"
      BY <1>4 DEF Preflight, At, SendErrorAndClose, Become
    <2>2. /\ r \in Connection
          /\ r.st \in {"closing", "address"}
          /\ r.phone \in Phone
          /\ r.frame = "ReauthConfig" => r.arg \in Intervals
      BY <1>1, <2>1 DEF Connection, States, Closing, NoConn
    <2>3. UNCHANGED <<fileVars, serve, port, starts, mem, cli, now, observations>>
      BY <1>4 DEF Preflight
    <2> HIDE DEF r
    <2> QED BY <2>1, <2>2, <2>3, QuietConnBase
  <1>5. ASSUME Shutdown(c) \/ Hangup(c) PROVE BaseInv'
    <2>1. /\ Become(c, NoConn) /\ Running
          /\ old.st \in {"closing", "tls", "read", "reply"}
          /\ UNCHANGED <<fileVars, serve, port, starts, mem, cli, now, observations>>
      BY <1>5 DEF Shutdown, Hangup, At
    <2> QED BY <1>1, <2>1, QuietConnBase
  <1> QED BY <1>2, <1>3, <1>4, <1>5

(* Receiving a frame, and answering one. *)
LEMMA ReceiveBase ==
    ASSUME BaseInv, NEW c \in Conn, NEW n \in 0 .. MaxNonce,
           \/ ReceiveReplay(c, n) \/ ReceiveUndecodable(c, n)
           \/ \E frame \in (Command \cup OtherFrames) \ {"ReauthConfig"} :
                 Receive(c, n, frame, "none")
           \/ \E i \in Intervals : Receive(c, n, "ReauthConfig", i)
    PROVE  BaseInv'
  <1> DEFINE old == conn[c]
  <1>1. /\ old \in Connection
        /\ old.phone \in Phone <=> old.st # "none"
        /\ NoConn \in Connection
    BY ConnFacts, NoneTyped
  <1>2. ASSUME ReceiveReplay(c, n) \/ ReceiveUndecodable(c, n) PROVE BaseInv'
    <2>1. /\ Become(c, Closing(c)) /\ Running /\ old.st = "read"
          /\ UNCHANGED <<fileVars, serve, port, starts, mem, cli, now, observations>>
      BY <1>2 DEF ReceiveReplay, ReceiveUndecodable, SendErrorAndClose, At
    <2>2. /\ Closing(c) \in Connection /\ Closing(c).st = "closing"
          /\ Closing(c).phone \in Phone /\ Closing(c).frame = "none"
      BY <1>1, <2>1 DEF Closing, Connection, NoConn, States
    <2> QED BY <2>1, <2>2, QuietConnBase
  <1>3. ASSUME NEW frame \in Command \cup OtherFrames, NEW arg \in Interval \cup {"none"},
               frame = "ReauthConfig" => arg \in Intervals, Receive(c, n, frame, arg)
        PROVE  BaseInv'
    <2> DEFINE r == [old EXCEPT !.st = "dispatch", !.last_seen = n,
                                !.frame = frame, !.arg = arg, !.at = now]
    <2>1. /\ Become(c, r) /\ Running /\ old.st = "read"
          /\ UNCHANGED <<fileVars, serve, port, starts, mem, cli, now, observations>>
      BY <1>3 DEF Receive, At
    <2>2. now \in Time
      BY DEF BaseInv, ServerTypeOK
    <2>3. /\ r \in Connection /\ r.st = "dispatch" /\ r.phone \in Phone
          /\ r.frame = frame /\ r.arg = arg
      BY <1>1, <2>1, <2>2, ZenonT(30) DEF Connection, States
    <2> HIDE DEF r
    <2> QED BY <1>3, <2>1, <2>3, QuietConnBase
  <1>4. Intervals \subseteq Interval /\ "ReauthConfig" \in OtherFrames
    BY ServerAssumption DEF OtherFrames
  <1> QED BY <1>2, <1>3, <1>4

(* One more run of a nonce is counted. *)
LEMMA CountsOne ==
    ASSUME NEW S, NEW f \in [S -> Nat], NEW n \in S
    PROVE  /\ [f EXCEPT ![n] = @ + 1] \in [S -> Nat]
           /\ [f EXCEPT ![n] = @ + 1][n] = f[n] + 1
           /\ \A m \in S \ {n} : [f EXCEPT ![n] = @ + 1][m] = f[m]
  OBVIOUS

(* dispatch: the gate and the queries. *)
LEMMA DispatchBase ==
    ASSUME BaseInv, NEW c \in Conn, DispatchCommand(c) \/ DispatchQuery(c)
    PROVE  BaseInv'
  <1> DEFINE old == conn[c]
  <1>1. /\ old \in Connection
        /\ old.phone \in Phone <=> old.st # "none"
        /\ old.frame = "ReauthConfig" => old.arg \in Intervals
    BY ConnFacts
  <1>2. /\ old.st = "dispatch" /\ Running
        /\ UNCHANGED <<fileVars, serve, port, starts, mem, cli, now, observations>>
    BY DEF DispatchCommand, DispatchQuery, At
  <1>3. PICK resp \in Responses, ran \in [0 .. MaxNonce -> Nat] :
          Become(c, [old EXCEPT !.st = "reply", !.resp = resp, !.ran = ran])
    <2> DEFINE once == [old.ran EXCEPT ![old.last_seen] = @ + 1]
    <2>0. old.ran \in [0 .. MaxNonce -> Nat] /\ once \in [0 .. MaxNonce -> Nat]
      <3>1. old.ran \in [0 .. MaxNonce -> Nat] /\ old.last_seen \in 0 .. MaxNonce
        BY <1>1 DEF Connection
      <3>2. \A f \in [0 .. MaxNonce -> Nat], n \in 0 .. MaxNonce :
              [f EXCEPT ![n] = @ + 1] \in [0 .. MaxNonce -> Nat]
        OBVIOUS
      <3> QED BY <3>1, <3>2, Zenon
    <2>1. ASSUME NEW resp \in Responses, Become(c, Reply(c, resp))
          PROVE  Become(c, [old EXCEPT !.st = "reply", !.resp = resp, !.ran = old.ran])
      <3>1. Reply(c, resp) = [old EXCEPT !.st = "reply", !.resp = resp, !.ran = old.ran]
        BY <1>1 DEF Reply, Connection
      <3> QED BY <2>1, <3>1
    <2>2. ASSUME NEW resp \in Responses,
                 Become(c, [Reply(c, resp) EXCEPT !.ran[old.last_seen] = @ + 1])
          PROVE  Become(c, [old EXCEPT !.st = "reply", !.resp = resp, !.ran = once])
      <3>1. [Reply(c, resp) EXCEPT !.ran[old.last_seen] = @ + 1]
              = [old EXCEPT !.st = "reply", !.resp = resp, !.ran = once]
        BY <1>1 DEF Reply, Connection
      <3> QED BY <2>2, <3>1
    <2> HIDE DEF once
    <2>3. CASE DispatchCommand(c)
      <3>1. \/ Become(c, Reply(c, "RequiresReauth"))
            \/ \E resp \in {"Ack", "Internal"} :
                 Become(c, [Reply(c, resp) EXCEPT !.ran[old.last_seen] = @ + 1])
        BY <2>3 DEF DispatchCommand, Handlers
      <3> QED BY <2>0, <2>1, <2>2, <3>1 DEF Responses
    <2>4. CASE DispatchQuery(c)
      <3>1. \E resp \in {"NotPaired", "StateReport", "Internal", "ReauthInfo"} :
              Become(c, Reply(c, resp))
        BY <2>4 DEF DispatchQuery, Handlers
      <3> QED BY <2>0, <2>1, <3>1 DEF Responses
    <2> QED BY <2>3, <2>4
  <1> DEFINE r == [old EXCEPT !.st = "reply", !.resp = resp, !.ran = ran]
  <1>4. /\ r \in Connection /\ r.st = "reply" /\ r.phone = old.phone
        /\ r.frame = old.frame /\ r.arg = old.arg
    BY <1>1, <1>3 DEF Connection, States
  <1> HIDE DEF r
  <1>5. Become(c, r)
    BY <1>3 DEF r
  <1> QED BY <1>1, <1>2, <1>4, <1>5, QuietConnBase

(* A connection that changes memory or observations, and not the file.      *)
LEMMA MemoryConnBase ==
    ASSUME BaseInv, NEW c \in Conn, NEW r \in Connection, Become(c, r),
           UNCHANGED <<fileVars, serve, port, starts, cli, now>>,
           mem' \in Contents, Running, ObservationsOK',
           conn[c].st \notin {"address saving", "config saving", "ack saving"},
           r.phone \in Phone, r.st # "none",
           r.frame = "ReauthConfig" => r.arg \in Intervals,
           r.st \in {"config save", "config saving"} => r.frame = "ReauthConfig",
           r.st \in {"ack save", "ack saving"} => r.frame = "RevokeAck"
    PROVE  BaseInv'
  <1>1. FileTypeOK'
    BY DEF fileVars, FileTypeOK, BaseInv, ServerTypeOK
  <1>2. step' = step /\ step[c] = "idle"
    BY DEF fileVars, BaseInv, ServerTypeOK
  <1>3. mem' # NoData /\ mem # NoData
    BY FileAssumption DEF BaseInv, ServerTypeOK
  <1> QED BY <1>1, <1>2, <1>3, ConnStepBase

(* The writes under the lock: an address, an interval, a removed record.    *)
LEMMA MemoryBase ==
    ASSUME BaseInv, NEW c \in Conn,
           RecordAddress(c) \/ DispatchReauthConfig(c) \/ DispatchRevokeAck(c)
    PROVE  BaseInv'
  <1> DEFINE old == conn[c]
  <1>1. /\ old \in Connection
        /\ old.phone \in Phone <=> old.st # "none"
        /\ old.frame = "ReauthConfig" => old.arg \in Intervals
        /\ Running => mem \in Contents
    BY ConnFacts
  <1>2. ObservationsOK
    BY DEF BaseInv
  <1>3. ASSUME RecordAddress(c) PROVE BaseInv'
    <2>1. PICK st \in {"address save", "read"} : Become(c, [old EXCEPT !.st = st])
      BY <1>3 DEF RecordAddress
    <2> DEFINE r == [old EXCEPT !.st = st]
    <2>2. /\ Running /\ old.st = "address"
          /\ UNCHANGED <<fileVars, serve, port, starts, cli, now, observations>>
      BY <1>3 DEF RecordAddress, At
    <2>3. mem' \in Contents
      <3>1. old.phone \in Phone /\ old.addr \in Addr \cup {NoAddr}
        BY <1>1, <2>2 DEF Connection
      <3>2. mem' \in {mem, [mem EXCEPT !.address[old.phone] = old.addr]}
        BY <1>3 DEF RecordAddress
      <3>3. mem \in Contents
        BY <1>1, <2>2
      <3>4. \A p \in Phone, a \in Addr \cup {NoAddr} :
              [mem EXCEPT !.address[p] = a] \in Contents
        BY <3>3, ContentsChanges
      <3>5. [mem EXCEPT !.address[old.phone] = old.addr] \in Contents
        BY <3>1, <3>4
      <3> QED BY <3>2, <3>3, <3>5
    <2>4. /\ r \in Connection /\ r.st \in {"address save", "read"}
          /\ r.phone = old.phone /\ r.frame = old.frame /\ r.arg = old.arg
      BY <1>1 DEF Connection, States
    <2>5. ObservationsOK'
      BY <1>2, <2>2 DEF observations, ObservationsOK
    <2> HIDE DEF r
    <2>6. Become(c, r) /\ r.phone \in Phone /\ r.st # "none"
      BY <1>1, <2>1, <2>2, <2>4 DEF r
    <2> QED BY <1>1, <2>2, <2>3, <2>4, <2>5, <2>6, MemoryConnBase
  <1>4. ASSUME DispatchReauthConfig(c) PROVE BaseInv'
    <2> DEFINE r == [old EXCEPT !.st = "config save"]
    <2>1. /\ Running /\ old.st = "dispatch" /\ old.frame = "ReauthConfig" /\ Become(c, r)
          /\ mem' = [mem EXCEPT !.interval = interval_to_days(old.arg)]
          /\ granted' = [granted EXCEPT !.interval = interval_to_days(old.arg)]
          /\ config' = [by |-> c, days |-> interval_to_days(old.arg), acked |-> FALSE,
                        overlap |-> OthersSave(c)]
          /\ UNCHANGED <<fileVars, serve, port, starts, cli, now, reported, crossed, paired>>
      BY <1>4 DEF DispatchReauthConfig, At
    <2>2. old.arg \in Interval
      BY <1>1, <2>1, ServerAssumption
    <2>3. mem' \in Contents
      BY <1>1, <2>1, <2>2, ContentsChanges
    <2>4. r \in Connection /\ r.st = "config save" /\ r.phone = old.phone
            /\ r.frame = old.frame /\ r.arg = old.arg
      BY <1>1 DEF Connection, States
    <2>5. ObservationsOK'
      <3>1. interval_to_days(old.arg) \in Nat /\ OthersSave(c) \in BOOLEAN
        BY <2>2, IntervalDays DEF OthersSave
      <3> QED BY <1>2, <2>1, <3>1 DEF ObservationsOK
    <2> HIDE DEF r
    <2> QED BY <1>1, <2>1, <2>3, <2>4, <2>5, MemoryConnBase
  <1>5. ASSUME DispatchRevokeAck(c) PROVE BaseInv'
    <2> DEFINE p == old.phone
               removed == Removable(mem.pairing[p])
               r == IF removed THEN [old EXCEPT !.st = "ack save"] ELSE Reply(c, "Ack")
    <2>1. /\ Running /\ old.st = "dispatch" /\ old.frame = "RevokeAck" /\ Become(c, r)
          /\ mem' \in {mem, [mem EXCEPT !.pairing[p] = "none", !.address[p] = NoAddr]}
          /\ UNCHANGED <<fileVars, serve, port, starts, cli, now, observations>>
      BY <1>5 DEF DispatchRevokeAck, At
    <2>2. mem' \in Contents
      BY <1>1, <2>1, ContentsChanges, ZenonT(30)
    <2>3. r \in Connection /\ r.st \in {"ack save", "reply"} /\ r.phone = p
            /\ r.frame = "RevokeAck"
      BY <1>1, <2>1 DEF Connection, States, Responses, Reply
    <2>4. ObservationsOK'
      BY <1>2, <2>1 DEF observations, ObservationsOK
    <2> HIDE DEF r
    <2> QED BY <1>1, <2>1, <2>2, <2>3, <2>4, MemoryConnBase
  <1> QED BY <1>3, <1>4, <1>5

(* Saving, and taking the result of a save. *)
LEMMA SavingBase ==
    ASSUME BaseInv, FileTypeOK', NEW c \in Conn, SaveShared(c) \/ Saved(c)
    PROVE  BaseInv'
  <1> DEFINE old == conn[c]
  <1>1. /\ old \in Connection
        /\ old.phone \in Phone <=> old.st # "none"
        /\ old.frame = "ReauthConfig" => old.arg \in Intervals
        /\ old.st = "config save" => old.frame = "ReauthConfig"
        /\ old.st = "ack save" => old.frame = "RevokeAck"
        /\ step \in [Saver -> {"idle", "create", "write", "rename"}]
        /\ outcome[c] \in {"none", "ok", "err"}
        /\ c \in Saver
    BY ServerAssumption DEF BaseInv, ServerTypeOK, WorkMatches, FileTypeOK
  <1>2. /\ Running
        /\ UNCHANGED <<serve, port, starts, mem, cli, now, reported, crossed, paired, granted>>
        /\ config' \in {config, [config EXCEPT !.overlap = @ \/ OthersSave(c)]}
    BY DEF SaveShared, Saved, observations
  <1>3. ObservationsOK' /\ mem' \in Contents \cup {NoData} /\ mem' = mem
    <2>1. ObservationsOK
      BY DEF BaseInv
    <2>2. (config.overlap \/ OthersSave(c)) \in BOOLEAN
      BY <2>1 DEF ObservationsOK
    <2>3. ObservationsOK'
      BY <1>2, <2>1, <2>2 DEF ObservationsOK
    <2> QED BY <1>2, <2>3 DEF BaseInv, ServerTypeOK
  <1>4. ASSUME SaveShared(c) PROVE BaseInv'
    <2> DEFINE st == CASE old.st = "address save" -> "address saving"
                       [] old.st = "config save"  -> "config saving"
                       [] old.st = "ack save"     -> "ack saving"
               r == [old EXCEPT !.st = st]
    <2>1. /\ old.st \in {"address save", "config save", "ack save"}
          /\ Become(c, r)
          /\ step' = [step EXCEPT ![c] = "create"]
      BY <1>1, <1>4 DEF SaveShared, SaveCall, Connection
    <2>2. /\ st \in {"address saving", "config saving", "ack saving"}
          /\ st = "config saving" => old.frame = "ReauthConfig"
          /\ st = "ack saving" => old.frame = "RevokeAck"
      BY <1>1, <2>1
    <2> HIDE DEF st
    <2>3. /\ r \in Connection /\ r.st = st /\ r.phone = old.phone
          /\ r.frame = old.frame /\ r.arg = old.arg
      BY <1>1, <2>2, ZenonT(30) DEF Connection, States
    <2> HIDE DEF r
    <2> QED BY <1>1, <1>2, <1>3, <2>1, <2>2, <2>3, ConnStepBase
  <1>5. ASSUME Saved(c) PROVE BaseInv'
    <2> DEFINE r == CASE old.st = "address saving" -> [old EXCEPT !.st = "read"]
                      [] old.st = "config saving" -> Reply(c, ConfigResponse(outcome[c]))
                      [] old.st = "ack saving" -> Reply(c, "Ack")
    <2>1. /\ old.st \in {"address saving", "config saving", "ack saving"}
          /\ Become(c, r) /\ step[c] = "idle" /\ step' = step
      BY <1>5 DEF Saved, SaveReturned, Consume
    <2>2. /\ r \in Connection /\ r.st \in {"read", "reply"} /\ r.phone = old.phone
          /\ r.frame = old.frame /\ r.arg = old.arg
      BY <1>1, <2>1 DEF Connection, States, Responses, Reply, ConfigResponse
    <2> HIDE DEF r
    <2> QED BY <1>1, <1>2, <1>3, <2>1, <2>2, ConnStepBase
  <1> QED BY <1>4, <1>5

(* The answer leaves. *)
LEMMA WriteReplyBase ==
    ASSUME BaseInv, NEW c \in Conn, WriteReply(c)
    PROVE  BaseInv'
  <1> DEFINE old == conn[c]
             r == IF response_closes_connection(old.resp) THEN Closing(c)
                  ELSE [old EXCEPT !.st = "read", !.frame = "none",
                          !.arg = "none", !.at = 0, !.resp = "none"]
  <1>1. /\ old \in Connection
        /\ old.phone \in Phone <=> old.st # "none"
        /\ NoConn \in Connection
        /\ Running => mem \in Contents
        /\ 0 \in Time
    BY ConnFacts, NoneTyped, ServerAssumption DEF Time
  <1>2. /\ Running /\ old.st = "reply" /\ Become(c, r)
        /\ UNCHANGED <<fileVars, serve, port, starts, mem, cli, now, reported, crossed,
                       paired, granted>>
        /\ config' \in {config, [config EXCEPT !.acked = TRUE]}
    BY DEF WriteReply, At
  <1>3. r \in Connection /\ r.st \in {"read", "closing"} /\ r.phone = old.phone
          /\ r.frame = "none"
    BY <1>1, <1>2, ZenonT(30) DEF Connection, States, Responses, Closing, NoConn
  <1>4. ObservationsOK'
    BY <1>2 DEF BaseInv, ObservationsOK
  <1> HIDE DEF r
  <1> QED BY <1>1, <1>2, <1>3, <1>4, MemoryConnBase

(* The process: binding, loading, closing the port, and the clock.          *)
LEMMA ServeBase ==
    ASSUME BaseInv, ServeBind \/ ServeStart \/ ServeClose \/ Advance
    PROVE  BaseInv'
  <1>1. /\ UNCHANGED <<fileVars, conn, cli, config, reported, crossed, paired>>
        /\ step' = step
        /\ granted' = granted \/ (ServeStart /\ granted' = [granted EXCEPT !.interval = Load.interval])
    BY DEF ServeBind, ServeStart, ServeClose, Advance, fileVars, observations,
           Startup, BindPort, LoadKeystore
  <1>2. FileTypeOK'
    BY <1>1 DEF fileVars, FileTypeOK, BaseInv, ServerTypeOK
  <1>3. WorkMatches' /\ ObservationsOK'
    <2>1. ServeStart => Load.interval \in Nat
      BY ContentsFields DEF ServeStart, Startup, LoadKeystore
    <2>2. granted' \in [auths : SUBSET Time, interval : Nat]
      BY <1>1, <2>1 DEF BaseInv, ObservationsOK
    <2> QED BY <1>1, <2>2 DEF BaseInv, WorkMatches, ObservationsOK
  <1>4. ServerTypeOK'
    <2>1. CASE ServeBind
      <3>1. starts' \in 0 .. MaxStarts
        <4>1. starts \in 0 .. MaxStarts /\ MaxStarts \in Nat
          BY ServerAssumption DEF BaseInv, ServerTypeOK
        <4>2. starts < MaxStarts /\ starts' = starts + 1
          BY <2>1 DEF ServeBind
        <4> QED BY <4>1, <4>2
      <3>2. /\ serve = "down" /\ serve' = "bound" /\ port' = ServePid /\ port' \in Pid
            /\ UNCHANGED <<mem, now>>
        BY <2>1, ServerAssumption DEF ServeBind, Startup, BindPort
      <3> QED BY <1>1, <1>2, <3>1, <3>2 DEF BaseInv, ServerTypeOK, Running
    <2>2. CASE ServeStart
      <3>1. /\ serve = "bound" /\ serve' = "up" /\ mem' \in Contents /\ mem' # NoData
            /\ UNCHANGED <<port, starts, now>>
        BY <2>2, FileAssumption DEF ServeStart, Startup, LoadKeystore
      <3> QED BY <1>1, <1>2, <3>1, ServerAssumption DEF BaseInv, ServerTypeOK, Running
    <2>3. CASE ServeClose
      BY <1>1, <1>2, <2>3, ServerAssumption DEF ServeClose, BaseInv, ServerTypeOK, Running
    <2>4. CASE Advance
      <3>1. now' \in Time
        <4>1. now \in Time /\ MaxTime \in Nat
          BY ServerAssumption DEF BaseInv, ServerTypeOK
        <4>2. now < MaxTime /\ now' = now + 1
          BY <2>4 DEF Advance
        <4> QED BY <4>1, <4>2 DEF Time
      <3>2. UNCHANGED <<serve, port, starts, mem>>
        BY <2>4 DEF Advance
      <3> QED BY <1>1, <1>2, <3>1, <3>2 DEF BaseInv, ServerTypeOK, Running
    <2> QED BY <2>1, <2>2, <2>3, <2>4
  <1> QED BY <1>3, <1>4 DEF BaseInv

(* The process ends: no connection, no memory, and none of its saves.       *)
LEMMA ServeStopBase ==
    ASSUME BaseInv, FileTypeOK', ServeStop
    PROVE  BaseInv'
  <1>1. /\ serve' = "down" /\ mem' = NoData /\ port' = PortWithout(ServePid)
        /\ conn' = [c \in Conn |-> NoConn]
        /\ step' = [s \in Saver |-> IF PidOf[s] = ServePid THEN "idle" ELSE step[s]]
        /\ UNCHANGED <<starts, cli, now, observations>>
    BY DEF ServeStop, Exit
  <1>2. /\ \A c \in Conn : conn'[c] = NoConn /\ step'[c] = "idle"
        /\ \A k \in Cli : step'[k] = step[k]
    BY <1>1, ServerAssumption
  <1>3. /\ NoConn.phone \notin Phone /\ NoConn.st = "none" /\ NoConn.frame = "none"
        /\ conn' \in [Conn -> Connection]
    BY <1>1, NoneTyped, ServerAssumption DEF NoConn
  <1>4. port' \in Pid \cup {NoData} /\ port' # ServePid
    BY <1>1, ServerAssumption DEF PortWithout, BaseInv, ServerTypeOK
  <1>5. ServerTypeOK'
    BY <1>1, <1>2, <1>3, <1>4 DEF BaseInv, ServerTypeOK, Running
  <1>6. WorkMatches' /\ ObservationsOK'
    BY <1>1, <1>2, <1>3 DEF BaseInv, WorkMatches, ObservationsOK, observations
  <1> QED BY <1>5, <1>6 DEF BaseInv

(* A step of a save that is under way. *)
LEMMA FileStepBase ==
    ASSUME BaseInv, FileTypeOK', NEW s \in Saver, FileStep(s)
    PROVE  BaseInv'
  <1>1. /\ step[s] # "idle" /\ \A t \in Saver \ {s} : step'[t] = step[t]
    BY ZenonT(30) DEF FileStep, SaveStep, SaveOpenFails, SaveCreate, SaveWrite, SaveWriteFails,
           SaveRename, SaveRenameFails, Return, BaseInv, ServerTypeOK, FileTypeOK
  <1>2. UNCHANGED <<serve, port, starts, mem, conn, cli, now, observations>>
    BY DEF FileStep
  <1>3. ServerTypeOK'
    BY <1>1, <1>2, ServerAssumption DEF BaseInv, ServerTypeOK, Running
  <1>4. WorkMatches' /\ ObservationsOK'
    BY <1>2 DEF BaseInv, WorkMatches, ObservationsOK, observations
  <1> QED BY <1>3, <1>4 DEF BaseInv

(* A step that replaces the record of one admin process: what it has to     *)
(* show.                                                                    *)
LEMMA CliStepBase ==
    ASSUME BaseInv, FileTypeOK', NEW k \in Cli, NEW r \in Process,
           cli' = [cli EXCEPT ![k] = r],
           UNCHANGED <<serve, starts, mem, conn, now>>,
           port' \in Pid \cup {NoData}, port' = ServePid <=> port = ServePid,
           ObservationsOK',
           r.st \in {"loaded", "bound", "saving"} =>
               /\ r.op \in {"revoke", "reauth_now", "pair"}
               /\ r.data \in Contents
               /\ r.op = "pair" => r.phone \in Phone,
           step'[k] # "idle" => r.st = "saving",
           \A s \in Saver \ {k} : step'[s] # "idle" => step[s] # "idle"
    PROVE  BaseInv'
  <1>1. /\ cli' \in [Cli -> Process] /\ cli'[k] = r
        /\ \A l \in Cli \ {k} : cli'[l] = cli[l]
    BY DEF BaseInv, ServerTypeOK
  <1>2. /\ \A c \in Conn : step'[c] # "idle" => step[c] # "idle"
        /\ \A l \in Cli \ {k} : step'[l] # "idle" => step[l] # "idle"
    BY ServerAssumption
  <1>3. ServerTypeOK'
    BY <1>1, <1>2 DEF BaseInv, ServerTypeOK, Running
  <1>4. WorkMatches'
    BY <1>1 DEF BaseInv, WorkMatches
  <1> QED BY <1>3, <1>4 DEF BaseInv

(* The subcommands load a keystore, and pair binds. *)
LEMMA CliLoadBase ==
    ASSUME BaseInv, NEW k \in Cli,
           \/ \E p \in Phone : revoke(k, NameOf[p]) \/ pair(k, p)
           \/ PairBinds(k) \/ reauth_now(k) \/ uninstall_revoke_broadcast(k)
    PROVE  BaseInv'
  <1>1. UNCHANGED <<fileVars, serve, starts, mem, conn, now, observations>>
    BY Zenon DEF revoke, pair, PairBinds, reauth_now, uninstall_revoke_broadcast, CliLoads
  <1>2. FileTypeOK' /\ ObservationsOK' /\ step' = step
    BY <1>1 DEF fileVars, FileTypeOK, observations, ObservationsOK, BaseInv, ServerTypeOK
  <1>3. ASSUME NEW op \in {"revoke", "reauth_now", "pair"}, NEW data \in Contents,
               NEW p \in Phone \cup {NoData}, op = "pair" => p \in Phone,
               CliLoads(k, op, data, p)
        PROVE  BaseInv'
    <2> DEFINE r == [NoCli EXCEPT !.st = "loaded", !.op = op, !.data = data, !.phone = p]
    <2>1. /\ r \in Process /\ r.st = "loaded" /\ r.op = op /\ r.data = data /\ r.phone = p
      BY DEF NoCli, Process
    <2>2. cli' = [cli EXCEPT ![k] = r] /\ port' = port /\ cli[k].st = "none"
      BY <1>3 DEF CliLoads
    <2>3. step[k] = "idle" /\ port \in Pid \cup {NoData}
      BY <2>2 DEF BaseInv, ServerTypeOK
    <2> HIDE DEF r
    <2> QED BY <1>1, <1>2, <1>3, <2>1, <2>2, <2>3, CliStepBase
  <1>4. ASSUME NEW phones \in SUBSET Phone, Load \in Contents
        PROVE  MarkRevoked(Load, phones) \in Contents
    BY <1>4, ContentsChanges
  <1>5. ASSUME NEW p \in Phone, revoke(k, NameOf[p]) PROVE BaseInv'
    <2> DEFINE phones == {q \in Phone : NameOf[q] = NameOf[p]}
    <2>1. Load \in Contents /\ CliLoads(k, "revoke", MarkRevoked(Load, phones), NoData)
      BY <1>5 DEF revoke
    <2>2. MarkRevoked(Load, phones) \in Contents
      BY <1>4, <2>1
    <2> QED BY <1>3, <2>1, <2>2
  <1>6. ASSUME NEW p \in Phone, pair(k, p) PROVE BaseInv'
    <2>1. Load \in Contents /\ CliLoads(k, "pair", Load, p)
      BY <1>6 DEF pair, CliLoads
    <2> QED BY <1>3, <2>1
  <1>7. ASSUME reauth_now(k) PROVE BaseInv'
    <2>1. Load \in Contents /\ CliLoads(k, "reauth_now", Load, NoData)
      BY <1>7 DEF reauth_now, CliLoads
    <2> QED BY <1>3, <2>1
  <1>8. ASSUME uninstall_revoke_broadcast(k) PROVE BaseInv'
    <2>1. Load \in Contents /\ CliLoads(k, "revoke", MarkRevoked(Load, Phone), NoData)
      BY <1>8 DEF uninstall_revoke_broadcast
    <2>2. MarkRevoked(Load, Phone) \in Contents
      BY <1>4, <2>1
    <2> QED BY <1>3, <2>1, <2>2
  <1>9. ASSUME PairBinds(k) PROVE BaseInv'
    <2> DEFINE old == cli[k]
               r == [old EXCEPT !.st = "bound", !.alone = (serve = "down")]
    <2>1. /\ old.st = "loaded" /\ old.op = "pair" /\ port = NoData /\ port' = PidOf[k]
          /\ cli' = [cli EXCEPT ![k].st = "bound", ![k].alone = (serve = "down")]
      BY <1>9 DEF PairBinds
    <2>2. /\ old \in Process /\ old.data \in Contents /\ old.phone \in Phone
          /\ step[k] = "idle" /\ cli \in [Cli -> Process]
      BY <2>1 DEF BaseInv, ServerTypeOK, WorkMatches
    <2>3. cli' = [cli EXCEPT ![k] = r]
      BY <2>1, <2>2
    <2>4. /\ r \in Process /\ r.st = "bound" /\ r.op = "pair" /\ r.data = old.data
          /\ r.phone = old.phone
      BY <2>1, <2>2 DEF Process
    <2>5. port' \in Pid /\ port' # ServePid /\ port # ServePid
      BY <2>1, SaverAssumption, ServerAssumption
    <2> HIDE DEF r
    <2> QED BY <1>1, <1>2, <2>2, <2>3, <2>4, <2>5, CliStepBase
  <1> QED BY <1>5, <1>6, <1>7, <1>8, <1>9

(* The subcommands save and end. *)
LEMMA CliSaveBase ==
    ASSUME BaseInv, FileTypeOK', NEW k \in Cli,
           CliSaves(k) \/ CliEnds(k) \/ PairLingers(k) \/ CliKilled(k)
    PROVE  BaseInv'
  <1> DEFINE old == cli[k]
  <1>1. /\ old \in Process /\ cli \in [Cli -> Process] /\ k \in Saver
        /\ PidOf[k] \in Pid /\ PidOf[k] # ServePid
        /\ step \in [Saver -> {"idle", "create", "write", "rename"}]
        /\ port \in Pid \cup {NoData}
        /\ ObservationsOK
    BY SaverAssumption, ServerAssumption DEF BaseInv, ServerTypeOK, FileTypeOK
  <1>2. ASSUME CliSaves(k) PROVE BaseInv'
    <2> DEFINE data == ToSave(k)
               r == [old EXCEPT !.st = "saving", !.data = data]
    <2>1. /\ old.st \in {"loaded", "bound"}
          /\ step' = [step EXCEPT ![k] = "create"]
          /\ cli' = [cli EXCEPT ![k].st = "saving", ![k].data = data]
          /\ granted' = [granted EXCEPT !.auths = @ \cup {data.last_auth}]
          /\ reported' \subseteq reported
          /\ paired' \subseteq paired
          /\ crossed' \subseteq crossed \cup Cli
          /\ UNCHANGED <<serve, port, starts, mem, conn, now, config>>
      BY <1>2 DEF CliSaves, SaveCall
    <2>2. data \in Contents
      BY <2>1, ToSaveTyped
    <2>3. /\ old.op \in {"revoke", "reauth_now", "pair"}
          /\ old.op = "pair" => old.phone \in Phone
      BY <2>1 DEF BaseInv, WorkMatches
    <2>4. data.last_auth \in Time
      BY <2>2, ContentsFields
    <2> HIDE DEF data
    <2>5. ObservationsOK'
      BY <1>1, <2>1, <2>4 DEF ObservationsOK
    <2>6. cli' = [cli EXCEPT ![k] = r]
      BY <1>1, <2>1
    <2>7. /\ r \in Process /\ r.st = "saving" /\ r.op = old.op /\ r.data = data
          /\ r.phone = old.phone
      BY <1>1, <2>2 DEF Process
    <2>8. \A s \in Saver \ {k} : step'[s] = step[s]
      BY <1>1, <2>1
    <2> HIDE DEF r
    <2> QED BY <1>1, <2>1, <2>2, <2>3, <2>5, <2>6, <2>7, <2>8, CliStepBase
  <1> DEFINE done == [NoCli EXCEPT !.st = "done"]
  <1>3. done \in Process /\ done.st = "done"
    BY NoneTyped DEF NoCli, Process
  <1>4. ASSUME CliExits(k)
        PROVE  /\ cli' = [cli EXCEPT ![k] = done]
               /\ port' \in Pid \cup {NoData}
               /\ port' = ServePid <=> port = ServePid
    BY <1>1, <1>4, ServerAssumption DEF CliExits, PortWithout
  <1>5. ASSUME CliEnds(k) PROVE BaseInv'
    <2>1. /\ CliExits(k) /\ step[k] = "idle" /\ step' = step
          /\ UNCHANGED <<serve, starts, mem, conn, now, config, crossed, granted>>
      BY <1>5 DEF CliEnds, Consume
    <2>2. reported' \subseteq Phone
      BY <1>1, <1>5 DEF CliEnds, ObservationsOK
    <2>3. paired' \subseteq Phone
      <3>1. old.st = "saving" /\ (old.op = "pair" => old.phone \in Phone)
        BY <1>5 DEF CliEnds, BaseInv, WorkMatches
      <3> QED BY <1>1, <1>5, <3>1 DEF CliEnds, ObservationsOK
    <2>4. ObservationsOK'
      BY <1>1, <2>1, <2>2, <2>3 DEF ObservationsOK
    <2> HIDE DEF done
    <2> QED BY <1>3, <1>4, <2>1, <2>4, CliStepBase
  <1>6. ASSUME CliKilled(k) PROVE BaseInv'
    <2>1. /\ CliExits(k)
          /\ step' = [s \in Saver |-> IF PidOf[s] = PidOf[k] THEN "idle" ELSE step[s]]
          /\ UNCHANGED <<serve, starts, mem, conn, now, observations>>
      BY <1>6 DEF CliKilled, Exit
    <2>2. /\ step'[k] = "idle"
          /\ \A s \in Saver \ {k} : step'[s] # "idle" => step[s] # "idle"
      BY <1>1, <2>1
    <2>3. ObservationsOK'
      BY <1>1, <2>1 DEF ObservationsOK, observations
    <2> HIDE DEF done
    <2> QED BY <1>3, <1>4, <2>1, <2>2, <2>3, CliStepBase
  <1>7. ASSUME PairLingers(k) PROVE BaseInv'
    <2> DEFINE r == [NoCli EXCEPT !.st = "lingering"]
    <2>1. /\ cli' = [cli EXCEPT ![k] = r] /\ step[k] = "idle" /\ step' = step
          /\ UNCHANGED <<serve, port, starts, mem, conn, now, observations>>
      BY <1>7 DEF PairLingers, Consume
    <2>2. r \in Process /\ r.st = "lingering"
      BY DEF NoCli, Process
    <2>3. ObservationsOK'
      BY <1>1, <2>1 DEF ObservationsOK, observations
    <2> HIDE DEF r
    <2> QED BY <1>1, <2>1, <2>2, <2>3, CliStepBase
  <1> QED BY <1>2, <1>5, <1>6, <1>7

(* Every step keeps the types. *)
LEMMA BaseStep == BaseInv /\ [Next]_vars => BaseInv'
  <1> SUFFICES ASSUME BaseInv, [Next]_vars PROVE BaseInv'
    OBVIOUS
  <1>1. FileTypeOK'
    BY FileFollows, FileTypeStep DEF BaseInv, ServerTypeOK
  <1>2. CASE ServeBind \/ ServeStart \/ ServeClose \/ ServeStop \/ Advance
    BY <1>1, <1>2, ServeBase, ServeStopBase
  <1>3. ASSUME NEW c \in Conn, Task(c) PROVE BaseInv'
    BY <1>1, <1>3, ConnectBase, DispatchBase, MemoryBase, SavingBase, WriteReplyBase DEF Task
  <1>4. ASSUME NEW c \in Conn, PeerActs(c) PROVE BaseInv'
    <2>1. CASE \/ \E p \in Phone, a \in Addr : Accept(c, p, a)
               \/ Handshake(c) \/ Hangup(c)
      BY <2>1, ConnectBase
    <2>2. CASE \E n \in 0 .. MaxNonce :
                 \/ ReceiveReplay(c, n) \/ ReceiveUndecodable(c, n)
                 \/ \E frame \in (Command \cup OtherFrames) \ {"ReauthConfig"} :
                       Receive(c, n, frame, "none")
                 \/ \E i \in Intervals : Receive(c, n, "ReauthConfig", i)
      BY <2>2, ReceiveBase
    <2> QED BY <1>4, <2>1, <2>2 DEF PeerActs
  <1>5. ASSUME NEW k \in Cli, CliStep(k) PROVE BaseInv'
    BY <1>1, <1>5, CliLoadBase, CliSaveBase DEF CliStep
  <1>6. ASSUME NEW s \in Saver, FileStep(s) PROVE BaseInv'
    BY <1>1, <1>6, FileStepBase
  <1>7. CASE UNCHANGED vars
    BY <1>1, <1>7 DEF vars, fileVars, BaseInv, ServerTypeOK, WorkMatches, ObservationsOK,
                      observations, Running
  <1> QED BY <1>2, <1>3, <1>4, <1>5, <1>6, <1>7 DEF Next

(* The types of the listener's state and of the subcommands, and that a     *)
(* task is inside keystore::save only where its code is.                    *)
THEOREM ServerBase == Spec => []BaseInv
  BY BaseInit, BaseStep, PTL DEF Spec

(* The part of the invariant a run checks: the types, that nothing is in    *)
(* memory while the listener is down, and that the port is the listener's   *)
(* exactly while it is bound (server::run, SharedState).                    *)
THEOREM ServerTypesHold == Spec => []ServerTypeOK
  <1>1. BaseInv => ServerTypeOK
    BY DEF BaseInv
  <1> QED BY <1>1, ServerBase, PTL

(* The listener, its connections and the subcommands together use the       *)
(* keystore file as KeystoreFile describes it (keystore::save from          *)
(* SharedState::save and from admin.rs).                                    *)
THEOREM ServerUsesFile == Spec => FileSpec
  <1>1. Init => FileInit
    BY ServerAssumption DEF Init, FileInit
  <1>2. BaseInv /\ [Next]_vars => [FileNext]_fileVars
    BY FileFollows
  <1> QED BY <1>1, <1>2, ServerBase, PTL DEF Spec, FileSpec

(* Beside any number of subcommands, a listener that serves one connection  *)
(* at a time always leaves a keystore that load can read, whatever fails    *)
(* and whenever a process dies.                                             *)
THEOREM ServerKeystoreLoadable ==
    ASSUME OneSaverPerProcess
    PROVE  Spec => []AlwaysLoadable
  BY ServerUsesFile, KeystoreAlwaysLoadable, PTL

(* ... and its saves and those of the subcommands are atomic.               *)
THEOREM ServerSavesAreAtomic ==
    ASSUME OneSaverPerProcess
    PROVE  Spec => ImplementsStore
  BY ServerUsesFile, SaveIsAtomic, PTL
=============================================================================
