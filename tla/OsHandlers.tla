----------------------------- MODULE OsHandlers -----------------------------
(***************************************************************************)
(* The OS handlers of a daemon process, daemon/src/platform/windows.rs:    *)
(* the shutdown privilege behind PowerOff and the probe of the console     *)
(* session behind StateProbe, against a Windows whose user locks, unlocks, *)
(* leaves and switches sessions at any moment.                             *)
(***************************************************************************)
EXTENDS Naturals

CONSTANTS
    Process,     \* daemon processes
    Session,     \* Windows sessions, by their id
    NoSession    \* 0xFFFFFFFF, and nothing being probed

ASSUME OsAssumption == NoSession \notin Session

VARIABLES
    up,       \* the processes that serve connections
    console,  \* the session at the console
    user,     \* of each session: nobody, or a user with it locked or unlocked
    held,     \* whether the account holds SeShutdownPrivilege
    enabled,  \* whether the token of each process has it enabled
    ready,    \* SHUTDOWN_PRIVILEGE_READY of each process
    probe,    \* the session id a probe has got and not used yet
    report,   \* the PcState of the last probe, with an observation: whether
              \* the console was locked at some moment of that probe
    refused   \* observation: ExitWindowsEx was called without the privilege

windows == <<console, user, held>>
vars == <<up, windows, enabled, ready, probe, report, refused>>

NoProbe == [id |-> NoSession, open |-> FALSE, locked |-> FALSE]

NoReport == [state |-> "none", locked |-> FALSE]

Init ==
    /\ up = {}
    /\ console \in Session \cup {NoSession}
    /\ user = [s \in Session |-> "nobody"]
    /\ held \in BOOLEAN
    /\ enabled = [p \in Process |-> FALSE]
    /\ ready = [p \in Process |-> FALSE]
    /\ probe = [p \in Process |-> NoProbe]
    /\ report = [p \in Process |-> NoReport]
    /\ refused = FALSE

-----------------------------------------------------------------------------
(* Windows *)

Locked(c, u) == c # NoSession /\ u[c] = "locked"

(* Users come and go at the console; a session left behind is locked or     *)
(* ends.  Every open probe sees whether the console was locked.             *)
UserActs ==
    /\ \/ /\ console' \in (Session \cup {NoSession}) \ {console}
          /\ user' = user
       \/ /\ \E s \in Session, u \in {"nobody", "locked", "unlocked"} :
               /\ u # user[s]
               /\ s = console \/ (user[s] # "nobody" /\ u # "unlocked")
               /\ user' = [user EXCEPT ![s] = u]
          /\ console' = console
    /\ probe' = [p \in Process |->
         [probe[p] EXCEPT !.locked = probe[p].open /\ (@ \/ Locked(console', user'))]]
    /\ UNCHANGED <<up, held, enabled, ready, report, refused>>

(* WTSQuerySessionInformationW: only a user at the console is WTSActive;    *)
(* a session left behind keeps its lock flag.                               *)
WTSActive(s) == s = console /\ user[s] # "nobody"

SessionLock(s) == user[s] = "locked"

-----------------------------------------------------------------------------
(* The handlers *)

(* enable_shutdown_privilege up to AdjustTokenPrivileges, which succeeds    *)
(* without the privilege, too, and says so only in the last error.          *)
Adjusted ==
    {[ok |-> FALSE, err |-> "failed"],
     [ok |-> TRUE, err |-> IF held THEN "none" ELSE "not all assigned"]}

\* The last error is read after CloseHandle, which may have reset it.
LastError_AfterClose(r) == {r.err, "none"}

(* The last error is read before CloseHandle. *)
LastError(r) == {r.err}

Prepared(r, err) == r.ok /\ err # "not all assigned"

(* prepare, before the first connection: a failure leaves the flag unset,   *)
(* and the daemon goes on.                                                  *)
prepare(p) ==
    /\ p \notin up
    /\ up' = up \cup {p}
    /\ \E r \in Adjusted : \E err \in LastError(r) :
         /\ enabled' = [enabled EXCEPT ![p] = (r.err = "none")]
         /\ ready' = [ready EXCEPT ![p] = Prepared(r, err)]
    /\ UNCHANGED <<windows, probe, report, refused>>

(* power_off: NotPermitted unless prepare succeeded, else ExitWindowsEx. *)
power_off(p) ==
    /\ p \in up
    /\ refused' = (refused \/ (ready[p] /\ ~enabled[p]))
    /\ UNCHANGED <<up, windows, enabled, ready, probe, report>>

\* 0xFFFFFFFF is taken for a session like any other.
ProbeConsole_AnyId(p) ==
    /\ p \in up /\ ~probe[p].open
    /\ probe' = [probe EXCEPT ![p] = [id |-> console, open |-> TRUE,
                                      locked |-> Locked(console, user)]]
    /\ UNCHANGED <<up, windows, enabled, ready, report, refused>>

(* current_session_state, first half: which session is at the console. *)
ProbeConsole(p) ==
    /\ p \in up /\ ~probe[p].open
    /\ IF console = NoSession
       THEN /\ report' = [report EXCEPT ![p] =
                            [state |-> "OnLoggedOut", locked |-> FALSE]]
            /\ probe' = probe
       ELSE /\ probe' = [probe EXCEPT ![p] = [id |-> console, open |-> TRUE,
                                              locked |-> Locked(console, user)]]
            /\ report' = report
    /\ UNCHANGED <<up, windows, enabled, ready, refused>>

\* The session may have been left since its id was asked for.
SessionState_AnySession(s, answer) ==
    IF answer = "flags" /\ SessionLock(s) THEN "OnLocked" ELSE "OnLoggedIn"

(* Second half: the state of that session.  A query that fails counts as    *)
(* somebody at the console, a lock flag that is unknown as unlocked.        *)
SessionState(s, answer) ==
    IF answer = "failed" THEN "OnLoggedIn"
    ELSE IF ~WTSActive(s) THEN "OnLoggedOut"
    ELSE IF answer = "flags" /\ SessionLock(s) THEN "OnLocked" ELSE "OnLoggedIn"

ProbeSession(p) ==
    /\ probe[p].open
    /\ \E answer \in {"failed", "unknown", "flags"} :
         report' = [report EXCEPT ![p] =
                      [state |-> SessionState(probe[p].id, answer),
                       locked |-> probe[p].locked]]
    /\ probe' = [probe EXCEPT ![p] = NoProbe]
    /\ UNCHANGED <<up, windows, enabled, ready, refused>>

(* A process ends: its token, its statics and its probe go with it. *)
Exit(p) ==
    /\ p \in up
    /\ up' = up \ {p}
    /\ enabled' = [enabled EXCEPT ![p] = FALSE]
    /\ ready' = [ready EXCEPT ![p] = FALSE]
    /\ probe' = [probe EXCEPT ![p] = NoProbe]
    /\ report' = [report EXCEPT ![p] = NoReport]
    /\ UNCHANGED <<windows, refused>>

Next ==
    \/ UserActs
    \/ \E p \in Process :
          prepare(p) \/ power_off(p) \/ ProbeConsole(p) \/ ProbeSession(p) \/ Exit(p)

Spec == Init /\ [][Next]_vars

-----------------------------------------------------------------------------
PcState == {"none", "OnLoggedOut", "OnLoggedIn", "OnLocked"}

(* The types; a probe is open only in a process that runs, and for a        *)
(* session that was at the console.                                         *)
OsTypeOK ==
    /\ up \subseteq Process
    /\ console \in Session \cup {NoSession}
    /\ user \in [Session -> {"nobody", "locked", "unlocked"}]
    /\ held \in BOOLEAN
    /\ enabled \in [Process -> BOOLEAN]
    /\ ready \in [Process -> BOOLEAN]
    /\ probe \in [Process -> [id : Session \cup {NoSession}, open : BOOLEAN,
                              locked : BOOLEAN]]
    /\ report \in [Process -> [state : PcState, locked : BOOLEAN]]
    /\ refused \in BOOLEAN
    /\ \A p \in Process : probe[p].open => p \in up /\ probe[p].id # NoSession

(* OnLocked is reported only if the console was locked at some moment of    *)
(* the probe, although the user may switch sessions between its two calls   *)
(* and the second may fail ("rather than emitting a wrong OnLocked").       *)
NoFalseLock == \A p \in Process : report[p].state = "OnLocked" => report[p].locked

(* ExitWindowsEx is only called by a process whose own prepare enabled the  *)
(* privilege, whatever AdjustTokenPrivileges returned and left as the last  *)
(* error, and whatever was restarted.                                       *)
PowerOffAuthorised == ~refused
=============================================================================
