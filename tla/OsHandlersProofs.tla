-------------------------- MODULE OsHandlersProofs --------------------------
(***************************************************************************)
(* Proofs about the OS handlers, for any number of processes and Windows   *)
(* sessions.                                                               *)
(***************************************************************************)
EXTENDS OsHandlers, TLAPS

(* What the flag of prepare stands for: the token of the process itself.    *)
ReadyIsEnabled == \A p \in Process : ready[p] => enabled[p]

(* What an open probe knows: if the session it asks about is still at the   *)
(* console and locked, it has seen that.                                    *)
ProbeSees ==
    \A p \in Process : probe[p].open /\ Locked(console, user) => probe[p].locked

OsInv == /\ OsTypeOK
         /\ ReadyIsEnabled
         /\ ProbeSees
         /\ NoFalseLock
         /\ PowerOffAuthorised

(* A daemon that has not started satisfies the invariant. *)
LEMMA OsInitInv == Init => OsInv
  <1> SUFFICES ASSUME Init PROVE OsInv
    OBVIOUS
  <1>1. \A p \in Process : probe[p] = NoProbe /\ report[p] = NoReport /\ ~ready[p]
    BY DEF Init
  <1>2. /\ NoProbe \in [id : Session \cup {NoSession}, open : BOOLEAN, locked : BOOLEAN]
        /\ ~NoProbe.open
        /\ NoReport \in [state : PcState, locked : BOOLEAN]
        /\ NoReport.state # "OnLocked"
    BY DEF NoProbe, NoReport, PcState
  <1>3. OsTypeOK
    BY <1>1, <1>2 DEF Init, OsTypeOK
  <1> QED BY <1>1, <1>2, <1>3
          DEF Init, OsInv, ReadyIsEnabled, ProbeSees, NoFalseLock, PowerOffAuthorised

(* The user cannot make an open probe miss a lock of the console. *)
LEMMA UserActsInv == OsInv /\ UserActs => OsInv'
  <1> SUFFICES ASSUME OsInv, UserActs PROVE OsInv'
    OBVIOUS
  <1>1. /\ console' \in Session \cup {NoSession}
        /\ user' \in [Session -> {"nobody", "locked", "unlocked"}]
    BY DEF UserActs, OsInv, OsTypeOK
  <1>2. /\ UNCHANGED <<up, held, enabled, ready, report, refused>>
        /\ probe' = [p \in Process |->
             [probe[p] EXCEPT !.locked = probe[p].open /\ (@ \/ Locked(console', user'))]]
    BY DEF UserActs
  <1>3. ASSUME NEW p \in Process
        PROVE  /\ probe'[p] \in [id : Session \cup {NoSession}, open : BOOLEAN,
                                 locked : BOOLEAN]
               /\ probe'[p].open = probe[p].open
               /\ probe'[p].id = probe[p].id
               /\ probe[p].open /\ Locked(console', user') => probe'[p].locked
    <2>1. Locked(console', user') \in BOOLEAN
      BY DEF Locked
    <2> HIDE DEF Locked
    <2> QED BY <1>2, <2>1 DEF OsInv, OsTypeOK
  <1>4. OsTypeOK'
    <2>1. probe' \in [Process -> [id : Session \cup {NoSession}, open : BOOLEAN,
                                  locked : BOOLEAN]]
      BY <1>2, <1>3
    <2>2. \A p \in Process : probe'[p].open => p \in up' /\ probe'[p].id # NoSession
      <3> SUFFICES ASSUME NEW p \in Process, probe'[p].open
                   PROVE  p \in up' /\ probe'[p].id # NoSession
        OBVIOUS
      <3>1. probe[p].open /\ probe'[p].id = probe[p].id
        BY <1>3
      <3> QED BY <1>2, <3>1 DEF OsInv, OsTypeOK
    <2>3. /\ up' \subseteq Process
          /\ held' \in BOOLEAN
          /\ enabled' \in [Process -> BOOLEAN]
          /\ ready' \in [Process -> BOOLEAN]
          /\ report' \in [Process -> [state : PcState, locked : BOOLEAN]]
          /\ refused' \in BOOLEAN
      BY <1>2 DEF OsInv, OsTypeOK
    <2> QED BY <1>1, <2>1, <2>2, <2>3 DEF OsTypeOK, PcState
  <1>5. ProbeSees'
    <2> SUFFICES ASSUME NEW p \in Process, probe'[p].open, Locked(console', user')
                 PROVE  probe'[p].locked
      BY DEF ProbeSees, Locked
    <2> QED BY <1>3
  <1> QED BY <1>2, <1>4, <1>5
          DEF OsInv, ReadyIsEnabled, NoFalseLock, PowerOffAuthorised

(* prepare sets the flag only with the privilege in the token. *)
LEMMA PrepareInv ==
    ASSUME OsInv, NEW p \in Process, prepare(p)
    PROVE  OsInv'
  <1>1. PICK r \in Adjusted :
          \E err \in LastError(r) : /\ enabled' = [enabled EXCEPT ![p] = (r.err = "none")]
                                    /\ ready' = [ready EXCEPT ![p] = Prepared(r, err)]
    BY DEF prepare
  <1>2. Prepared(r, r.err) <=> r.err = "none"
    <2>1. CASE r = [ok |-> FALSE, err |-> "failed"]
      BY <2>1, Zenon DEF Prepared
    <2>2. CASE r = [ok |-> TRUE, err |-> "none"]
      BY <2>2, Zenon DEF Prepared
    <2>3. CASE r = [ok |-> TRUE, err |-> "not all assigned"]
      BY <2>3, Zenon DEF Prepared
    <2> QED BY <2>1, <2>2, <2>3 DEF Adjusted
  <1>3. /\ enabled' = [enabled EXCEPT ![p] = (r.err = "none")]
        /\ ready' = [ready EXCEPT ![p] = Prepared(r, r.err)]
    BY <1>1 DEF LastError
  <1>4. /\ up' = up \cup {p}
        /\ UNCHANGED <<windows, probe, report, refused>>
    BY DEF prepare
  <1>5. OsTypeOK'
    BY <1>2, <1>3, <1>4 DEF OsInv, OsTypeOK, windows, Prepared
  <1>6. ReadyIsEnabled'
    BY <1>2, <1>3 DEF OsInv, OsTypeOK, ReadyIsEnabled
  <1> QED BY <1>4, <1>5, <1>6
          DEF OsInv, ProbeSees, NoFalseLock, PowerOffAuthorised, windows

(* power_off goes no further than the flag. *)
LEMMA PowerOffInv ==
    ASSUME OsInv, NEW p \in Process, power_off(p)
    PROVE  OsInv'
  <1>1. UNCHANGED <<up, windows, enabled, ready, probe, report>>
    BY DEF power_off
  <1>2. refused' = FALSE
    BY DEF power_off, OsInv, ReadyIsEnabled, PowerOffAuthorised, OsTypeOK
  <1>3. OsTypeOK'
    BY <1>1, <1>2 DEF OsInv, OsTypeOK, windows
  <1>4. PowerOffAuthorised'
    BY <1>2 DEF PowerOffAuthorised
  <1> QED BY <1>1, <1>3, <1>4
          DEF OsInv, ReadyIsEnabled, ProbeSees, NoFalseLock, windows

(* The first half of a probe. *)
LEMMA ProbeConsoleInv ==
    ASSUME OsInv, NEW p \in Process, ProbeConsole(p)
    PROVE  OsInv'
  <1>1. UNCHANGED <<up, windows, enabled, ready, refused>>
    BY DEF ProbeConsole
  <1>2. CASE console = NoSession
    <2>1. /\ report' = [report EXCEPT ![p] = [state |-> "OnLoggedOut", locked |-> FALSE]]
          /\ probe' = probe
      BY <1>2 DEF ProbeConsole
    <2>2. OsTypeOK'
      BY <1>1, <2>1 DEF OsInv, OsTypeOK, PcState, windows
    <2>3. NoFalseLock'
      BY <2>1 DEF OsInv, OsTypeOK, NoFalseLock
    <2> QED BY <1>1, <2>1, <2>2, <2>3
            DEF OsInv, ReadyIsEnabled, ProbeSees, PowerOffAuthorised, windows
  <1>3. CASE console # NoSession
    <2>1. /\ probe' = [probe EXCEPT ![p] = [id |-> console, open |-> TRUE,
                                            locked |-> Locked(console, user)]]
          /\ report' = report
          /\ p \in up
      BY <1>3 DEF ProbeConsole
    <2>2. Locked(console, user) \in BOOLEAN
      BY DEF Locked
    <2>3. OsTypeOK'
      BY <1>1, <1>3, <2>1, <2>2 DEF OsInv, OsTypeOK, windows
    <2>4. ProbeSees'
      BY <1>1, <2>1 DEF OsInv, OsTypeOK, ProbeSees, windows
    <2> QED BY <1>1, <2>1, <2>3, <2>4
            DEF OsInv, ReadyIsEnabled, NoFalseLock, PowerOffAuthorised
  <1> QED BY <1>2, <1>3

(* The second half: OnLocked needs the session at the console and locked,   *)
(* which the probe has then seen.                                           *)
LEMMA ProbeSessionInv ==
    ASSUME OsInv, NEW p \in Process, ProbeSession(p)
    PROVE  OsInv'
  <1>1. PICK answer \in {"failed", "unknown", "flags"} :
          report' = [report EXCEPT ![p] = [state |-> SessionState(probe[p].id, answer),
                                           locked |-> probe[p].locked]]
    BY DEF ProbeSession
  <1>2. /\ probe[p].open
        /\ probe' = [probe EXCEPT ![p] = NoProbe]
        /\ UNCHANGED <<up, windows, enabled, ready, refused>>
    BY DEF ProbeSession
  <1> DEFINE state == SessionState(probe[p].id, answer)
  <1>3. state \in {"OnLoggedOut", "OnLoggedIn", "OnLocked"}
    BY DEF SessionState
  <1>4. state = "OnLocked" => probe[p].locked
    <2> SUFFICES ASSUME state = "OnLocked" PROVE probe[p].locked
      OBVIOUS
    <2>1. WTSActive(probe[p].id) /\ SessionLock(probe[p].id)
      BY DEF SessionState
    <2>2. Locked(console, user)
      BY <1>2, <2>1 DEF WTSActive, SessionLock, Locked, OsInv, OsTypeOK
    <2> QED BY <1>2, <2>2 DEF OsInv, ProbeSees
  <1> HIDE DEF state
  <1>5. report' = [report EXCEPT ![p] = [state |-> state, locked |-> probe[p].locked]]
    BY <1>1 DEF state
  <1>6. OsTypeOK'
    BY <1>2, <1>3, <1>5 DEF OsInv, OsTypeOK, PcState, NoProbe, windows
  <1>7. NoFalseLock'
    BY <1>4, <1>5 DEF OsInv, OsTypeOK, NoFalseLock
  <1>8. ProbeSees'
    BY <1>2 DEF OsInv, OsTypeOK, ProbeSees, NoProbe, windows
  <1> QED BY <1>2, <1>6, <1>7, <1>8 DEF OsInv, ReadyIsEnabled, PowerOffAuthorised

(* Nothing of a process survives it. *)
LEMMA ExitInv ==
    ASSUME OsInv, NEW p \in Process, Exit(p)
    PROVE  OsInv'
  BY DEF Exit, OsInv, OsTypeOK, PcState, NoProbe, NoReport, ReadyIsEnabled, ProbeSees,
         NoFalseLock, PowerOffAuthorised, windows

(* The OS handlers keep their invariant, whatever the users of the PC do    *)
(* between the calls of a probe and however AdjustTokenPrivileges answers.  *)
THEOREM OsHandlersCorrect == Spec => []OsInv
  <1>1. OsInv /\ [Next]_vars => OsInv'
    <2> SUFFICES ASSUME OsInv, [Next]_vars PROVE OsInv'
      OBVIOUS
    <2>1. CASE UserActs
      BY <2>1, UserActsInv
    <2>2. ASSUME NEW p \in Process,
                 \/ prepare(p) \/ power_off(p) \/ ProbeConsole(p)
                 \/ ProbeSession(p) \/ Exit(p)
          PROVE  OsInv'
      BY <2>2, PrepareInv, PowerOffInv, ProbeConsoleInv, ProbeSessionInv, ExitInv
    <2>3. CASE UNCHANGED vars
      BY <2>3 DEF vars, windows, OsInv, OsTypeOK, ReadyIsEnabled, ProbeSees, NoFalseLock,
                  PowerOffAuthorised
    <2> QED BY <2>1, <2>2, <2>3 DEF Next
  <1> QED BY <1>1, OsInitInv, PTL DEF Spec

(* The types of the OS handlers, and that a probe asks only about a session *)
(* that was at the console (current_session_state).                        *)
THEOREM OsTypesHold == Spec => []OsTypeOK
  <1>1. OsInv => OsTypeOK
    BY DEF OsInv
  <1> QED BY <1>1, OsHandlersCorrect, PTL

(* current_session_state never reports a lock that was not there during the *)
(* probe.                                                                   *)
THEOREM LockReportsAreTrue == Spec => []NoFalseLock
  <1>1. OsInv => NoFalseLock
    BY DEF OsInv
  <1> QED BY <1>1, OsHandlersCorrect, PTL

(* power_off never calls ExitWindowsEx without the privilege. *)
THEOREM PowerOffIsAuthorised == Spec => []PowerOffAuthorised
  <1>1. OsInv => PowerOffAuthorised
    BY DEF OsInv
  <1> QED BY <1>1, OsHandlersCorrect, PTL
=============================================================================
