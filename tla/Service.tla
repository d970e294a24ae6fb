------------------------------- MODULE Service ------------------------------
(***************************************************************************)
(* The Windows service, daemon/src/service.rs: run_service between the     *)
(* service control manager (SCM) and the listener, and the install-service *)
(* and uninstall-service subcommands.  The listener is here what the SCM   *)
(* and the port see of it; Server and OsHandlers have the rest.            *)
(***************************************************************************)
EXTENDS Naturals

CONSTANTS
    Process,  \* the processes the SCM launches, each once
    Admin,    \* install-service and uninstall-service processes
    NoProc    \* no process

ASSUME ServiceAssumption == NoProc \notin Process

VARIABLES
    scm,   \* the SCM's record of the service
    proc,  \* the processes
    port,  \* the process bound to the TCP port
    adm,   \* the admin processes
    stops  \* observation: the processes a Stop was delivered to

vars == <<scm, proc, port, adm, stops>>

NoService == [installed |-> FALSE, marked |-> FALSE, status |-> "Stopped",
              current |-> NoProc, exit |-> 0]

\* sent: the shutdown oneshot has its value; ok: what block_on returned;
\* waiting: a connection waits to be accepted.
NoProcess == [pc |-> "none", sent |-> FALSE, ok |-> TRUE, waiting |-> FALSE]

Init ==
    /\ scm \in {NoService, [NoService EXCEPT !.installed = TRUE]}
    /\ proc = [p \in Process |-> NoProcess]
    /\ port = NoProc
    /\ adm = [a \in Admin |-> "idle"]
    /\ stops = {}

-----------------------------------------------------------------------------
(* The SCM *)

(* Auto-start, or the user starts the service. *)
ScmStart(p) ==
    /\ scm.installed /\ ~scm.marked /\ scm.status = "Stopped"
    /\ proc[p].pc = "none"
    /\ scm' = [scm EXCEPT !.status = "StartPending", !.current = p]
    /\ proc' = [proc EXCEPT ![p].pc = "launched"]
    /\ UNCHANGED <<port, adm, stops>>

\* A signal without memory: it is lost unless the listener waits for it.
Signal_OnlyAccepting(p) == proc[p].pc = "accepting"

(* The control handler: the first Stop or Shutdown sends on the oneshot,    *)
(* which keeps the value until the listener gets to it.                     *)
Signal(p) == TRUE

\* The handler tells the SCM itself.
StatusAfterStop_Stopped == [scm EXCEPT !.status = "Stopped", !.current = NoProc]

(* The handler signals; the status is left to run_service. *)
StatusAfterStop == scm

(* Stop and Shutdown are delivered only while the status accepts them. *)
DeliverStop ==
    /\ scm.status = "Running"
    /\ LET p == scm.current IN
         /\ proc' = [proc EXCEPT ![p].sent = @ \/ Signal(p)]
         /\ stops' = stops \cup {p}
    /\ scm' = StatusAfterStop

ScmStop ==
    /\ DeliverStop
    /\ UNCHANGED <<port, adm>>

(* A service marked for deletion goes once it is stopped and no admin       *)
(* process has a handle.                                                    *)
ScmRemove ==
    /\ scm.marked /\ scm.status = "Stopped"
    /\ \A a \in Admin : adm[a] \notin {"opened", "waited"}
    /\ scm' = NoService
    /\ UNCHANGED <<proc, port, adm, stops>>

-----------------------------------------------------------------------------
(* run_service *)

Goto(p, pc) == proc' = [proc EXCEPT ![p].pc = pc]

(* Running is reported as soon as the handler is registered. *)
ReportRunning(p) ==
    /\ proc[p].pc = "launched"
    /\ scm' = [scm EXCEPT !.status = "Running"]
    /\ Goto(p, "running")
    /\ UNCHANGED <<port, adm, stops>>

(* No runtime, no handler or no status report: run_service returns without  *)
(* reporting anything, and the dispatcher waits for a Stopped for ever.     *)
StartFails(p) ==
    /\ proc[p].pc = "launched"
    /\ Goto(p, "mute")
    /\ UNCHANGED <<scm, port, adm, stops>>

\* The TcpListener outlives the future it is moved into.
BlockOnReturns_KeepsPort(p, ok) ==
    /\ proc' = [proc EXCEPT ![p].pc = "returned", ![p].ok = ok]
    /\ port' = port

(* The listener's future is dropped with the TcpListener in it. *)
BlockOnReturns(p, ok) ==
    /\ proc' = [proc EXCEPT ![p].pc = "returned", ![p].ok = ok]
    /\ port' = IF port = p THEN NoProc ELSE port

Bind(p) ==
    /\ proc[p].pc = "running"
    /\ port = NoProc
    /\ port' = p
    /\ Goto(p, "bound")
    /\ UNCHANGED <<scm, adm, stops>>

(* No config or no port; after the bind, no data directory, no keystore or  *)
(* no identity in it.                                                       *)
ListenerFails(p) ==
    /\ proc[p].pc \in {"running", "bound"}
    /\ BlockOnReturns(p, FALSE)
    /\ UNCHANGED <<scm, adm, stops>>

(* The keystore is loaded and prepare has run. *)
EnterAcceptLoop(p) ==
    /\ proc[p].pc = "bound"
    /\ Goto(p, "accepting")
    /\ UNCHANGED <<scm, port, adm, stops>>

\* A oneshot whose sender is dropped resolves as well.
ShutdownReady_SenderDropped(p) == TRUE

ShutdownReady(p) == proc[p].sent

\* A peer that keeps connecting keeps the shutdown from being polled.
Selected_AcceptFirst(p) ==
    IF proc[p].waiting THEN "accept"
    ELSE IF ShutdownReady(p) THEN "shutdown" ELSE "none"

(* accept_loop: biased, the shutdown is polled first. *)
Selected(p) ==
    IF ShutdownReady(p) THEN "shutdown"
    ELSE IF proc[p].waiting THEN "accept" ELSE "none"

LeaveAcceptLoop(p) ==
    /\ proc[p].pc = "accepting"
    /\ Selected(p) = "shutdown"
    /\ BlockOnReturns(p, TRUE)
    /\ UNCHANGED <<scm, adm, stops>>

AcceptConnection(p) ==
    /\ proc[p].pc = "accepting"
    /\ Selected(p) = "accept"
    /\ proc' = [proc EXCEPT ![p].waiting = FALSE]
    /\ UNCHANGED <<scm, port, adm, stops>>

(* Phones connect as they like, from the bind on. *)
Connect(p) ==
    /\ port = p
    /\ ~proc[p].waiting
    /\ proc' = [proc EXCEPT ![p].waiting = TRUE]
    /\ UNCHANGED <<scm, port, adm, stops>>

\* Only a listener that ended well is reported.
Reports_OnlyOk(p) == proc[p].ok

Reports(p) == TRUE

(* Stopped is reported however the listener ended. *)
ReportStopped(p) ==
    /\ proc[p].pc = "returned"
    /\ Reports(p)
    /\ scm' = [scm EXCEPT !.status = "Stopped", !.current = NoProc,
                          !.exit = IF proc[p].ok THEN 0 ELSE 1]
    /\ Goto(p, "reported")
    /\ UNCHANGED <<port, adm, stops>>

Gone == [NoProcess EXCEPT !.pc = "gone"]

(* run_service drops its runtime, and with it the connections that are      *)
(* open; the dispatcher returns and the process ends.                       *)
ProcessEnds(p) ==
    /\ proc[p].pc = "reported"
    /\ proc' = [proc EXCEPT ![p] = Gone]
    /\ UNCHANGED <<scm, port, adm, stops>>

(* The process is killed; the SCM notices. *)
Crash(p) ==
    /\ proc[p].pc \notin {"none", "gone"}
    /\ proc' = [proc EXCEPT ![p] = Gone]
    /\ port' = IF port = p THEN NoProc ELSE port
    /\ scm' = IF scm.current = p
              THEN [scm EXCEPT !.status = "Stopped", !.current = NoProc, !.exit = 1]
              ELSE scm
    /\ UNCHANGED <<adm, stops>>

-----------------------------------------------------------------------------
(* The admin subcommands *)

AdmGoto(a, pc) == adm' = [adm EXCEPT ![a] = pc]

(* create_service fails without a binary or the rights, and if the service  *)
(* exists, also one marked for deletion; the description comes after it.    *)
install_service(a) ==
    /\ adm[a] = "idle"
    /\ \/ scm' = scm /\ AdmGoto(a, "failed")
       \/ /\ ~scm.installed
          /\ scm' = [NoService EXCEPT !.installed = TRUE]
          /\ \E r \in {"done", "failed"} : AdmGoto(a, r)
    /\ UNCHANGED <<proc, port, stops>>

(* uninstall_service: a service that is not there is fine. *)
OpenService(a) ==
    /\ adm[a] = "idle"
    /\ \E r \in {"failed", IF scm.installed THEN "opened" ELSE "done"} : AdmGoto(a, r)
    /\ UNCHANGED <<scm, proc, port, stops>>

(* With the service open: the status is asked for and, unless it is Stopped *)
(* or the query fails, a Stop is requested and half a second waited.  The   *)
(* SCM refuses the Stop while the service starts, and may fail it at any    *)
(* time; whatever came of it, the deletion is next.                         *)
RequestStop(a) ==
    /\ adm[a] = "opened"
    /\ DeliverStop \/ UNCHANGED <<scm, proc, stops>>
    /\ AdmGoto(a, "waited")
    /\ UNCHANGED port

(* delete marks the service, whatever its status; it fails on one that is   *)
(* marked, and may fail for reasons of the SCM's own.                       *)
DeleteService(a) ==
    /\ adm[a] = "waited"
    /\ \/ /\ ~scm.marked
          /\ scm' = [scm EXCEPT !.marked = TRUE]
          /\ AdmGoto(a, "done")
       \/ scm' = scm /\ AdmGoto(a, "failed")
    /\ UNCHANGED <<proc, port, stops>>

-----------------------------------------------------------------------------
ServiceStep(p) ==
    \/ ReportRunning(p) \/ StartFails(p) \/ Bind(p) \/ ListenerFails(p)
    \/ EnterAcceptLoop(p) \/ LeaveAcceptLoop(p) \/ AcceptConnection(p)
    \/ ReportStopped(p) \/ ProcessEnds(p)

AdminStep(a) == install_service(a) \/ OpenService(a) \/ RequestStop(a) \/ DeleteService(a)

Next ==
    \/ ScmStop \/ ScmRemove
    \/ \E p \in Process : ScmStart(p) \/ ServiceStep(p) \/ Crash(p) \/ Connect(p)
    \/ \E a \in Admin : AdminStep(a)

Spec == Init /\ [][Next]_vars

(* run_service goes on by itself, so does uninstall-service once it has the *)
(* service open, and the SCM removes what it may.  Nothing is assumed about *)
(* phones and users.                                                        *)
Fairness ==
    /\ \A p \in Process : WF_vars(ServiceStep(p))
    /\ \A a \in Admin : WF_vars(RequestStop(a) \/ DeleteService(a))
    /\ WF_vars(ScmRemove)

FairSpec == Spec /\ Fairness

-----------------------------------------------------------------------------
Places == {"none", "launched", "mute", "running", "bound", "accepting",
           "returned", "reported", "gone"}

(* The types, and that the port is held exactly from bind to the end of     *)
(* block_on.                                                                *)
ServiceTypeOK ==
    /\ scm.status \in {"Stopped", "StartPending", "Running"}
    /\ scm.current \in Process \cup {NoProc}
    /\ scm.status = "Stopped" <=> scm.current = NoProc
    /\ scm.marked => scm.installed
    /\ \A p \in Process :
         /\ proc[p].pc \in Places
         /\ port = p <=> proc[p].pc \in {"bound", "accepting"}
    /\ port \in Process \cup {NoProc}
    /\ \A a \in Admin : adm[a] \in {"idle", "opened", "waited", "done", "failed"}

(* Once the SCM shows Stopped, no process of the service holds the port or  *)
(* takes connections, so that a restart can bind.                           *)
StoppedIsClosed == scm.status = "Stopped" => port = NoProc

(* The service exits with code 0 only if it was asked to stop: a listener   *)
(* that ends by itself is an error.                                         *)
CleanExitWasAsked ==
    \A p \in Process : proc[p].pc = "returned" /\ proc[p].ok => p \in stops

(* A Stop is never lost: however early it comes - before the bind, while    *)
(* the keystore is loaded - however startup ends and however many phones    *)
(* keep connecting, the service stops.                                      *)
StopIsServed ==
    \A p \in Process : p \in stops ~> proc[p].pc \in {"reported", "gone"}

(* A service that uninstall-service marks while it has a Stop to serve is   *)
(* removed.                                                                 *)
DeleteCompletes ==
    scm.marked /\ scm.current \in stops ~> ~scm.installed
=============================================================================
