---------------------------- MODULE ServiceProofs ---------------------------
(***************************************************************************)
(* Proofs about the Windows service, for any number of launches and admin  *)
(* processes.                                                              *)
(***************************************************************************)
EXTENDS Service, TLAPS

Status == {"Stopped", "StartPending", "Running"}

ScmRecord == [installed : BOOLEAN, marked : BOOLEAN, status : Status,
              current : Process \cup {NoProc}, exit : {0, 1}]

ProcRecord == [pc : Places, sent : BOOLEAN, ok : BOOLEAN, waiting : BOOLEAN]

AdminPlaces == {"idle", "opened", "waited", "done", "failed"}

Types == /\ scm \in ScmRecord
         /\ proc \in [Process -> ProcRecord]
         /\ port \in Process \cup {NoProc}
         /\ adm \in [Admin -> AdminPlaces]
         /\ stops \subseteq Process

\* From its launch until it reports Stopped, a process is the SCM's service.
Active == {"launched", "mute", "running", "bound", "accepting", "returned"}

(* At most one process runs, and the SCM knows it. *)
OneService == \A p \in Process : proc[p].pc \in Active => scm.current = p

(* The SCM's status fits its process, and it loses no service that runs. *)
StatusFits == /\ scm.status = "Stopped" <=> scm.current = NoProc
              /\ scm.marked => scm.installed
              /\ ~scm.installed => scm.status = "Stopped"

PortFits == \A p \in Process : port = p <=> proc[p].pc \in {"bound", "accepting"}

(* The oneshot has a value only if the SCM delivered a Stop. *)
SignalWasAsked == \A p \in Process : proc[p].sent => p \in stops

(* A service somebody has open is not removed. *)
HandleKeeps == \A a \in Admin : adm[a] \in {"opened", "waited"} => scm.installed

ServiceInv == /\ Types
              /\ OneService
              /\ StatusFits
              /\ PortFits
              /\ SignalWasAsked
              /\ CleanExitWasAsked
              /\ HandleKeeps

(* A machine on which no process of the service runs. *)
LEMMA ServiceInitInv == Init => ServiceInv
  <1> SUFFICES ASSUME Init PROVE ServiceInv
    OBVIOUS
  <1>1. /\ NoProcess \in ProcRecord
        /\ NoProcess.pc = "none"
        /\ ~NoProcess.sent
    BY DEF NoProcess, ProcRecord, Places
  <1>2. \A p \in Process : proc[p] = NoProcess
    BY DEF Init
  <1>3. /\ scm \in ScmRecord
        /\ scm.status = "Stopped" /\ scm.current = NoProc /\ ~scm.marked
    <2>1. NoService \in ScmRecord /\ NoService.status = "Stopped"
          /\ NoService.current = NoProc /\ ~NoService.marked
      BY DEF NoService, ScmRecord, Status
    <2>2. CASE scm = NoService
      BY <2>1, <2>2
    <2>3. CASE scm = [NoService EXCEPT !.installed = TRUE]
      BY <2>1, <2>3 DEF ScmRecord
    <2> QED BY <2>2, <2>3 DEF Init
  <1>4. Types
    BY <1>1, <1>3 DEF Init, Types, AdminPlaces
  <1>5. OneService /\ SignalWasAsked /\ CleanExitWasAsked
    BY <1>1, <1>2 DEF OneService, SignalWasAsked, CleanExitWasAsked, Active
  <1>6. PortFits
    BY <1>1, <1>2, ServiceAssumption DEF Init, PortFits
  <1>7. HandleKeeps
    BY DEF Init, HandleKeeps
  <1>8. StatusFits
    BY <1>3 DEF StatusFits
  <1> QED BY <1>4, <1>5, <1>6, <1>7, <1>8 DEF ServiceInv

(* The SCM launches a process only when none runs. *)
LEMMA ScmStartInv ==
    ASSUME ServiceInv, NEW p \in Process, ScmStart(p)
    PROVE  ServiceInv'
  <1>1. /\ scm.installed /\ scm.status = "Stopped" /\ scm.current = NoProc
        /\ proc[p].pc = "none"
        /\ scm' = [scm EXCEPT !.status = "StartPending", !.current = p]
        /\ proc' = [proc EXCEPT ![p].pc = "launched"]
        /\ UNCHANGED <<port, adm, stops>>
    BY DEF ScmStart, ServiceInv, StatusFits
  <1>2. \A q \in Process : proc[q].pc \notin Active
    BY <1>1, ServiceAssumption DEF ServiceInv, OneService
  <1>3. Types'
    BY <1>1 DEF ServiceInv, Types, ScmRecord, ProcRecord, Status, Places
  <1>4. OneService'
    BY <1>1, <1>2 DEF ServiceInv, Types, ProcRecord, ScmRecord, OneService
  <1>5. StatusFits'
    BY <1>1, ServiceAssumption DEF ServiceInv, Types, ScmRecord, StatusFits
  <1>6. PortFits' /\ SignalWasAsked' /\ CleanExitWasAsked'
    BY <1>1 DEF ServiceInv, Types, ProcRecord, PortFits, SignalWasAsked, CleanExitWasAsked
  <1>7. HandleKeeps'
    BY <1>1 DEF ServiceInv, Types, ScmRecord, HandleKeeps
  <1> QED BY <1>3, <1>4, <1>5, <1>6, <1>7 DEF ServiceInv

(* A Stop sets the oneshot of a process it was delivered to, and nothing    *)
(* else.                                                                    *)
LEMMA DeliverStopInv ==
    ASSUME ServiceInv, DeliverStop, port' = port, adm' \in [Admin -> AdminPlaces],
           HandleKeeps'
    PROVE  ServiceInv'
  <1> DEFINE p == scm.current
  <1>1. p \in Process
    BY DEF DeliverStop, ServiceInv, Types, ScmRecord, StatusFits
  <1>2. /\ proc' = [proc EXCEPT ![p].sent = @ \/ Signal(p)]
        /\ stops' = stops \cup {p}
        /\ scm' = scm
    BY DEF DeliverStop, StatusAfterStop
  <1> HIDE DEF p
  <1>3. proc' = [proc EXCEPT ![p].sent = TRUE]
    BY <1>1, <1>2 DEF Signal, ServiceInv, Types, ProcRecord
  <1>4. Types'
    BY <1>1, <1>2, <1>3, ZenonT(30) DEF ServiceInv, Types, ProcRecord
  <1>5. \A q \in Process : proc'[q].pc = proc[q].pc /\ proc'[q].ok = proc[q].ok
    BY <1>3 DEF ServiceInv, Types, ProcRecord
  <1>6. OneService' /\ StatusFits' /\ PortFits' /\ CleanExitWasAsked'
    BY <1>2, <1>5 DEF ServiceInv, OneService, StatusFits, PortFits, CleanExitWasAsked
  <1>7. SignalWasAsked'
    BY <1>1, <1>2, <1>3 DEF ServiceInv, Types, ProcRecord, SignalWasAsked
  <1> QED BY <1>4, <1>6, <1>7 DEF ServiceInv

(* The steps of run_service that change neither the status nor the port. *)
LEMMA GotoInv ==
    ASSUME ServiceInv, NEW p \in Process, NEW pc \in Places, Goto(p, pc),
           UNCHANGED <<scm, port, adm, stops>>,
           pc \in Active => proc[p].pc \in Active,
           pc \in {"bound", "accepting"} <=> proc[p].pc \in {"bound", "accepting"},
           pc # "returned"
    PROVE  ServiceInv'
  <1>1. Types'
    BY DEF Goto, ServiceInv, Types, ProcRecord
  <1>2. \A q \in Process : /\ proc'[q].pc = (IF q = p THEN pc ELSE proc[q].pc)
                           /\ proc'[q].ok = proc[q].ok /\ proc'[q].sent = proc[q].sent
    BY DEF Goto, ServiceInv, Types, ProcRecord
  <1>3. OneService' /\ StatusFits' /\ SignalWasAsked' /\ CleanExitWasAsked'
    BY <1>2 DEF ServiceInv, OneService, StatusFits, SignalWasAsked, CleanExitWasAsked
  <1>4. PortFits'
    BY <1>2 DEF ServiceInv, PortFits
  <1>5. HandleKeeps'
    BY DEF ServiceInv, Types, ScmRecord, HandleKeeps
  <1> QED BY <1>1, <1>3, <1>4, <1>5 DEF ServiceInv

(* Running is reported by the process the SCM waits for. *)
LEMMA ReportRunningInv ==
    ASSUME ServiceInv, NEW p \in Process, ReportRunning(p)
    PROVE  ServiceInv'
  <1>1. /\ proc[p].pc = "launched"
        /\ scm' = [scm EXCEPT !.status = "Running"]
        /\ proc' = [proc EXCEPT ![p].pc = "running"]
        /\ UNCHANGED <<port, adm, stops>>
    BY DEF ReportRunning, Goto
  <1>2. scm.current = p /\ scm.installed
    BY <1>1, ServiceAssumption DEF ServiceInv, OneService, StatusFits, Active
  <1>3. Types'
    BY <1>1 DEF ServiceInv, Types, ScmRecord, ProcRecord, Status, Places
  <1>4. StatusFits'
    BY <1>1, <1>2, ServiceAssumption DEF ServiceInv, Types, ScmRecord, StatusFits
  <1>5. OneService'
    BY <1>1, <1>2 DEF ServiceInv, Types, ProcRecord, ScmRecord, OneService, Active
  <1>6. PortFits' /\ SignalWasAsked' /\ CleanExitWasAsked'
    BY <1>1 DEF ServiceInv, Types, ProcRecord, PortFits, SignalWasAsked, CleanExitWasAsked
  <1>7. HandleKeeps'
    BY <1>1 DEF ServiceInv, Types, ScmRecord, HandleKeeps
  <1> QED BY <1>3, <1>4, <1>5, <1>6, <1>7 DEF ServiceInv

(* Binding the port. *)
LEMMA BindInv ==
    ASSUME ServiceInv, NEW p \in Process, Bind(p)
    PROVE  ServiceInv'
  <1>1. /\ proc[p].pc = "running"
        /\ port = NoProc /\ port' = p
        /\ proc' = [proc EXCEPT ![p].pc = "bound"]
        /\ UNCHANGED <<scm, adm, stops>>
    BY DEF Bind, Goto
  <1>2. Types'
    BY <1>1 DEF ServiceInv, Types, ProcRecord, Places
  <1>3. OneService' /\ StatusFits' /\ SignalWasAsked' /\ CleanExitWasAsked'
    BY <1>1 DEF ServiceInv, Types, ProcRecord, OneService, StatusFits, SignalWasAsked,
                CleanExitWasAsked, Active
  <1>4. PortFits'
    BY <1>1, ServiceAssumption DEF ServiceInv, Types, ProcRecord, PortFits
  <1>5. HandleKeeps'
    BY <1>1 DEF ServiceInv, Types, ScmRecord, HandleKeeps
  <1> QED BY <1>2, <1>3, <1>4, <1>5 DEF ServiceInv

(* block_on returns, well only if the oneshot had its value. *)
LEMMA BlockOnReturnsInv ==
    ASSUME ServiceInv, NEW p \in Process, NEW ok \in BOOLEAN, BlockOnReturns(p, ok),
           proc[p].pc \in {"running", "bound", "accepting"},
           ok => ShutdownReady(p),
           UNCHANGED <<scm, adm, stops>>
    PROVE  ServiceInv'
  <1>1. /\ proc' = [proc EXCEPT ![p].pc = "returned", ![p].ok = ok]
        /\ port' = IF port = p THEN NoProc ELSE port
    BY DEF BlockOnReturns
  <1>2. Types'
    BY <1>1, ZenonT(30) DEF ServiceInv, Types, ProcRecord, Places
  <1>3. /\ proc'[p].pc = "returned" /\ proc'[p].ok = ok /\ proc'[p].sent = proc[p].sent
        /\ \A q \in Process \ {p} : proc'[q] = proc[q]
    BY <1>1 DEF ServiceInv, Types, ProcRecord
  <1>4. OneService' /\ StatusFits' /\ SignalWasAsked'
    BY <1>3 DEF ServiceInv, OneService, StatusFits, SignalWasAsked, Active
  <1>5. CleanExitWasAsked'
    BY <1>3 DEF ServiceInv, SignalWasAsked, CleanExitWasAsked, ShutdownReady
  <1>6. PortFits'
    BY <1>1, <1>3, ServiceAssumption DEF ServiceInv, Types, PortFits
  <1>7. HandleKeeps'
    BY DEF ServiceInv, Types, ScmRecord, HandleKeeps
  <1> QED BY <1>2, <1>4, <1>5, <1>6, <1>7 DEF ServiceInv

(* Stopped is reported by the process that was running. *)
LEMMA ReportStoppedInv ==
    ASSUME ServiceInv, NEW p \in Process, ReportStopped(p)
    PROVE  ServiceInv'
  <1> DEFINE code == IF proc[p].ok THEN 0 ELSE 1
  <1>1. code \in {0, 1}
    OBVIOUS
  <1>2. /\ proc[p].pc = "returned"
        /\ scm' = [scm EXCEPT !.status = "Stopped", !.current = NoProc, !.exit = code]
        /\ proc' = [proc EXCEPT ![p].pc = "reported"]
        /\ UNCHANGED <<port, adm, stops>>
    BY DEF ReportStopped, Goto
  <1> HIDE DEF code
  <1>3. scm.current = p
    BY <1>2 DEF ServiceInv, OneService, Active
  <1>4. Types'
    BY <1>1, <1>2 DEF ServiceInv, Types, ScmRecord, ProcRecord, Status, Places
  <1>5. \A q \in Process : proc'[q].pc \notin Active
    BY <1>2, <1>3 DEF ServiceInv, Types, ProcRecord, OneService, Active
  <1>6. OneService' /\ StatusFits'
    BY <1>2, <1>5 DEF ServiceInv, Types, ScmRecord, OneService, StatusFits
  <1>7. PortFits' /\ SignalWasAsked' /\ CleanExitWasAsked'
    BY <1>2 DEF ServiceInv, Types, ProcRecord, PortFits, SignalWasAsked, CleanExitWasAsked
  <1>8. HandleKeeps'
    BY <1>2 DEF ServiceInv, Types, ScmRecord, HandleKeeps
  <1> QED BY <1>4, <1>6, <1>7, <1>8 DEF ServiceInv

(* The end of a process, killed or not. *)
LEMMA GoneInv ==
    ASSUME ServiceInv, NEW p \in Process,
           proc' = [proc EXCEPT ![p] = Gone],
           port' = IF port = p THEN NoProc ELSE port,
           scm' = IF scm.current = p
                  THEN [scm EXCEPT !.status = "Stopped", !.current = NoProc, !.exit = 1]
                  ELSE scm,
           UNCHANGED <<adm, stops>>
    PROVE  ServiceInv'
  <1>1. Gone \in ProcRecord /\ Gone.pc = "gone" /\ Gone.sent = FALSE
    BY DEF Gone, NoProcess, ProcRecord, Places
  <1>2. /\ proc'[p].pc = "gone" /\ proc'[p].sent = FALSE
        /\ \A q \in Process \ {p} : proc'[q] = proc[q]
    BY <1>1 DEF ServiceInv, Types
  <1>3. Types'
    BY <1>1 DEF ServiceInv, Types, ScmRecord, Status
  <1>4. scm.current = p => \A q \in Process : proc'[q].pc \notin Active
    BY <1>2 DEF ServiceInv, OneService, Active
  <1>5. OneService'
    BY <1>2, <1>4 DEF ServiceInv, OneService, Active
  <1>6. StatusFits'
    BY DEF ServiceInv, Types, ScmRecord, StatusFits
  <1>7. PortFits'
    BY <1>2, ServiceAssumption DEF ServiceInv, Types, PortFits
  <1>8. SignalWasAsked' /\ CleanExitWasAsked'
    BY <1>2 DEF ServiceInv, SignalWasAsked, CleanExitWasAsked
  <1>9. HandleKeeps'
    BY DEF ServiceInv, Types, ScmRecord, HandleKeeps
  <1> QED BY <1>3, <1>5, <1>6, <1>7, <1>8, <1>9 DEF ServiceInv

(* Phones connect and are accepted. *)
LEMMA WaitingInv ==
    ASSUME ServiceInv, NEW p \in Process, NEW b \in BOOLEAN,
           proc' = [proc EXCEPT ![p].waiting = b],
           UNCHANGED <<scm, port, adm, stops>>
    PROVE  ServiceInv'
  <1>1. Types'
    BY DEF ServiceInv, Types, ProcRecord
  <1>2. \A q \in Process : /\ proc'[q].pc = proc[q].pc /\ proc'[q].ok = proc[q].ok
                           /\ proc'[q].sent = proc[q].sent
    BY DEF ServiceInv, Types, ProcRecord
  <1>3. HandleKeeps'
    BY DEF ServiceInv, Types, ScmRecord, HandleKeeps
  <1> QED BY <1>1, <1>2, <1>3 DEF ServiceInv, OneService, StatusFits, PortFits, SignalWasAsked,
                            CleanExitWasAsked

(* run_service keeps the invariant. *)
LEMMA ServiceStepInv ==
    ASSUME ServiceInv, NEW p \in Process, ServiceStep(p)
    PROVE  ServiceInv'
  <1>1. CASE ReportRunning(p)
    BY <1>1, ReportRunningInv
  <1>2. CASE StartFails(p)
    BY <1>2, GotoInv DEF StartFails, Active, Places
  <1>3. CASE Bind(p)
    BY <1>3, BindInv
  <1>4. CASE ListenerFails(p)
    BY <1>4, BlockOnReturnsInv DEF ListenerFails
  <1>5. CASE EnterAcceptLoop(p)
    BY <1>5, GotoInv DEF EnterAcceptLoop, Active, Places
  <1>6. CASE LeaveAcceptLoop(p)
    <2>1. ShutdownReady(p)
      BY <1>6 DEF LeaveAcceptLoop, Selected
    <2> QED BY <1>6, <2>1, BlockOnReturnsInv DEF LeaveAcceptLoop
  <1>7. CASE AcceptConnection(p)
    BY <1>7, WaitingInv DEF AcceptConnection
  <1>8. CASE ReportStopped(p)
    BY <1>8, ReportStoppedInv
  <1>9. CASE ProcessEnds(p)
    <2>1. proc[p].pc = "reported" /\ proc' = [proc EXCEPT ![p] = Gone]
          /\ UNCHANGED <<scm, port, adm, stops>>
      BY <1>9 DEF ProcessEnds
    <2>2. Gone \in ProcRecord /\ Gone.pc = "gone" /\ Gone.sent = FALSE
      BY DEF Gone, NoProcess, ProcRecord, Places
    <2>3. /\ proc'[p].pc = "gone" /\ proc'[p].sent = FALSE
          /\ \A q \in Process \ {p} : proc'[q] = proc[q]
      BY <2>1, <2>2 DEF ServiceInv, Types
    <2>4. Types'
      BY <2>1, <2>2 DEF ServiceInv, Types
    <2> QED BY <2>1, <2>3, <2>4
            DEF ServiceInv, OneService, StatusFits, PortFits, SignalWasAsked,
                CleanExitWasAsked, HandleKeeps, Active
  <1> QED BY <1>1, <1>2, <1>3, <1>4, <1>5, <1>6, <1>7, <1>8, <1>9 DEF ServiceStep

(* A change of the SCM's record that keeps its process. *)
LEMMA ScmChangeInv ==
    ASSUME ServiceInv, scm' \in ScmRecord, StatusFits', HandleKeeps',
           scm'.current = scm.current,
           adm' \in [Admin -> AdminPlaces], UNCHANGED <<proc, port, stops>>
    PROVE  ServiceInv'
  BY DEF ServiceInv, Types, OneService, PortFits, SignalWasAsked, CleanExitWasAsked

(* install-service creates only what is not there. *)
LEMMA InstallInv ==
    ASSUME ServiceInv, NEW a \in Admin, install_service(a)
    PROVE  ServiceInv'
  <1>1. /\ adm[a] = "idle"
        /\ UNCHANGED <<proc, port, stops>>
        /\ \E r \in {"done", "failed"} : adm' = [adm EXCEPT ![a] = r]
        /\ \/ scm' = scm
           \/ ~scm.installed /\ scm' = [NoService EXCEPT !.installed = TRUE]
    BY DEF install_service, AdmGoto
  <1>2. /\ adm' \in [Admin -> AdminPlaces]
        /\ \A b \in Admin : adm'[b] \in {"opened", "waited"} => adm[b] = adm'[b]
    BY <1>1 DEF ServiceInv, Types, AdminPlaces
  <1>3. CASE scm' = scm
    BY <1>1, <1>2, <1>3, ScmChangeInv DEF ServiceInv, Types, StatusFits, HandleKeeps
  <1>4. CASE ~scm.installed /\ scm' = [NoService EXCEPT !.installed = TRUE]
    <2>1. scm' \in ScmRecord /\ scm'.status = "Stopped" /\ scm'.current = NoProc
          /\ scm'.installed /\ ~scm'.marked
      BY <1>4 DEF NoService, ScmRecord, Status
    <2>2. scm.current = NoProc
      BY <1>4 DEF ServiceInv, StatusFits
    <2>3. StatusFits' /\ HandleKeeps'
      BY <2>1 DEF StatusFits, HandleKeeps
    <2> QED BY <1>1, <1>2, <2>1, <2>2, <2>3, ScmChangeInv
  <1> QED BY <1>1, <1>3, <1>4

(* uninstall-service opens, stops and marks the service. *)
LEMMA UninstallInv ==
    ASSUME ServiceInv, NEW a \in Admin,
           OpenService(a) \/ RequestStop(a) \/ DeleteService(a)
    PROVE  ServiceInv'
  <1>1. CASE OpenService(a)
    <2>1. \E r \in {"failed", IF scm.installed THEN "opened" ELSE "done"} :
            adm' = [adm EXCEPT ![a] = r]
      BY <1>1 DEF OpenService, AdmGoto
    <2>2. adm' \in [Admin -> AdminPlaces]
      BY <2>1 DEF ServiceInv, Types, AdminPlaces
    <2>3. UNCHANGED <<scm, proc, port, stops>>
      BY <1>1 DEF OpenService
    <2>4. HandleKeeps'
      BY <2>1, <2>3 DEF ServiceInv, Types, HandleKeeps
    <2> QED BY <2>2, <2>3, <2>4, ScmChangeInv DEF ServiceInv, Types, StatusFits
  <1>2. CASE RequestStop(a)
    <2>1. adm[a] = "opened" /\ adm' = [adm EXCEPT ![a] = "waited"] /\ port' = port
      BY <1>2 DEF RequestStop, AdmGoto
    <2>2. adm' \in [Admin -> AdminPlaces]
      BY <2>1 DEF ServiceInv, Types, AdminPlaces
    <2>3. scm' = scm
      BY <1>2 DEF RequestStop, DeliverStop, StatusAfterStop
    <2>4. HandleKeeps'
      BY <2>1, <2>3 DEF ServiceInv, Types, HandleKeeps
    <2>5. CASE DeliverStop
      BY <2>1, <2>2, <2>4, <2>5, DeliverStopInv
    <2>6. CASE UNCHANGED <<scm, proc, stops>>
      BY <2>1, <2>2, <2>4, <2>6, ScmChangeInv DEF ServiceInv, Types, StatusFits
    <2> QED BY <1>2, <2>5, <2>6 DEF RequestStop
  <1>3. CASE DeleteService(a)
    <2>1. /\ adm[a] = "waited"
          /\ scm' = [scm EXCEPT !.marked = TRUE] \/ scm' = scm
          /\ \E r \in {"done", "failed"} : adm' = [adm EXCEPT ![a] = r]
          /\ UNCHANGED <<proc, port, stops>>
      BY <1>3 DEF DeleteService, AdmGoto
    <2>2. scm.installed
      BY <2>1 DEF ServiceInv, HandleKeeps
    <2>3. /\ scm' \in ScmRecord /\ scm'.installed /\ scm'.status = scm.status
          /\ scm'.current = scm.current
      BY <2>1, <2>2 DEF ServiceInv, Types, ScmRecord
    <2>4. adm' \in [Admin -> AdminPlaces]
      BY <2>1 DEF ServiceInv, Types, AdminPlaces
    <2>5. StatusFits' /\ HandleKeeps'
      BY <2>3 DEF ServiceInv, StatusFits, HandleKeeps
    <2> QED BY <2>1, <2>3, <2>4, <2>5, ScmChangeInv
  <1> QED BY <1>1, <1>2, <1>3

(* The SCM removes only a service that is stopped and that nobody has open. *)
LEMMA ScmRemoveInv == ServiceInv /\ ScmRemove => ServiceInv'
  <1> SUFFICES ASSUME ServiceInv, ScmRemove PROVE ServiceInv'
    OBVIOUS
  <1>1. /\ scm.status = "Stopped"
        /\ \A a \in Admin : adm[a] \notin {"opened", "waited"}
        /\ scm' = NoService
        /\ UNCHANGED <<proc, port, adm, stops>>
    BY DEF ScmRemove
  <1>2. scm' \in ScmRecord /\ scm'.status = "Stopped" /\ scm'.current = NoProc
        /\ ~scm'.marked
    BY <1>1 DEF NoService, ScmRecord, Status
  <1>3. scm.current = NoProc /\ adm' \in [Admin -> AdminPlaces]
    BY <1>1 DEF ServiceInv, Types, StatusFits
  <1>4. StatusFits' /\ HandleKeeps'
    BY <1>1, <1>2 DEF StatusFits, HandleKeeps
  <1> QED BY <1>1, <1>2, <1>3, <1>4, ScmChangeInv

(* The service, the SCM and the admin subcommands keep the invariant, with  *)
(* crashes and with Stops at any moment (run_service, install_service,      *)
(* uninstall_service).                                                      *)
THEOREM ServiceCorrect == Spec => []ServiceInv
  <1>1. ServiceInv /\ [Next]_vars => ServiceInv'
    <2> SUFFICES ASSUME ServiceInv, [Next]_vars PROVE ServiceInv'
      OBVIOUS
    <2>1. CASE ScmStop
      <3>1. DeliverStop /\ port' = port /\ adm' = adm
        BY <2>1 DEF ScmStop
      <3>2. adm' \in [Admin -> AdminPlaces] /\ HandleKeeps'
        BY <3>1 DEF DeliverStop, StatusAfterStop, ServiceInv, Types, HandleKeeps
      <3> QED BY <3>1, <3>2, DeliverStopInv
    <2>2. CASE ScmRemove
      BY <2>2, ScmRemoveInv
    <2>3. ASSUME NEW p \in Process,
                 ScmStart(p) \/ ServiceStep(p) \/ Crash(p) \/ Connect(p)
          PROVE  ServiceInv'
      <3>1. CASE ScmStart(p)
        BY <3>1, ScmStartInv
      <3>2. CASE ServiceStep(p)
        BY <3>2, ServiceStepInv
      <3>3. CASE Crash(p)
        BY <3>3, GoneInv DEF Crash
      <3>4. CASE Connect(p)
        BY <3>4, WaitingInv DEF Connect
      <3> QED BY <2>3, <3>1, <3>2, <3>3, <3>4
    <2>4. ASSUME NEW a \in Admin, AdminStep(a)
          PROVE  ServiceInv'
      BY <2>4, InstallInv, UninstallInv DEF AdminStep
    <2>5. CASE UNCHANGED vars
      BY <2>5 DEF vars, ServiceInv, Types, OneService, StatusFits, PortFits,
                  SignalWasAsked, CleanExitWasAsked, HandleKeeps
    <2> QED BY <2>1, <2>2, <2>3, <2>4, <2>5 DEF Next
  <1> QED BY <1>1, ServiceInitInv, PTL DEF Spec

(* The types of the service's state, and that the port is held exactly      *)
(* between bind and the end of block_on.                                    *)
THEOREM ServiceTypesHold == Spec => []ServiceTypeOK
  <1>1. ServiceInv => ServiceTypeOK
    BY DEF ServiceInv, Types, ScmRecord, ProcRecord, Status, AdminPlaces, StatusFits,
           PortFits, ServiceTypeOK
  <1> QED BY <1>1, ServiceCorrect, PTL

(* Whenever the SCM shows Stopped the port is free: run_service reports it  *)
(* after block_on has dropped the listener, on every path.                  *)
THEOREM StoppedFreesThePort == Spec => []StoppedIsClosed
  <1>1. ServiceInv => StoppedIsClosed
    <2> SUFFICES ASSUME ServiceInv, scm.status = "Stopped", port # NoProc PROVE FALSE
      BY DEF StoppedIsClosed
    <2>1. port \in Process /\ proc[port].pc \in Active
      BY DEF ServiceInv, Types, PortFits, Active
    <2>2. scm.current = port /\ scm.current = NoProc
      BY <2>1 DEF ServiceInv, OneService, StatusFits
    <2> QED BY <2>2
  <1> QED BY <1>1, ServiceCorrect, PTL

(* The listener ends without an error only when the SCM asked for it.       *)
THEOREM CleanExitsWereAsked == Spec => []CleanExitWasAsked
  <1>1. ServiceInv => CleanExitWasAsked
    BY DEF ServiceInv
  <1> QED BY <1>1, ServiceCorrect, PTL
=============================================================================
