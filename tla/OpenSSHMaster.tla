---------------------------- MODULE OpenSSHMaster ----------------------------
(***************************************************************************)
(* The lifecycle of one ssh_wrapper.OpenSSHMaster object                   *)
(* (ssh_wrapper/connection.py) as the asyncio event loop runs it: the      *)
(* private _start and _close tasks, any number of caller tasks that invoke *)
(* start(), ensure_ready() and close() and may be cancelled at every       *)
(* await, and the environment: the ssh master process, its control socket  *)
(* and its private runtime directory.                                      *)
(*                                                                         *)
(* A task that can go on is appended to the queue of the EventLoop; how    *)
(* long after its future is done is left open, which covers the extra hops *)
(* of asyncio.shield and gather.                                           *)
(*                                                                         *)
(* Every await that owns a subprocess finishes its cleanup first           *)
(* (complete_task), so a cancellation is acted upon when the task next     *)
(* runs.                                                                   *)
(***************************************************************************)
EXTENDS EventLoop

CONSTANTS Callers,         \* tasks of the application that share the object
          ReapMayTimeOut,  \* may a SIGKILLed child stay unreaped past its bound?
          RemoveMayFail    \* may shutil.rmtree of the runtime directory fail?

ASSUME CallersAssumption == "start" \notin Callers /\ "close" \notin Callers
ASSUME FaultsAssumption  == ReapMayTimeOut \in BOOLEAN /\ RemoveMayFail \in BOOLEAN

VARIABLES
  state,        \* self.state
  startPc,      \* where the _start task awaits, or how it ended
  closePc,      \* where the _close task awaits
  raised,       \* the stages of _close that raised: "stop", "drain", "removal"
  callerPc,     \* which await of which method each caller is in
  result,       \* what each caller's last call came to
  adopted,      \* self.process is set
  proc,         \* the ssh master process
  signalled,    \* stop_group has begun on the master's process group
  socket,       \* the control socket exists (the master has authenticated)
  runtime,      \* the private runtime directory
  drain,        \* the task that drains the master's stderr
  lateLaunch    \* history: the master was spawned after close() had begun

object  == <<state, adopted, drain>>
tasks   == <<startPc, closePc, raised, lateLaunch>>
clients == <<callerPc, result>>
loop    == <<interrupted, ready>>
world   == <<proc, signalled, socket, runtime>>
vars    == <<object, tasks, clients, loop, world>>

ConnectionState == {"new", "starting", "ready", "lost", "closing", "closed"}
StartPc  == {"absent", "created", "env", "spawn", "reap", "check", "sleep",
             "drain", "ok", "failed"}
ClosePc  == {"absent", "created", "gather", "exit", "waitexit", "stop", "stop2",
             "drain", "done"}
CallerPc == {"idle", "starting", "failing", "closing", "checking"}
Result   == {"none", "started", "failed", "refused", "ready", "cancelled", "closed"}
Tasks    == Callers \cup {"start", "close"}
Outcome  == {"ok", "fail", "error"}
Wakeup   == [task : Tasks, outcome : Outcome]

Init ==
  /\ state = "new" /\ adopted = FALSE /\ drain = "none"
  /\ startPc = "absent" /\ closePc = "absent" /\ raised = {}
  /\ callerPc = [c \in Callers |-> "idle"] /\ result = [c \in Callers |-> "none"]
  /\ interrupted = [t \in Callers \cup {"start"} |-> FALSE]
  /\ ready = <<>> /\ lateLaunch = FALSE
  /\ proc = "none" /\ signalled = FALSE /\ socket = FALSE /\ runtime = "none"

StartDone  == startPc \in {"ok", "failed"}
MuxAnswers == proc = "running" /\ socket

Completed_Interruptible(c) == closePc = "done" \/ interrupted[c]

\* complete_task: a wait for the _close task ends only when that task is done.
Completed(c) == closePc = "done"

\* A control check of task t ends: the mux answered, it did not (or the helper
\* ran out of its five seconds), or the helper could not be reaped.
ControlEnds(t) ==
  \/ MuxAnswers /\ Awaken(t, "ok")
  \/ Awaken(t, "fail")
  \/ ReapMayTimeOut /\ Awaken(t, "error")

(***************************************************************************)
(* Callers: start(), ensure_ready() and close().                           *)
(***************************************************************************)
Goes(c, pc, r) ==
  callerPc' = [callerPc EXCEPT ![c] = pc] /\ result' = [result EXCEPT ![c] = r]

SingleUse_AgainAfterLoss == state \in {"new", "lost"}

SingleUse == state = "new"

Start_StateUntouched(c) ==
  /\ callerPc[c] = "idle" /\ SingleUse /\ startPc' = "created"
  /\ Goes(c, "starting", "none") /\ Awaken("start", "ok")
  /\ UNCHANGED <<object, closePc, raised, lateLaunch, interrupted, world>>

Start(c) ==
  /\ callerPc[c] = "idle" /\ SingleUse
  /\ state' = "starting" /\ startPc' = "created"
  /\ Goes(c, "starting", "none") /\ Awaken("start", "ok")
  /\ UNCHANGED <<adopted, drain, closePc, raised, lateLaunch, interrupted, world>>

StartRefused(c) ==
  /\ callerPc[c] = "idle" /\ ~SingleUse /\ Goes(c, "idle", "refused")
  /\ UNCHANGED <<object, tasks, loop, world>>

\* close(): the first call creates the one _close task; queue is what is left
\* of the ready queue when the caller's own step came from it.
JoinClose(c, pc, queue) ==
  /\ Goes(c, pc, "none")
  /\ IF closePc = "absent"
     THEN /\ state' = "closing" /\ closePc' = "created"
          /\ ready' = Append(queue, Resume("close", "ok"))
     ELSE ready' = queue /\ UNCHANGED <<state, closePc>>
  /\ UNCHANGED <<adopted, drain, startPc, raised, lateLaunch, world>>

Close(c) ==
  callerPc[c] = "idle" /\ JoinClose(c, "closing", ready) /\ UNCHANGED interrupted

\* start() after its shielded wait on _start.
StartReturns(c) ==
  /\ callerPc[c] = "starting" /\ startPc = "ok" /\ ~interrupted[c] /\ Runs(c, {"ok"})
  /\ Goes(c, "idle", "started")
  /\ UNCHANGED <<object, tasks, interrupted, world>>

\* The start failed, or its caller was cancelled: close, then raise.
StartFails(c) ==
  /\ callerPc[c] = "starting" /\ (startPc = "failed" \/ interrupted[c])
  /\ Resumes(c, {"ok"})
  /\ JoinClose(c, "failing", Tail(ready)) /\ Ack(c)

\* complete_task(self._close_task) returns or raises in close() or in start().
CloseReturns(c) ==
  /\ callerPc[c] \in {"failing", "closing"} /\ Completed(c) /\ Runs(c, {"ok"})
  /\ Goes(c, "idle", IF callerPc[c] = "failing" THEN "failed" ELSE "closed")
  /\ Ack(c) /\ UNCHANGED <<object, tasks, world>>

CheckRefused(c) ==
  /\ callerPc[c] = "idle" /\ state # "ready" /\ Goes(c, "idle", "refused")
  /\ UNCHANGED <<object, tasks, loop, world>>

\* ensure_ready() up to the control check.
Check(c) ==
  /\ callerPc[c] = "idle" /\ state = "ready"
  /\ IF MuxAnswers
     THEN Goes(c, "checking", "none") /\ UNCHANGED state
     ELSE Goes(c, "idle", "refused") /\ state' = "lost"
  /\ UNCHANGED <<adopted, drain, tasks, loop, world>>

StillReady_Assumed == TRUE

\* The state is looked at again after the await.
StillReady == state = "ready"

\* ensure_ready() after the control check.  A cancellation surfaces once the
\* helper is reaped, unless its cleanup raised: that is a TimeoutError, which
\* "except OSError" turns into a failed check.
CheckReturns(c) ==
  /\ callerPc[c] = "checking" /\ Runs(c, Outcome) /\ Ack(c)
  /\ LET answer    == Head(ready).outcome
         cancelled == interrupted[c] /\ answer # "error"
     IN  \/ cancelled /\ Goes(c, "idle", "cancelled") /\ UNCHANGED state
         \/ ~cancelled /\ ~StillReady /\ Goes(c, "idle", "refused") /\ UNCHANGED state
         \/ /\ ~cancelled /\ StillReady
            /\ IF answer = "ok"
               THEN Goes(c, "idle", "ready") /\ UNCHANGED state
               ELSE Goes(c, "idle", "refused") /\ state' = "lost"
  /\ UNCHANGED <<adopted, drain, tasks, world>>

\* The await of caller c can return.
CallerAwakes(c) ==
  /\ \/ callerPc[c] = "starting" /\ (StartDone \/ interrupted[c]) /\ Awaken(c, "ok")
     \/ callerPc[c] \in {"failing", "closing"} /\ Completed(c) /\ Awaken(c, "ok")
     \/ callerPc[c] = "checking" /\ ControlEnds(c)
  /\ UNCHANGED <<object, tasks, clients, interrupted, world>>

\* Task.cancel() on a caller inside one of the three methods.
Cancel(c) ==
  /\ callerPc[c] # "idle" /\ ~interrupted[c]
  /\ interrupted' = [interrupted EXCEPT ![c] = TRUE]
  /\ UNCHANGED <<object, tasks, clients, ready, world>>

(***************************************************************************)
(* The _start task.                                                        *)
(***************************************************************************)
SpawnMaster ==
  /\ startPc' = "spawn" /\ proc' = "spawning"
  /\ lateLaunch' = (lateLaunch \/ closePc # "absent")

\* One turn of the loop in _wait_ready, up to its await.
WaitReadyTurn ==
  startPc' = IF proc = "exited" THEN "drain" ELSE IF socket THEN "check" ELSE "sleep"

\* _create_runtime() and the way into resolve_session_environment(), which
\* returns without an await when the environment is complete.
StartBegins ==
  /\ startPc = "created" /\ ~interrupted["start"] /\ Runs("start", {"ok"})
  /\ \/ /\ runtime' = "present"
        /\ \/ startPc' = "env" /\ UNCHANGED <<proc, lateLaunch>>
           \/ SpawnMaster
     \/ /\ runtime' \in {"none", "present", "removed"} /\ startPc' = "failed"
        /\ UNCHANGED <<proc, lateLaunch>>
  /\ UNCHANGED <<object, closePc, raised, clients, interrupted, signalled, socket>>

\* The environment is resolved; an interrupted probe that cannot be reaped
\* raises TimeoutError, which _run_probe takes for a probe that is not there.
StartResolved ==
  /\ startPc = "env" /\ Runs("start", {"ok"}) /\ (interrupted["start"] => ReapMayTimeOut)
  /\ SpawnMaster /\ Ack("start")
  /\ UNCHANGED <<object, closePc, raised, clients, signalled, socket, runtime>>

\* spawn_owned returned: self.process is set and its stderr is drained.
StartSpawned ==
  /\ startPc = "spawn" /\ ~interrupted["start"] /\ Runs("start", {"ok"})
  /\ proc \in {"running", "exited"} /\ adopted' = TRUE /\ drain' = "running" /\ WaitReadyTurn
  /\ UNCHANGED <<state, closePc, raised, lateLaunch, clients, interrupted, world>>

StartReaps_Abandons ==
  /\ startPc = "spawn" /\ interrupted["start"] /\ Runs("start", {"ok"}) /\ startPc' = "failed"
  /\ UNCHANGED <<object, closePc, raised, lateLaunch, clients, interrupted, world>>

\* spawn_owned was cancelled: the child it is creating is recovered and reaped.
StartReaps ==
  /\ startPc = "spawn" /\ interrupted["start"] /\ Runs("start", {"ok"}) /\ startPc' = "reap"
  /\ UNCHANGED <<object, closePc, raised, lateLaunch, clients, interrupted, world>>

StartPolls ==
  /\ ~interrupted["start"]
  /\ \/ startPc = "sleep" /\ Runs("start", {"ok"}) /\ WaitReadyTurn
     \/ startPc = "check" /\ Runs("start", {"fail"}) /\ startPc' = "sleep"
  /\ UNCHANGED <<object, closePc, raised, lateLaunch, clients, interrupted, world>>

\* The control check answered; state is not looked at.
StartSucceeds ==
  /\ startPc = "check" /\ ~interrupted["start"] /\ Runs("start", {"ok"})
  /\ startPc' = "ok" /\ state' = "ready"
  /\ UNCHANGED <<adopted, drain, closePc, raised, lateLaunch, clients, interrupted, world>>

\* _reap_cancelled_spawn is over: no child came to be, it is reaped, or it has
\* been killed and is still not reaped within the bound.
Reaped == proc \in {"failed", "exited"} \/ (signalled /\ ReapMayTimeOut)

\* _start raises: cancelled, past its deadline, or on an error of its own.
StartRaises ==
  /\ \/ startPc \in {"env", "sleep", "check"} /\ interrupted["start"] /\ Runs("start", Outcome)
     \/ startPc = "env" /\ Runs("start", {"fail"})
     \/ startPc = "spawn" /\ ~interrupted["start"] /\ proc = "failed" /\ Runs("start", {"ok"})
     \/ startPc = "check" /\ Runs("start", {"error"})
     \/ startPc = "reap" /\ Reaped /\ Runs("start", {"ok"})
     \/ startPc = "drain" /\ Runs("start", {"ok"})
  /\ startPc' = "failed" /\ drain' = IF startPc = "drain" THEN "done" ELSE drain
  /\ UNCHANGED <<state, adopted, closePc, raised, lateLaunch, clients, interrupted, world>>

StartAwakes ==
  /\ \/ startPc = "env" /\ (Awaken("start", "ok") \/ (ReapMayTimeOut /\ Awaken("start", "fail")))
     \/ startPc = "spawn" /\ (proc # "spawning" \/ interrupted["start"]) /\ Awaken("start", "ok")
     \/ startPc = "reap" /\ Reaped /\ Awaken("start", "ok")
     \/ startPc = "check" /\ ControlEnds("start")
     \/ startPc \in {"sleep", "drain"} /\ Awaken("start", "ok")
  /\ UNCHANGED <<object, tasks, clients, interrupted, world>>

\* stop_group on the recovered child of a cancelled spawn.
ReapSignals ==
  /\ startPc = "reap" /\ proc = "running" /\ ~signalled /\ signalled' = TRUE
  /\ UNCHANGED <<object, tasks, clients, loop, proc, socket, runtime>>

WaitingForReadiness_Unbounded == FALSE

\* asyncio.timeout(connect_timeout) cancels the task inside _wait_ready.
WaitingForReadiness == startPc \in {"sleep", "check", "drain"}

Deadline ==
  /\ WaitingForReadiness /\ ~interrupted["start"]
  /\ interrupted' = [interrupted EXCEPT !["start"] = TRUE]
  /\ UNCHANGED <<object, tasks, clients, ready, world>>

(***************************************************************************)
(* The _close task.                                                        *)
(***************************************************************************)
\* The body of the outer try, once no startup is left, up to its first await.
Teardown ==
  IF ~adopted \/ proc = "exited" THEN closePc' = "drain" /\ UNCHANGED signalled
  ELSE IF socket THEN closePc' = "exit" /\ UNCHANGED signalled
  ELSE closePc' = "stop" /\ signalled' = TRUE

CancelStartup_Skipped == UNCHANGED interrupted

CancelStartup == interrupted' = [interrupted EXCEPT !["start"] = TRUE]

CloseBegins ==
  /\ closePc = "created" /\ Runs("close", {"ok"})
  /\ IF startPc = "absent" \/ StartDone
     THEN Teardown /\ UNCHANGED interrupted
     ELSE CancelStartup /\ closePc' = "gather" /\ UNCHANGED signalled
  /\ UNCHANGED <<object, startPc, raised, lateLaunch, clients, proc, socket, runtime>>

\* The wait in asyncio.gather(startup) is over.
Gathered == StartDone

CloseGathers ==
  /\ closePc = "gather" /\ Gathered /\ Runs("close", {"ok"}) /\ Teardown
  /\ UNCHANGED <<object, startPc, raised, lateLaunch, clients, interrupted, proc, socket, runtime>>

\* The "exit" operation is over, whatever came of it: wait for the master.
CloseAsked ==
  /\ closePc = "exit" /\ Runs("close", {"ok"}) /\ closePc' = "waitexit"
  /\ UNCHANGED <<object, startPc, raised, lateLaunch, clients, interrupted, world>>

StopRaises == closePc # "waitexit" /\ Head(ready).outcome = "fail"

StageAfterWait_NoneAfterRaise ==
  IF StopRaises THEN "done" ELSE IF proc = "exited" THEN "drain" ELSE "stop"

\* _stop_process in the body of the try and again in its finally, each only if the
\* master is not reaped.  An exception keeps no later stage from running.
StageAfterWait ==
  IF proc = "exited" \/ closePc = "stop2" THEN "drain" ELSE IF closePc = "waitexit" THEN "stop" ELSE "stop2"

\* A wait for the master's exit is over.
CloseWaited ==
  /\ closePc \in {"waitexit", "stop", "stop2"} /\ Runs("close", {"ok", "fail"})
  /\ closePc' = StageAfterWait
  /\ signalled' = (signalled \/ closePc' \in {"stop", "stop2"})
  /\ raised' = IF StopRaises THEN raised \cup {"stop"} ELSE raised
  /\ UNCHANGED <<object, startPc, lateLaunch, clients, interrupted, proc, socket, runtime>>

\* The stderr drain is over, or stop_group raised and it is left behind: remove
\* the runtime directory; only if that does not raise is the state CLOSED.  The code
\* removes a directory of this user only, which one that it made is while it exists.
CloseEnds ==
  /\ closePc = "drain" /\ Runs("close", {"ok", "fail"}) /\ closePc' = "done"
  /\ drain' = IF drain = "running" /\ Head(ready).outcome = "ok" THEN "done" ELSE drain
  /\ \E failed \in SUBSET {"drain", "removal"} :
       /\ "drain" \in failed <=> Head(ready).outcome = "fail"
       /\ raised' = raised \cup failed
       /\ IF "removal" \in failed
          THEN RemoveMayFail /\ runtime = "present" /\ UNCHANGED <<runtime, socket, state>>
          ELSE /\ runtime' = IF runtime = "present" THEN "removed" ELSE runtime
               /\ socket' = FALSE /\ state' = "closed"
  /\ UNCHANGED <<adopted, startPc, lateLaunch, clients, interrupted, proc, signalled>>

ExitOverdue_Never == FALSE

\* wait_for around wait_exit may time out.
ExitOverdue == closePc = "waitexit"

CloseAwakes ==
  /\ \/ closePc = "gather" /\ Gathered /\ Awaken("close", "ok")
     \/ closePc = "exit" /\ Awaken("close", "ok")
     \/ closePc \in {"waitexit", "stop", "stop2"} /\ proc = "exited" /\ Awaken("close", "ok")
     \/ ExitOverdue /\ Awaken("close", "fail")
     \/ closePc \in {"stop", "stop2"} /\ ReapMayTimeOut /\ Awaken("close", "fail")
     \/ closePc = "drain" /\ Awaken("close", "ok")
     \/ /\ closePc = "drain" /\ drain = "running" /\ proc = "running" /\ ReapMayTimeOut
        /\ Awaken("close", "fail")
  /\ UNCHANGED <<object, tasks, clients, interrupted, world>>

(***************************************************************************)
(* The environment: the ssh master and its socket.                         *)
(***************************************************************************)
SpawnEnds ==
  /\ proc = "spawning" /\ proc' \in {"running", "failed"}
  /\ UNCHANGED <<object, tasks, clients, loop, signalled, socket, runtime>>

Authenticates ==
  /\ proc = "running" /\ runtime = "present" /\ ~socket /\ socket' = TRUE
  /\ UNCHANGED <<object, tasks, clients, loop, proc, signalled, runtime>>

SocketVanishes ==
  /\ socket /\ socket' = FALSE
  /\ UNCHANGED <<object, tasks, clients, loop, proc, signalled, runtime>>

MasterExits ==
  /\ proc = "running" /\ proc' = "exited"
  /\ UNCHANGED <<object, tasks, clients, loop, signalled, socket, runtime>>

\* The master's stderr reaches end of file.
DrainEnds ==
  /\ drain = "running" /\ proc = "exited" /\ drain' = "done"
  /\ UNCHANGED <<state, adopted, tasks, clients, loop, world>>

CallerStep(c) ==
  \/ Start(c) \/ StartRefused(c) \/ Close(c) \/ CheckRefused(c) \/ Check(c) \/ Cancel(c)
  \/ CallerAwakes(c)

\* The loop resumes the head of its queue.
Run ==
  \/ StartBegins \/ StartResolved \/ StartSpawned \/ StartReaps \/ StartPolls
  \/ StartSucceeds \/ StartRaises
  \/ CloseBegins \/ CloseGathers \/ CloseAsked \/ CloseWaited \/ CloseEnds
  \/ \E c \in Callers : StartReturns(c) \/ StartFails(c) \/ CloseReturns(c) \/ CheckReturns(c)

Environment ==
  SpawnEnds \/ Authenticates \/ SocketVanishes \/ MasterExits \/ DrainEnds

Next ==
  \/ \E c \in Callers : CallerStep(c)
  \/ Run \/ StartAwakes \/ ReapSignals \/ Deadline \/ CloseAwakes
  \/ Environment

Spec == Init /\ [][Next]_vars

\* What the loop and the operating system do sooner or later: run what is ready,
\* complete what can complete, fire timers, finish a spawn and kill a process
\* group that stop_group escalates against.  Callers owe nothing.
Fairness ==
  /\ WF_vars(Run) /\ WF_vars(StartAwakes) /\ WF_vars(CloseAwakes)
  /\ \A c \in Callers : WF_vars(CallerAwakes(c))
  /\ WF_vars(Deadline) /\ WF_vars(ReapSignals)
  /\ WF_vars(SpawnEnds) /\ WF_vars(signalled /\ MasterExits)

FairSpec == Spec /\ Fairness

(***************************************************************************)
(* Properties.                                                             *)
(***************************************************************************)
\* The object's life as its owner sees it.
Phase == CASE closePc = "done" -> "closed"
           [] closePc \notin {"done", "absent"} -> "closing"
           [] closePc = "absent" /\ startPc = "absent" -> "new"
           [] closePc = "absent" /\ startPc = "ok" -> "serving"
           [] OTHER -> "opening"

Held ==
  {r \in {"process", "runtime", "drain"} :
     \/ r = "process" /\ proc \in {"spawning", "running"}
     \/ r = "runtime" /\ runtime = "present"
     \/ r = "drain" /\ drain = "running"}

Spent ==
  {r \in {"process", "runtime", "drain"} :
     \/ r = "process" /\ proc # "none"
     \/ r = "runtime" /\ runtime # "none"
     \/ r = "drain" /\ drain # "none"}

Lifecycle == INSTANCE ObjectLifecycle WITH
  Resources <- {"process", "runtime", "drain"}, phase <- Phase, held <- Held, spent <- Spent

\* Without environment faults the object keeps the lifecycle's promise: closing
\* is reached once, leads to closed, and leaves no process, no directory and no
\* task, also when it overtakes a start.
KeepsLifecycle == Lifecycle!Spec

\* Type invariant; the object is NEW exactly until one of its tasks exists.
TypeOK ==
  /\ state \in ConnectionState /\ adopted \in BOOLEAN
  /\ drain \in {"none", "running", "done"}
  /\ startPc \in StartPc /\ closePc \in ClosePc
  /\ raised \in SUBSET {"stop", "drain", "removal"} /\ lateLaunch \in BOOLEAN
  /\ callerPc \in [Callers -> CallerPc] /\ result \in [Callers -> Result]
  /\ interrupted \in [Callers \cup {"start"} -> BOOLEAN] /\ ready \in Seq(Wakeup)
  /\ proc \in {"none", "spawning", "failed", "running", "exited"}
  /\ signalled \in BOOLEAN /\ socket \in BOOLEAN
  /\ runtime \in {"none", "present", "removed"}
  /\ (state = "new") <=> (startPc = "absent" /\ closePc = "absent")

\* When _close ends, also if some of its stages raised, every other stage has run: no
\* startup goes on, and the master, also one whose handle only a cancelled spawn ever
\* had, is dead or at least killed.  Only its own failure leaves the directory, and then
\* the state is not CLOSED, and only that of the last stop_group leaves the stderr drain.
CloseReleases ==
  closePc = "done" =>
    /\ startPc \in {"absent", "ok", "failed"}
    /\ proc \in {"none", "failed", "exited"} \/ (proc = "running" /\ signalled)
    /\ runtime = "present" => "removal" \in raised
    /\ (state = "closed") <=> ("removal" \notin raised)
    /\ drain = "running" => "drain" \in raised

\* A start() that failed and a close(), cancelled or not, however often, reach
\* their caller only after the shared cleanup is over.
ReturnsAfterCleanup ==
  \A c \in Callers : result[c] \in {"failed", "closed"} => closePc = "done"

\* A master spawned after close() had begun never becomes the object's master: the
\* cancellation that _close delivers always precedes its adoption.  Until its reap
\* has ended such a child may still reach the server.
NoLateAuthentication == lateLaunch => ~adopted

\* One object launches at most one master, whatever happened to the first.
AuthenticatesOnce == [][proc' = "spawning" => proc \in {"none", "spawning"}]_vars

\* LOST is entered from READY only: no check that was in flight when close()
\* began, or when another check failed, writes it over a later state.
LostOnlyFromReady == [][state' = "lost" => state \in {"ready", "lost"}]_vars

\* CLOSED is final and nothing is acquired any more.
ClosedIsFinal == [][state = "closed" => UNCHANGED <<state, adopted, runtime, startPc>>]_vars

\* Once close() was called the object never shows any other state than CLOSING
\* and then CLOSED.
ClosingIsNotUndone == [][state = "closing" => state' \in {"closing", "closed"}]_vars

\* close() ends, at whatever point of startup or of a control check it came.
CloseCompletes == closePc # "absent" ~> closePc = "done"

\* Every call returns to its caller: no cycle of waits, no lost wake-up.
CallsReturn == \A c \in Callers : callerPc[c] # "idle" ~> callerPc[c] = "idle"
=============================================================================
