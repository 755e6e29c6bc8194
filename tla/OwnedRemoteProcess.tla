-------------------------- MODULE OwnedRemoteProcess --------------------------
(***************************************************************************)
(* One ssh_wrapper.OwnedRemoteProcess object (remote_process.py): the      *)
(* private _start, _close and _heartbeat tasks, the two tasks that drain   *)
(* the output, any number of caller tasks that invoke start(), wait() and  *)
(* close() and may be cancelled at every await, and the local channel, the *)
(* ssh client process through which the remote supervisor is reached.      *)
(*                                                                         *)
(* The RemoteSupervisor at the other end and the lease between the two are *)
(* LeasedProcess; master.ensure_ready() is OpenSSHMaster.  spawn_owned and *)
(* stop_group are OwnedHelper, of which the steps that matter here remain. *)
(***************************************************************************)
EXTENDS EventLoop

CONSTANTS Callers,        \* tasks of the application that share the object
          ReapMayTimeOut  \* may a SIGKILLed child stay unreaped past its bound?

ASSUME CallersAssumption == {"start", "close"} \cap Callers = {}
ASSUME FaultsAssumption  == ReapMayTimeOut \in BOOLEAN

VARIABLES
  startPc,      \* where the _start task awaits, or how it ended
  closePc,      \* where the _close task awaits
  closeFailed,  \* an exception is on its way out of _close
  callerPc,     \* which await of which method each caller is in
  result,       \* what each caller's last call came to
  channel,      \* the ssh client process; "exited" once asyncio has reaped it
  signalled,    \* stop_group has begun on its process group
  stdin,        \* the pipe that carries the heartbeats
  beat,         \* the _heartbeat task
  drains,       \* the output readers; "cut" if cancelled before end of file
  lateSpawn     \* history: the channel was spawned after close() was called

tasks   == <<startPc, closePc, closeFailed>>
clients == <<callerPc, result>>
pipes   == <<stdin, beat, drains>>
process == <<channel, signalled, lateSpawn>>
vars    == <<tasks, clients, ready, interrupted, pipes, process>>

Init ==
  /\ startPc = "absent" /\ closePc = "absent" /\ closeFailed = FALSE
  /\ callerPc = [c \in Callers |-> "idle"] /\ result = [c \in Callers |-> "none"]
  /\ interrupted = [t \in Callers \cup {"start"} |-> FALSE] /\ ready = <<>>
  /\ channel = "none" /\ signalled = FALSE /\ lateSpawn = FALSE
  /\ stdin = "none" /\ beat = "none" /\ drains = "none"

StartDone == startPc \in {"ok", "failed"}

\* self.process is set: by the last step of _start, with the tasks it creates.
Adopted == startPc = "ok"

\* stop_group is over: the channel is reaped, or killed and not reaped in time.
Stopped == channel \in {"exited", "failed"} \/ (signalled /\ ReapMayTimeOut)

(***************************************************************************)
(* Callers: start(), wait() and close().                                   *)
(***************************************************************************)
Goes(c, pc, r) ==
  callerPc' = [callerPc EXCEPT ![c] = pc] /\ result' = [result EXCEPT ![c] = r]

StartAllowed == startPc = "absent" /\ closePc = "absent"

Start(c) ==
  /\ callerPc[c] = "idle" /\ StartAllowed /\ startPc' = "created"
  /\ Goes(c, "starting", "none") /\ Awaken("start", "ok")
  /\ UNCHANGED <<closePc, closeFailed, interrupted, pipes, process>>

\* close(): the first call creates the one _close task; queue is what is left
\* of the ready queue when the caller's own step came from it.
JoinClose(c, pc, queue) ==
  /\ Goes(c, pc, "none")
  /\ IF closePc = "absent"
     THEN closePc' = "created" /\ ready' = Append(queue, Resume("close", "ok"))
     ELSE ready' = queue /\ UNCHANGED closePc
  /\ UNCHANGED <<startPc, closeFailed, pipes, process>>

Close(c) ==
  callerPc[c] = "idle" /\ JoinClose(c, "closing", ready) /\ UNCHANGED interrupted

Wait(c) ==
  /\ callerPc[c] = "idle" /\ Adopted /\ Goes(c, "waiting", "none")
  /\ UNCHANGED <<tasks, ready, interrupted, pipes, process>>

Refused(c) ==
  /\ callerPc[c] = "idle" /\ (~StartAllowed \/ ~Adopted) /\ Goes(c, "idle", "refused")
  /\ UNCHANGED <<tasks, ready, interrupted, pipes, process>>

\* start() after its shielded wait on _start: back, or close and then raise.
StartReturns(c) ==
  /\ callerPc[c] = "starting"
  /\ \/ /\ startPc = "ok" /\ ~interrupted[c] /\ Runs(c, {"ok"}) /\ Goes(c, "idle", "started")
        /\ UNCHANGED <<tasks, interrupted, pipes, process>>
     \/ /\ (startPc = "failed" \/ interrupted[c]) /\ Resumes(c, {"ok"})
        /\ JoinClose(c, "failing", Tail(ready)) /\ Ack(c)

Completed_OnlySuccess(c) == closePc = "done" /\ ~closeFailed

Completed_Interruptible(c) == closePc = "done" \/ interrupted[c]

\* complete_task: a wait for the _close task ends only when that task is done.
Completed(c) == closePc = "done"

CloseReturns(c) ==
  /\ callerPc[c] \in {"failing", "closing"} /\ Completed(c) /\ Runs(c, {"ok"})
  /\ Goes(c, "idle", IF callerPc[c] = "failing" THEN "failed" ELSE "closed")
  /\ Ack(c) /\ UNCHANGED <<tasks, pipes, process>>

CutDrains == drains' = IF drains = "running" THEN "cut" ELSE drains

FinishDrains_Unbounded(outcome) == drains # "running" /\ UNCHANGED drains

\* The output is at its end, or its time is up and its readers are cancelled.
FinishDrains(outcome) ==
  IF outcome = "ok" THEN drains # "running" /\ UNCHANGED drains ELSE CutDrains

WaitCancelled_Finishes(c) == CutDrains

\* A cancelled wait() leaves the output readers alone.
WaitCancelled(c) == UNCHANGED drains

\* wait(): the channel has exited; then finish_tasks, or a cancellation.
WaitReturns(c) ==
  /\ callerPc[c] \in {"waiting", "finishing"} /\ Ack(c)
  /\ \/ interrupted[c] /\ Runs(c, {"ok", "fail"}) /\ Goes(c, "idle", "cancelled") /\ WaitCancelled(c)
     \/ /\ ~interrupted[c] /\ callerPc[c] = "waiting" /\ channel = "exited" /\ Runs(c, {"ok"})
        /\ Goes(c, "finishing", "none") /\ UNCHANGED drains
     \/ /\ ~interrupted[c] /\ callerPc[c] = "finishing" /\ Runs(c, {"ok", "fail"})
        /\ FinishDrains(Head(ready).outcome) /\ Goes(c, "idle", "status")
  /\ UNCHANGED <<tasks, stdin, beat, process>>

Cancel(c) ==
  /\ callerPc[c] # "idle" /\ ~interrupted[c]
  /\ interrupted' = [interrupted EXCEPT ![c] = TRUE]
  /\ UNCHANGED <<tasks, clients, ready, pipes, process>>

\* The await of caller c can return.
CallerAwakes(c) ==
  /\ \/ callerPc[c] = "starting" /\ (StartDone \/ interrupted[c]) /\ Awaken(c, "ok")
     \/ callerPc[c] \in {"failing", "closing"} /\ Completed(c) /\ Awaken(c, "ok")
     \/ callerPc[c] = "waiting" /\ (channel = "exited" \/ interrupted[c]) /\ Awaken(c, "ok")
     \/ callerPc[c] = "finishing" /\ (drains # "running" \/ interrupted[c]) /\ Awaken(c, "ok")
     \/ callerPc[c] = "finishing" /\ Awaken(c, "fail")
  /\ UNCHANGED <<tasks, clients, interrupted, pipes, process>>

(***************************************************************************)
(* The _start task.                                                        *)
(***************************************************************************)
\* A cancellation before its first step, in ensure_ready() or in the recovery.
StartRaises ==
  /\ \/ startPc = "created" /\ Runs("start", {"ok"})
     \/ startPc = "check" /\ Runs("start", {"ok", "fail"})
     \/ startPc = "spawn" /\ ~interrupted["start"] /\ channel = "failed" /\ Runs("start", {"ok"})
     \/ startPc = "recover" /\ Stopped /\ Runs("start", {"ok"})
  /\ startPc' = "failed"
  /\ UNCHANGED <<closePc, closeFailed, clients, interrupted, pipes, process>>

StartChecks ==
  /\ startPc = "created" /\ ~interrupted["start"] /\ Runs("start", {"ok"}) /\ startPc' = "check"
  /\ UNCHANGED <<closePc, closeFailed, clients, interrupted, pipes, process>>

\* The master is ready: the creation of the ssh client begins.
StartSpawns ==
  /\ startPc = "check" /\ ~interrupted["start"] /\ Runs("start", {"ok"})
  /\ startPc' = "spawn" /\ channel' = "spawning"
  /\ lateSpawn' = (lateSpawn \/ closePc # "absent")
  /\ UNCHANGED <<closePc, closeFailed, clients, interrupted, pipes, signalled>>

\* self.process is set; the drains and the heartbeat are created with it.
StartAdopts ==
  /\ startPc = "spawn" /\ ~interrupted["start"] /\ channel \in {"running", "exited"}
  /\ Runs("start", {"ok"}) /\ startPc' = "ok"
  /\ stdin' = "open" /\ beat' = "running" /\ drains' = "running"
  /\ UNCHANGED <<closePc, closeFailed, clients, interrupted, process>>

StartRecovers_Abandons ==
  /\ startPc = "spawn" /\ interrupted["start"] /\ Runs("start", {"ok"}) /\ startPc' = "failed"
  /\ UNCHANGED <<closePc, closeFailed, clients, interrupted, pipes, process>>

\* spawn_owned was cancelled: _reap_cancelled_spawn recovers the child.
StartRecovers ==
  /\ startPc = "spawn" /\ interrupted["start"] /\ Runs("start", {"ok"}) /\ startPc' = "recover"
  /\ UNCHANGED <<closePc, closeFailed, clients, interrupted, pipes, process>>

\* The recovered child has not ended by itself within owner_close_timeout.
RecoverSignals ==
  /\ startPc = "recover" /\ channel = "running" /\ ~signalled /\ signalled' = TRUE
  /\ UNCHANGED <<tasks, clients, ready, interrupted, pipes, channel, lateSpawn>>

StartAwakes ==
  /\ \/ startPc = "check" /\ (Awaken("start", "ok") \/ Awaken("start", "fail"))
     \/ startPc = "spawn" /\ (channel # "spawning" \/ interrupted["start"]) /\ Awaken("start", "ok")
     \/ startPc = "recover" /\ Stopped /\ Awaken("start", "ok")
  /\ UNCHANGED <<tasks, clients, interrupted, pipes, process>>

(***************************************************************************)
(* The _close task.                                                        *)
(***************************************************************************)
\* The lease must not be renewed behind the end of file: the heartbeat task is
\* over before stdin is closed.
CloseStdin ==
  IF Adopted THEN closePc' = "stdin" /\ stdin' = "closed"
             ELSE closePc' = "drain" /\ UNCHANGED stdin

StopHeartbeat_Unawaited ==
  CloseStdin /\ beat' = IF beat = "running" THEN "cancelled" ELSE beat

StopHeartbeat ==
  IF beat = "running" THEN closePc' = "beat" /\ beat' = "cancelled" /\ UNCHANGED stdin
                      ELSE CloseStdin /\ UNCHANGED beat

CancelStartup_Skipped == UNCHANGED interrupted

CancelStartup == interrupted' = [interrupted EXCEPT !["start"] = TRUE]

CloseBegins ==
  /\ closePc = "created" /\ Runs("close", {"ok"})
  /\ IF startPc = "absent" \/ StartDone
     THEN StopHeartbeat /\ UNCHANGED interrupted
     ELSE CancelStartup /\ closePc' = "gather" /\ UNCHANGED <<stdin, beat>>
  /\ UNCHANGED <<startPc, closeFailed, clients, drains, process>>

Gathered_AtOnce == TRUE

\* The wait in asyncio.gather(startup) is over.
Gathered == StartDone

CloseGathers ==
  /\ closePc = "gather" /\ Gathered /\ Runs("close", {"ok"}) /\ StopHeartbeat
  /\ UNCHANGED <<startPc, closeFailed, clients, interrupted, drains, process>>

CloseStopsBeat ==
  /\ closePc = "beat" /\ beat = "over" /\ Runs("close", {"ok"}) /\ CloseStdin
  /\ UNCHANGED <<startPc, closeFailed, clients, interrupted, beat, drains, process>>

\* stdin is flushed, broken or its time is up: wait for the channel, with the
\* remote side's grace, then stop_group.
CloseWaits ==
  /\ closePc \in {"stdin", "exit", "stop"} /\ Runs("close", {"ok", "fail"})
  /\ LET overdue == Head(ready).outcome = "fail" IN
       /\ closePc \in {"exit", "stop"} => overdue \/ channel = "exited"
       /\ closePc' = CASE closePc = "stdin" /\ channel = "running" -> "exit"
                       [] closePc = "exit" /\ overdue -> "stop"
                       [] OTHER -> "drain"
       /\ signalled' = (signalled \/ closePc' = "stop")
       /\ closeFailed' = (closePc = "stop" /\ overdue)
  /\ UNCHANGED <<startPc, clients, interrupted, pipes, channel, lateSpawn>>

CloseEnds ==
  /\ closePc = "drain" /\ Runs("close", {"ok", "fail"}) /\ closePc' = "done"
  /\ FinishDrains(Head(ready).outcome)
  /\ UNCHANGED <<startPc, closeFailed, clients, interrupted, stdin, beat, process>>

\* The wait_for around wait_exit, or the bound of another await, runs out.
CloseOverdue ==
  closePc \in {"stdin", "exit", "drain"} \/ (closePc = "stop" /\ ReapMayTimeOut)

CloseAwakes ==
  /\ \/ closePc = "gather" /\ Gathered /\ Awaken("close", "ok")
     \/ closePc = "beat" /\ beat = "over" /\ Awaken("close", "ok")
     \/ closePc = "stdin" /\ Awaken("close", "ok")
     \/ closePc \in {"exit", "stop"} /\ channel = "exited" /\ Awaken("close", "ok")
     \/ closePc = "drain" /\ drains # "running" /\ Awaken("close", "ok")
     \/ CloseOverdue /\ Awaken("close", "fail")
  /\ UNCHANGED <<tasks, clients, interrupted, pipes, process>>

(***************************************************************************)
(* The heartbeat and the environment.                                      *)
(***************************************************************************)

\* _heartbeat returns: the channel has exited or its pipe is broken.
HeartbeatEnds == beat = "running" /\ (channel = "exited" \/ stdin = "broken")

BeatStops ==
  /\ (HeartbeatEnds \/ beat = "cancelled") /\ beat' = "over"
  /\ UNCHANGED <<tasks, clients, ready, interrupted, stdin, drains, process>>

SpawnEnds ==
  /\ channel = "spawning" /\ channel' \in {"running", "failed"}
  /\ UNCHANGED <<tasks, clients, ready, interrupted, pipes, signalled, lateSpawn>>

ChannelExits ==
  /\ channel = "running" /\ channel' = "exited"
  /\ UNCHANGED <<tasks, clients, ready, interrupted, pipes, signalled, lateSpawn>>

\* The ssh client closes its end of stdin, or its output reaches end of file.
PipesEnd ==
  /\ \/ stdin = "open" /\ stdin' = "broken" /\ UNCHANGED drains
     \/ drains = "running" /\ drains' = "eof" /\ UNCHANGED stdin
  /\ UNCHANGED <<tasks, clients, ready, interrupted, beat, process>>

Run ==
  \/ StartRaises \/ StartChecks \/ StartSpawns \/ StartAdopts \/ StartRecovers
  \/ CloseBegins \/ CloseGathers \/ CloseStopsBeat \/ CloseWaits \/ CloseEnds
  \/ \E c \in Callers : StartReturns(c) \/ CloseReturns(c) \/ WaitReturns(c)

Next ==
  \/ \E c \in Callers : \/ Start(c) \/ Close(c) \/ Wait(c) \/ Refused(c) \/ Cancel(c)
                        \/ CallerAwakes(c)
  \/ Run \/ StartAwakes \/ RecoverSignals \/ CloseAwakes
  \/ BeatStops \/ SpawnEnds \/ ChannelExits \/ PipesEnd

Spec == Init /\ [][Next]_vars

\* The loop runs what is ready and fires its timers, a spawn ends, and what
\* stop_group escalates against dies.  Neither callers nor the channel owe anything.
Fairness ==
  /\ WF_vars(Run) /\ WF_vars(StartAwakes) /\ WF_vars(CloseAwakes) /\ WF_vars(BeatStops)
  /\ \A c \in Callers : WF_vars(CallerAwakes(c))
  /\ WF_vars(RecoverSignals) /\ WF_vars(SpawnEnds) /\ WF_vars(signalled /\ ChannelExits)

FairSpec == Spec /\ Fairness

(***************************************************************************)
(* Properties.                                                             *)
(***************************************************************************)
\* The object's life as its owner sees it.
Phase == CASE closePc = "done" -> "closed"
           [] closePc \notin {"done", "absent"} -> "closing"
           [] closePc = "absent" /\ startPc = "absent" -> "new"
           [] closePc = "absent" /\ startPc = "ok" -> "serving"
           [] OTHER -> "opening"

Held ==
  {r \in {"channel", "beat", "drains"} :
     \/ r = "channel" /\ channel \in {"spawning", "running"} /\ ~(signalled /\ closePc = "done")
     \/ r = "beat" /\ beat \in {"running", "cancelled"}
     \/ r = "drains" /\ drains = "running"}

Spent ==
  {r \in {"channel", "beat", "drains"} :
     \/ r = "channel" /\ channel # "none"
     \/ r = "beat" /\ beat # "none"
     \/ r = "drains" /\ drains # "none"}

Lifecycle == INSTANCE ObjectLifecycle WITH
  Resources <- {"channel", "beat", "drains"}, phase <- Phase, held <- Held, spent <- Spent

\* The object keeps the lifecycle's promise: closing leads to closed, and leaves no
\* task and no process but one that was sent SIGKILL and not reaped in time, also
\* when it overtakes a start at any of its awaits.
KeepsLifecycle == Lifecycle!Spec

\* Type invariant; the pipes and the tasks on them exist exactly once adopted.
TypeOK ==
  /\ startPc \in {"absent", "created", "check", "spawn", "recover", "ok", "failed"}
  /\ closePc \in {"absent", "created", "gather", "beat", "stdin", "exit", "stop", "drain", "done"}
  /\ closeFailed \in BOOLEAN
  /\ callerPc \in [Callers -> {"idle", "starting", "failing", "closing", "waiting", "finishing"}]
  /\ result \in [Callers -> {"none", "started", "failed", "refused", "cancelled", "closed", "status"}]
  /\ interrupted \in [Callers \cup {"start"} -> BOOLEAN]
  /\ ready \in Seq([task : Callers \cup {"start", "close"}, outcome : {"ok", "fail"}])
  /\ channel \in {"none", "spawning", "failed", "running", "exited"}
  /\ signalled \in BOOLEAN /\ lateSpawn \in BOOLEAN
  /\ stdin \in {"none", "open", "broken", "closed"}
  /\ beat \in {"none", "running", "cancelled", "over"} /\ drains \in {"none", "running", "eof", "cut"}
  /\ (stdin = "none") = ~Adopted /\ (beat = "none") = ~Adopted /\ (drains = "none") = ~Adopted

\* When _close is done, failed or not, no task of the object is left; the channel
\* has ended or was at least sent SIGKILL, also one that only a cancelled spawn
\* ever had a handle of.
CloseReleases ==
  closePc = "done" =>
    /\ startPc \in {"absent", "ok", "failed"}
    /\ beat \in {"none", "over"} /\ drains # "running" /\ stdin \in {"none", "closed"}
    /\ channel \in {"none", "failed", "exited"} \/ (channel = "running" /\ signalled)

\* A start() that failed and a close(), cancelled or not, however often, reach
\* their caller only after the shared cleanup is over.
ReturnsAfterCleanup ==
  \A c \in Callers : result[c] \in {"failed", "closed"} => closePc = "done"

\* No frame can follow the end of file that tells the supervisor to stop.
NoBeatAfterEof == stdin = "closed" => beat \in {"none", "over"}

\* A channel spawned after close() was called never becomes the object's channel:
\* the cancellation that _close delivers always precedes its adoption.
LateSpawnNotAdopted == lateSpawn => ~Adopted

\* Concurrent starts and starts after a failure or a close spawn one channel.
OneChannel == [][channel' = "spawning" => channel \in {"none", "spawning"}]_vars

\* The output of a channel that runs is read on, whoever waits for it and is
\* cancelled, until close() was called.
WaitOnlyObserves ==
  [][drains = "running" /\ drains' = "cut" => channel = "exited" \/ closePc # "absent"]_vars

\* start() and close() return to their callers.
CallsReturn ==
  \A c \in Callers :
    callerPc[c] \in {"starting", "failing", "closing"} ~> callerPc[c] = "idle"

\* wait() returns once the channel has exited, also to a second waiter.
WaitsReturn ==
  \A c \in Callers : callerPc[c] = "waiting" /\ channel = "exited" ~> callerPc[c] = "idle"
=============================================================================
