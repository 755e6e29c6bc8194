---------------------- MODULE OwnedRemoteProcess_proofs ----------------------
(***************************************************************************)
(* Safety of OwnedRemoteProcess for every set of callers and with or       *)
(* without children that cannot be reaped in time.                         *)
(*                                                                         *)
(* Handover says who is answerable for the channel in each phase of        *)
(* _start: nobody before the spawn, _start while it spawns or recovers,    *)
(* the object once it has adopted it.  Closing says what each phase of     *)
(* _close may rely on: no startup is left, then no heartbeat, then a       *)
(* closed stdin, then a channel that ended or was killed.  Order is about  *)
(* the loop's queue: a start that spawned after close() was called has its *)
(* next wake-up behind that of the _close task, which will cancel it.      *)
(***************************************************************************)
EXTENDS OwnedRemoteProcess, EventLoop_proofs

Tasks   == Callers \cup {"start", "close"}
Outcome == {"ok", "fail"}
Wakeup  == [task : Tasks, outcome : Outcome]

DeadOrKilled ==
  channel \in {"none", "failed", "exited"} \/ (channel = "running" /\ signalled)

Handover ==
  /\ startPc \in {"absent", "created", "check"} => channel = "none"
  /\ startPc \in {"spawn", "recover"} => channel # "none"
  /\ startPc = "spawn" => ~signalled
  /\ startPc = "ok" => channel \in {"running", "exited"}
  /\ startPc = "failed" => DeadOrKilled
  /\ signalled => channel \in {"running", "exited"}

Closing ==
  /\ closePc \in {"beat", "stdin", "exit", "stop", "drain", "done"}
       => startPc \in {"absent", "ok", "failed"}
  /\ closePc \in {"beat", "stdin", "exit", "stop"} => Adopted
  /\ closePc \in {"stdin", "exit", "stop", "drain", "done"}
       => beat \in {"none", "over"} /\ stdin \in {"none", "closed"}
  /\ closePc = "stop" => signalled
  /\ closePc \in {"drain", "done"} => DeadOrKilled
  /\ closePc = "done" => drains # "running"
  /\ closePc \in {"absent", "created", "gather"} => beat # "cancelled"
  /\ closePc \in {"absent", "created", "gather", "beat"} => stdin # "closed"

Finishing ==
  \A c \in Callers : callerPc[c] = "finishing" => channel = "exited"

\* A start that spawned although close() had been called is still to be cancelled by
\* the _close task, which runs before it, or was cancelled.
Order ==
  /\ Single(ready)
  /\ closePc = "absent" => ~Waits(ready, "close") /\ ~lateSpawn
  /\ closePc = "created" => Waits(ready, "close")
  /\ closePc \notin {"absent", "created"} =>
       startPc \in {"absent", "ok", "failed"} \/ interrupted["start"]
  /\ lateSpawn => startPc \in {"spawn", "recover", "failed"}
  /\ lateSpawn /\ startPc = "spawn" /\ ~interrupted["start"] => closePc = "created" /\ Ahead(ready)

IInv == TypeOK /\ Handover /\ Closing /\ Finishing /\ ReturnsAfterCleanup /\ Order

(***************************************************************************)
(* The loop's queue.                                                       *)
(***************************************************************************)
\* What the loop's operations do to the type of its queue.
LEMMA QueueType ==
  ASSUME ready \in Seq(Wakeup)
  PROVE  /\ \A t \in Tasks, o \in Outcome : Resume(t, o) \in Wakeup
         /\ \A t \in Tasks, o \in Outcome : Awaken(t, o) => ready' \in Seq(Wakeup)
         /\ ready # <<>> => Tail(ready) \in Seq(Wakeup) /\ Head(ready) \in Wakeup
         /\ \A t, O : Runs(t, O) => ready' \in Seq(Wakeup)
<1>1. \A t \in Tasks, o \in Outcome : Resume(t, o) \in Wakeup
  BY DEF Resume, Wakeup
<1>2. ready # <<>> => Tail(ready) \in Seq(Wakeup) /\ Head(ready) \in Wakeup
  BY HeadTailProperties
<1>3. \A t \in Tasks, o \in Outcome : Awaken(t, o) => ready' \in Seq(Wakeup)
  BY <1>1, AppendProperties DEF Awaken
<1>4. \A t, O : Runs(t, O) => ready' \in Seq(Wakeup)
  BY <1>2 DEF Runs, Resumes
<1>5. QED  BY <1>1, <1>2, <1>3, <1>4

(***************************************************************************)
(* Types.                                                                  *)
(***************************************************************************)
LEMMA QueueOfType == TypeOK => ready \in Seq(Wakeup)
BY DEF TypeOK, Wakeup, Tasks, Outcome

\* An await that can return changes the queue only.
LEMMA AwakeTypes ==
  ASSUME TypeOK, ready' \in Seq(Wakeup), UNCHANGED <<tasks, clients, interrupted, pipes, process>>
  PROVE  TypeOK'
BY DEF TypeOK, Wakeup, Tasks, Outcome, tasks, clients, pipes, process, Adopted

\* Every step of a caller preserves the types.
LEMMA CallerTypes ==
  ASSUME TypeOK, NEW c \in Callers,
         \/ Start(c) \/ Close(c) \/ Wait(c) \/ Refused(c) \/ Cancel(c) \/ CallerAwakes(c)
         \/ StartReturns(c) \/ CloseReturns(c) \/ WaitReturns(c)
  PROVE  TypeOK'
<1> USE CallersAssumption, QueueType, QueueOfType DEF tasks, clients, pipes, process
<1>0. /\ c \in Tasks /\ "start" \in Tasks /\ "close" \in Tasks /\ {"ok", "fail"} = Outcome
      /\ Wakeup = [task : Callers \cup {"start", "close"}, outcome : {"ok", "fail"}]
  BY DEF Tasks, Outcome, Wakeup
<1>1. CASE Start(c)
  BY <1>0, <1>1 DEF TypeOK, Start, StartAllowed, Goes, Adopted
<1>2. ASSUME NEW pc \in {"failing", "closing"}, NEW queue \in Seq(Wakeup),
             JoinClose(c, pc, queue), interrupted' \in [Callers \cup {"start"} -> BOOLEAN]
      PROVE  TypeOK'
  <2>1. Resume("close", "ok") \in Wakeup
    BY <1>0 DEF TypeOK
  <2>2. Append(queue, Resume("close", "ok")) \in Seq(Wakeup)
    BY <2>1, AppendProperties
  <2>3. ready' \in Seq(Wakeup)
    BY <1>2, <2>2 DEF JoinClose
  <2>4. /\ callerPc' \in [Callers -> {"idle", "starting", "failing", "closing", "waiting", "finishing"}]
        /\ result' \in [Callers -> {"none", "started", "failed", "refused", "cancelled", "closed", "status"}]
    BY <1>2 DEF TypeOK, JoinClose, Goes
  <2>5. QED
    BY <1>0, <1>2, <2>3, <2>4 DEF TypeOK, JoinClose, Adopted
<1>3. CASE Close(c)
  BY <1>2, <1>3 DEF TypeOK, Close
<1>4. CASE Wait(c)
  BY <1>4 DEF TypeOK, Wait, Goes, Adopted
<1>5. CASE Refused(c)
  BY <1>5 DEF TypeOK, Refused, Goes, Adopted
<1>6. CASE Cancel(c)
  BY <1>6 DEF TypeOK, Cancel, Adopted
<1>7. CASE CallerAwakes(c)
  <2>1. ready' \in Seq(Wakeup)
    BY <1>0, <1>7 DEF CallerAwakes
  <2>2. QED  BY <1>7, <2>1, AwakeTypes DEF CallerAwakes
<1>8. CASE StartReturns(c)
  <2>1. CASE startPc = "ok" /\ ~interrupted[c] /\ Runs(c, {"ok"}) /\ Goes(c, "idle", "started")
               /\ UNCHANGED <<tasks, interrupted, pipes, process>>
    BY <1>0, <2>1 DEF TypeOK, Goes, Adopted
  <2>2. CASE Resumes(c, {"ok"}) /\ JoinClose(c, "failing", Tail(ready)) /\ Ack(c)
    <3>1. Tail(ready) \in Seq(Wakeup)
      BY <2>2 DEF Resumes
    <3>2. interrupted' \in [Callers \cup {"start"} -> BOOLEAN]
      BY <2>2 DEF TypeOK, Ack
    <3>3. QED  BY <1>2, <2>2, <3>1, <3>2
  <2>3. QED  BY <1>8, <2>1, <2>2 DEF StartReturns
<1>9. CASE CloseReturns(c)
  BY <1>0, <1>9 DEF TypeOK, CloseReturns, Ack, Goes, Adopted
<1>10. CASE WaitReturns(c)
  <2>1. /\ callerPc' \in [Callers -> {"idle", "starting", "failing", "closing", "waiting", "finishing"}]
        /\ result' \in [Callers -> {"none", "started", "failed", "refused", "cancelled", "closed", "status"}]
    BY <1>10 DEF TypeOK, WaitReturns, Goes
  <2>2. interrupted' \in [Callers \cup {"start"} -> BOOLEAN] /\ ready' \in Seq(Wakeup)
    BY <1>10 DEF TypeOK, WaitReturns, Ack
  <2>3. drains' = drains \/ (drains = "running" /\ drains' = "cut")
    BY <1>10 DEF WaitReturns, WaitCancelled, FinishDrains, CutDrains
  <2>4. QED
    BY <1>0, <1>10, <2>1, <2>2, <2>3 DEF TypeOK, WaitReturns, Adopted
<1>11. QED
  BY <1>1, <1>3, <1>4, <1>5, <1>6, <1>7, <1>8, <1>9, <1>10

\* Every step of the _start task, of the heartbeat and of the environment preserves
\* the types.
LEMMA StartTypes ==
  ASSUME TypeOK,
         \/ StartRaises \/ StartChecks \/ StartSpawns \/ StartAdopts \/ StartRecovers
         \/ StartAwakes \/ RecoverSignals \/ BeatStops \/ SpawnEnds \/ ChannelExits \/ PipesEnd
  PROVE  TypeOK'
<1> USE QueueType, QueueOfType DEF tasks, clients, pipes, process, Adopted
<1>0. /\ "start" \in Tasks /\ {"ok", "fail"} = Outcome
      /\ Wakeup = [task : Callers \cup {"start", "close"}, outcome : {"ok", "fail"}]
  BY DEF Tasks, Outcome, Wakeup
<1>1. CASE StartRaises
  <2>1. ready' \in Seq(Wakeup) /\ startPc # "ok" /\ startPc' = "failed"
    BY <1>1 DEF StartRaises
  <2>2. QED  BY <1>0, <1>1, <2>1 DEF TypeOK, StartRaises
<1>2. CASE StartChecks
  BY <1>0, <1>2 DEF TypeOK, StartChecks
<1>3. CASE StartSpawns
  BY <1>0, <1>3 DEF TypeOK, StartSpawns
<1>4. CASE StartAdopts
  BY <1>0, <1>4 DEF TypeOK, StartAdopts
<1>5. CASE StartRecovers
  BY <1>0, <1>5 DEF TypeOK, StartRecovers
<1>6. CASE StartAwakes
  <2>1. ready' \in Seq(Wakeup)
    BY <1>0, <1>6 DEF StartAwakes
  <2>2. QED  BY <1>6, <2>1, AwakeTypes DEF StartAwakes
<1>7. CASE RecoverSignals
  BY <1>7 DEF TypeOK, RecoverSignals
<1>8. CASE BeatStops
  BY <1>8 DEF TypeOK, BeatStops, HeartbeatEnds
<1>9. CASE SpawnEnds \/ ChannelExits
  BY <1>9 DEF TypeOK, SpawnEnds, ChannelExits
<1>10. CASE PipesEnd
  BY <1>10 DEF TypeOK, PipesEnd
<1>11. QED
  BY <1>1, <1>2, <1>3, <1>4, <1>5, <1>6, <1>7, <1>8, <1>9, <1>10

\* Every step of the _close task preserves the types.
LEMMA CloseTypes ==
  ASSUME TypeOK,
         CloseBegins \/ CloseGathers \/ CloseStopsBeat \/ CloseWaits \/ CloseEnds \/ CloseAwakes
  PROVE  TypeOK'
<1> USE QueueType, QueueOfType DEF tasks, clients, pipes, process, Adopted
<1>0. /\ "close" \in Tasks /\ {"ok", "fail"} = Outcome
      /\ Wakeup = [task : Callers \cup {"start", "close"}, outcome : {"ok", "fail"}]
  BY DEF Tasks, Outcome, Wakeup
<1>1. CASE CloseBegins
  <2>1. ready' \in Seq(Wakeup) /\ closePc' \in {"gather", "beat", "stdin", "drain"}
    BY <1>1 DEF CloseBegins, StopHeartbeat, CloseStdin
  <2>2. interrupted' \in [Callers \cup {"start"} -> BOOLEAN]
    BY <1>1 DEF TypeOK, CloseBegins, CancelStartup
  <2>3. /\ beat' = beat \/ (beat = "running" /\ beat' = "cancelled")
        /\ stdin' = stdin \/ (startPc = "ok" /\ stdin' = "closed")
    BY <1>1 DEF CloseBegins, StopHeartbeat, CloseStdin
  <2>4. QED  BY <1>0, <1>1, <2>1, <2>2, <2>3 DEF TypeOK, CloseBegins
<1>2. CASE CloseGathers
  <2>1. ready' \in Seq(Wakeup) /\ closePc' \in {"beat", "stdin", "drain"}
    BY <1>2 DEF CloseGathers, StopHeartbeat, CloseStdin
  <2>2. /\ beat' = beat \/ (beat = "running" /\ beat' = "cancelled")
        /\ stdin' = stdin \/ (startPc = "ok" /\ stdin' = "closed")
    BY <1>2 DEF CloseGathers, StopHeartbeat, CloseStdin
  <2>3. QED  BY <1>0, <1>2, <2>1, <2>2 DEF TypeOK, CloseGathers
<1>3. CASE CloseStopsBeat
  BY <1>0, <1>3 DEF TypeOK, CloseStopsBeat, CloseStdin
<1>4. CASE CloseWaits
  <2>1. closePc' \in {"exit", "stop", "drain"} /\ ready' \in Seq(Wakeup)
    BY <1>4 DEF CloseWaits, TypeOK
  <2>2. signalled' \in BOOLEAN /\ closeFailed' \in BOOLEAN
    BY <1>4, Zenon DEF CloseWaits, TypeOK
  <2>3. QED  BY <1>0, <1>4, <2>1, <2>2 DEF TypeOK, CloseWaits
<1>5. CASE CloseEnds
  <2>1. drains' = drains \/ (drains = "running" /\ drains' = "cut")
    BY <1>5 DEF CloseEnds, FinishDrains, CutDrains
  <2>2. ready' \in Seq(Wakeup)
    BY <1>5 DEF CloseEnds
  <2>3. QED  BY <1>0, <1>5, <2>1, <2>2 DEF TypeOK, CloseEnds
<1>6. CASE CloseAwakes
  <2>1. ready' \in Seq(Wakeup)
    BY <1>0, <1>6 DEF CloseAwakes
  <2>2. QED  BY <1>6, <2>1, AwakeTypes DEF CloseAwakes
<1>7. QED  BY <1>1, <1>2, <1>3, <1>4, <1>5, <1>6

\* The type invariant; the pipes of the channel and the tasks on them exist exactly
\* once start() has adopted it (remote_process.py, _start).
THEOREM TypeCorrect == Spec => []TypeOK
<1>1. Init => TypeOK
  BY EmptySeq DEF Init, TypeOK, Adopted
<1>2. TypeOK /\ [Next]_vars => TypeOK'
  <2>1. ASSUME TypeOK, Next  PROVE TypeOK'
    BY <2>1, CallerTypes, StartTypes, CloseTypes DEF Next, Run
  <2>2. ASSUME TypeOK, UNCHANGED vars  PROVE TypeOK'
    BY <2>2, QueueOfType, AwakeTypes DEF vars
  <2>3. QED  BY <2>1, <2>2
<1>3. QED  BY <1>1, <1>2, PTL DEF Spec

(***************************************************************************)
(* The inductive invariant.                                                *)
(***************************************************************************)
\* Who is answerable for the channel changes hands as the code intends.
LEMMA HandoverStep ==
  ASSUME TypeOK, Handover, Closing, Next
  PROVE  Handover'
<1> USE DEF tasks, clients, pipes, process
<1>0. ASSUME UNCHANGED <<startPc, process>>  PROVE Handover'
  BY <1>0 DEF Handover, DeadOrKilled
<1>1. ASSUME NEW c \in Callers,
             \/ Close(c) \/ Wait(c) \/ Refused(c) \/ Cancel(c) \/ CallerAwakes(c)
             \/ StartReturns(c) \/ CloseReturns(c) \/ WaitReturns(c)
      PROVE  Handover'
  BY <1>0, <1>1 DEF Close, Wait, Refused, Cancel, CallerAwakes, StartReturns, CloseReturns, WaitReturns,
                    JoinClose
<1>2. ASSUME NEW c \in Callers, Start(c)  PROVE Handover'
  BY <1>2 DEF Start, StartAllowed, Handover, DeadOrKilled
<1>3. CASE StartRaises
  BY <1>3 DEF StartRaises, Stopped, TypeOK, Handover, DeadOrKilled
<1>4. CASE StartChecks \/ StartSpawns
  BY <1>4 DEF StartChecks, StartSpawns, Handover, DeadOrKilled
<1>5. CASE StartAdopts \/ StartRecovers
  BY <1>5 DEF StartAdopts, StartRecovers, Handover, DeadOrKilled
<1>6. CASE RecoverSignals
  BY <1>6 DEF RecoverSignals, Handover, DeadOrKilled
<1>7. CASE CloseWaits
  BY <1>7 DEF CloseWaits, Closing, Adopted, Handover, DeadOrKilled
<1>8. CASE SpawnEnds \/ ChannelExits
  BY <1>8 DEF SpawnEnds, ChannelExits, Handover, DeadOrKilled
<1>9. CASE \/ CloseBegins \/ CloseGathers \/ CloseStopsBeat \/ CloseEnds
           \/ StartAwakes \/ CloseAwakes \/ BeatStops \/ PipesEnd
  BY <1>0, <1>9 DEF CloseBegins, CloseGathers, CloseStopsBeat, CloseEnds, StartAwakes, CloseAwakes,
                    BeatStops, PipesEnd
<1>10. QED
  BY <1>1, <1>2, <1>3, <1>4, <1>5, <1>6, <1>7, <1>8, <1>9 DEF Next, Run

\* _close relies on its phase: no startup once it tears down, no heartbeat behind the
\* end of file, a channel that ended or was killed once it is done.
LEMMA ClosingStep ==
  ASSUME TypeOK, Handover, Closing, Next
  PROVE  Closing'
<1> USE DEF tasks, clients, pipes, process, Adopted
<1>0. ASSUME UNCHANGED <<startPc, closePc, pipes, process>>  PROVE Closing'
  BY <1>0 DEF Closing, DeadOrKilled
<1>1. ASSUME NEW c \in Callers,
             Wait(c) \/ Refused(c) \/ Cancel(c) \/ CallerAwakes(c) \/ CloseReturns(c)
      PROVE  Closing'
  BY <1>0, <1>1 DEF Wait, Refused, Cancel, CallerAwakes, CloseReturns
<1>2. ASSUME NEW c \in Callers, Close(c) \/ StartReturns(c)  PROVE Closing'
  BY <1>2 DEF Close, StartReturns, JoinClose, Closing, DeadOrKilled
<1>3. ASSUME NEW c \in Callers, WaitReturns(c)  PROVE Closing'
  <2>1. drains' = drains \/ drains' = "cut"
    BY <1>3 DEF WaitReturns, WaitCancelled, FinishDrains, CutDrains
  <2>2. QED  BY <1>3, <2>1 DEF WaitReturns, Closing, DeadOrKilled
<1>4. ASSUME NEW c \in Callers, Start(c)  PROVE Closing'
  BY <1>4 DEF Start, StartAllowed, Closing, DeadOrKilled
<1>5. CASE StartRaises \/ StartChecks \/ StartSpawns \/ StartRecovers
  BY <1>5 DEF StartRaises, StartChecks, StartSpawns, StartRecovers, Closing, DeadOrKilled
<1>6. CASE StartAdopts
  BY <1>6 DEF StartAdopts, Closing, DeadOrKilled
<1>7. CASE CloseBegins \/ CloseGathers
  <2>1. closePc \in {"created", "gather"}
    BY <1>7 DEF CloseBegins, CloseGathers
  <2>2. CASE closePc' = "gather"
    BY <1>7, <2>1, <2>2 DEF CloseBegins, CloseGathers, StopHeartbeat, CloseStdin, Closing, DeadOrKilled
  <2>3. CASE closePc' # "gather"
    <3>1. startPc \in {"absent", "ok", "failed"} /\ StopHeartbeat
      BY <1>7, <2>3 DEF CloseBegins, CloseGathers, Gathered, StartDone
    <3>2. QED
      BY <1>7, <2>1, <3>1 DEF CloseBegins, CloseGathers, StopHeartbeat, CloseStdin, TypeOK, Handover,
                              Closing, DeadOrKilled
  <2>4. QED  BY <2>2, <2>3
<1>8. CASE CloseStopsBeat
  BY <1>8 DEF CloseStopsBeat, CloseStdin, TypeOK, Handover, Closing, DeadOrKilled
<1>9. CASE CloseWaits
  <2>1. closePc \in {"stdin", "exit", "stop"} /\ closePc' \in {"exit", "stop", "drain"}
    BY <1>9 DEF CloseWaits
  <2>2. closePc' = "stop" => signalled'
    BY <1>9 DEF CloseWaits
  <2>3. closePc' = "drain" => DeadOrKilled'
    BY <1>9, <2>1 DEF CloseWaits, TypeOK, Handover, Closing, DeadOrKilled
  <2>4. QED  BY <1>9, <2>1, <2>2, <2>3 DEF CloseWaits, Closing
<1>10. CASE CloseEnds
  <2>1. drains' # "running"
    BY <1>10, QueueType, QueueOfType DEF CloseEnds, FinishDrains, CutDrains
  <2>2. QED  BY <1>10, <2>1 DEF CloseEnds, Closing, DeadOrKilled
<1>11. CASE StartAwakes \/ CloseAwakes
  BY <1>0, <1>11 DEF StartAwakes, CloseAwakes
<1>12. CASE RecoverSignals
  BY <1>12 DEF RecoverSignals, Closing, DeadOrKilled
<1>13. CASE BeatStops \/ PipesEnd
  BY <1>13 DEF BeatStops, PipesEnd, Closing, DeadOrKilled
<1>14. CASE SpawnEnds \/ ChannelExits
  BY <1>14 DEF SpawnEnds, ChannelExits, Closing, DeadOrKilled
<1>15. QED
  BY <1>1, <1>2, <1>3, <1>4, <1>5, <1>6, <1>7, <1>8, <1>9, <1>10, <1>11, <1>12, <1>13, <1>14
     DEF Next, Run

\* What the channel and the _close task never undo.
LEMMA Forward ==
  ASSUME Next
  PROVE  /\ channel = "exited" /\ Handover => channel' = "exited"
         /\ closePc = "done" => closePc' = "done"
BY DEF Next, Run, Start, StartAllowed, Close, Wait, Refused, Cancel, CallerAwakes, StartReturns,
       CloseReturns, WaitReturns, JoinClose, StartRaises, StartChecks, StartSpawns, StartAdopts,
       StartRecovers, StartAwakes, RecoverSignals, CloseBegins, CloseGathers, StopHeartbeat,
       CloseStdin, CloseStopsBeat, CloseWaits, CloseEnds, CloseAwakes, BeatStops, SpawnEnds,
       ChannelExits, PipesEnd, Handover, tasks, clients, pipes, process

\* The positions and results of the callers change in their own steps only.
LEMMA CallersMove ==
  ASSUME TypeOK, Next, UNCHANGED clients => FALSE
  PROVE  \E c \in Callers : Start(c) \/ Close(c) \/ Wait(c) \/ Refused(c)
                            \/ StartReturns(c) \/ CloseReturns(c) \/ WaitReturns(c)
BY DEF Next, Run, Cancel, CallerAwakes, StartRaises, StartChecks, StartSpawns, StartAdopts,
       StartRecovers, StartAwakes, RecoverSignals, CloseBegins, CloseGathers, CloseStopsBeat,
       CloseWaits, CloseEnds, CloseAwakes, BeatStops, SpawnEnds, ChannelExits, PipesEnd

\* A waiter reads the output to its end only once the channel has exited.
LEMMA FinishingStep ==
  ASSUME TypeOK, Handover, Finishing, Next
  PROVE  Finishing'
<1> SUFFICES ASSUME NEW d \in Callers, callerPc'[d] = "finishing"  PROVE channel = "exited"
  BY Forward DEF Finishing
<1>1. CASE UNCHANGED clients
  BY <1>1 DEF Finishing, clients
<1>2. ASSUME NEW c \in Callers, NEW pc, NEW r, Goes(c, pc, r), pc # "finishing"
      PROVE  channel = "exited"
  BY <1>2 DEF Goes, TypeOK, Finishing
<1>3. ASSUME NEW c \in Callers,
             Start(c) \/ Close(c) \/ Wait(c) \/ Refused(c) \/ StartReturns(c) \/ CloseReturns(c)
      PROVE  channel = "exited"
  BY <1>2, <1>3 DEF Start, Close, Wait, Refused, StartReturns, CloseReturns, JoinClose
<1>4. ASSUME NEW c \in Callers, WaitReturns(c)  PROVE channel = "exited"
  BY <1>2, <1>4 DEF WaitReturns
<1>5. QED  BY <1>1, <1>3, <1>4, CallersMove

\* Only CloseReturns reports a cleanup, and once _close is done it stays done.
LEMMA ReturnsStep ==
  ASSUME TypeOK, ReturnsAfterCleanup, Next
  PROVE  ReturnsAfterCleanup'
<1> SUFFICES ASSUME NEW d \in Callers, result'[d] \in {"failed", "closed"}  PROVE closePc = "done"
  BY Forward DEF ReturnsAfterCleanup
<1>1. CASE UNCHANGED clients
  BY <1>1 DEF ReturnsAfterCleanup, clients
<1>2. ASSUME NEW c \in Callers, NEW pc, NEW r, Goes(c, pc, r), r \notin {"failed", "closed"}
      PROVE  closePc = "done"
  BY <1>2 DEF Goes, TypeOK, ReturnsAfterCleanup
<1>3. ASSUME NEW c \in Callers,
             Start(c) \/ Close(c) \/ Wait(c) \/ Refused(c) \/ StartReturns(c) \/ WaitReturns(c)
      PROVE  closePc = "done"
  BY <1>2, <1>3 DEF Start, Close, Wait, Refused, StartReturns, WaitReturns, JoinClose
<1>4. ASSUME NEW c \in Callers, CloseReturns(c)  PROVE closePc = "done"
  BY <1>4 DEF CloseReturns, Completed
<1>5. QED  BY <1>1, <1>3, <1>4, CallersMove

\* Order where no task runs: the queue is as it was, or has one more wake-up.
LEMMA OrderKept ==
  ASSUME TypeOK, Order, UNCHANGED <<closePc, lateSpawn>>, interrupted'["start"] = interrupted["start"],
         UNCHANGED startPc \/ (startPc' = "created" /\ closePc = "absent"),
         \/ UNCHANGED ready
         \/ \E t \in Tasks, o \in Outcome :
              Awaken(t, o) /\ (t = "close" => closePc \notin {"absent", "created"})
  PROVE  Order'
<1>1. CASE UNCHANGED ready
  BY <1>1, Zenon DEF Order
<1>2. ASSUME NEW t \in Tasks, NEW o \in Outcome, Awaken(t, o),
             t = "close" => closePc \notin {"absent", "created"}
      PROVE  Order'
  <2>1. ~Waits(ready, t) /\ ready' = Append(ready, Resume(t, o))
    BY <1>2 DEF Awaken, Queued, Waits
  <2>2. /\ Single(ready')
        /\ \A u : u # t => (Waits(ready', u) <=> Waits(ready, u))
        /\ Ahead(ready) /\ (t = "start" => Waits(ready, "close")) => Ahead(ready')
    BY <2>1, Longer, QueueOfType DEF Order
  <2>3. closePc = "absent" => ~Waits(ready', "close")
    BY <1>2, <2>2 DEF Order
  <2>4. closePc = "created" => Waits(ready', "close")
    BY <1>2, <2>2 DEF Order
  <2>5. lateSpawn /\ startPc = "spawn" /\ ~interrupted["start"] => Ahead(ready')
    BY <2>2 DEF Order
  <2>6. lateSpawn => closePc # "absent"
    BY DEF Order
  <2>7. QED  BY <2>2, <2>3, <2>4, <2>5, <2>6, Zenon DEF Order
<1>3. QED  BY <1>1, <1>2

\* Order where the task at the head of the queue runs, other than _start's and _close's.
LEMMA OrderRuns ==
  ASSUME TypeOK, Order, NEW t \in Callers, ready # <<>>, Head(ready).task = t,
         UNCHANGED <<startPc, lateSpawn>>, interrupted'["start"] = interrupted["start"],
         \/ ready' = Tail(ready) /\ UNCHANGED closePc
         \/ /\ closePc = "absent" /\ closePc' = "created"
            /\ ready' = Append(Tail(ready), Resume("close", "ok"))
  PROVE  Order'
<1>0. t # "start" /\ t # "close"
  BY CallersAssumption
<1>1. /\ Single(Tail(ready))
      /\ \A u : u # t => (Waits(Tail(ready), u) <=> Waits(ready, u))
      /\ Ahead(ready) => Ahead(Tail(ready))
  BY <1>0, Shorter, QueueOfType DEF Order
<1>2. CASE ready' = Tail(ready) /\ UNCHANGED closePc
  <2>1. Waits(ready', "close") <=> Waits(ready, "close")
    BY <1>0, <1>1, <1>2
  <2>2. QED  BY <1>1, <1>2, <2>1, Zenon DEF Order
<1>3. CASE closePc = "absent" /\ closePc' = "created" /\ ready' = Append(Tail(ready), Resume("close", "ok"))
  <2>1. ~Waits(Tail(ready), "close") /\ ~lateSpawn
    BY <1>0, <1>1, <1>3 DEF Order
  <2>2. Tail(ready) \in Seq(Wakeup) /\ "close" \in Tasks /\ "ok" \in Outcome
    BY QueueType, QueueOfType DEF Tasks, Outcome
  <2>3. Single(ready') /\ Waits(ready', "close")
    BY <1>1, <1>3, <2>1, <2>2, Longer
  <2>4. QED  BY <1>3, <2>1, <2>3 DEF Order
<1>4. QED  BY <1>2, <1>3

\* Order where the _start task runs.
LEMMA OrderStarts ==
  ASSUME TypeOK, Order, StartRaises \/ StartChecks \/ StartSpawns \/ StartAdopts \/ StartRecovers
  PROVE  Order'
<1> USE DEF process, tasks, pipes
<1>0. ready # <<>> /\ Head(ready).task = "start" /\ ready' = Tail(ready) /\ UNCHANGED <<closePc, interrupted>>
  BY DEF StartRaises, StartChecks, StartSpawns, StartAdopts, StartRecovers, Runs, Resumes
<1>1. /\ Single(ready') /\ ~Waits(ready', "start")
      /\ Waits(ready', "close") <=> Waits(ready, "close")
      /\ ~Ahead(ready)
  BY <1>0, Shorter, QueueOfType DEF Order
<1>2. Ahead(ready')
  BY <1>1 DEF Ahead, Waits
<1>3. CASE StartRaises
  BY <1>0, <1>1, <1>3 DEF StartRaises, Order
<1>4. CASE StartChecks
  BY <1>0, <1>1, <1>4 DEF StartChecks, Order
<1>5. CASE StartSpawns
  BY <1>0, <1>1, <1>2, <1>5 DEF StartSpawns, Order, TypeOK
<1>6. CASE StartAdopts
  <2>1. ~lateSpawn
    BY <1>1, <1>6 DEF StartAdopts, Order
  <2>2. QED  BY <1>0, <1>1, <1>6, <2>1 DEF StartAdopts, Order
<1>7. CASE StartRecovers
  BY <1>0, <1>1, <1>7 DEF StartRecovers, Order
<1>8. QED  BY <1>3, <1>4, <1>5, <1>6, <1>7

\* Order where the _close task runs: its first step delivers the cancellation.
LEMMA OrderCloses ==
  ASSUME TypeOK, Order, CloseBegins \/ CloseGathers \/ CloseStopsBeat \/ CloseWaits \/ CloseEnds
  PROVE  Order'
<1> USE DEF process, tasks, pipes
<1>1. /\ ready # <<>> /\ ready' = Tail(ready) /\ UNCHANGED <<startPc, lateSpawn>>
      /\ closePc # "absent" /\ closePc' \notin {"absent", "created"}
  BY DEF CloseBegins, CloseGathers, CloseStopsBeat, CloseWaits, CloseEnds, StopHeartbeat, CloseStdin,
         Runs, Resumes
<1>2. Single(ready')
  BY <1>1, Shorter, QueueOfType DEF Order
<1>3. CASE startPc \in {"absent", "ok", "failed"}
  BY <1>1, <1>2, <1>3 DEF Order
<1>4. CASE startPc \notin {"absent", "ok", "failed"}
  <2>1. interrupted'["start"]
    BY <1>4 DEF CloseBegins, CloseGathers, CloseStopsBeat, CloseWaits, CloseEnds, StartDone,
                CancelStartup, TypeOK, Order
  <2>2. QED  BY <1>1, <1>2, <2>1 DEF Order
<1>5. QED  BY <1>3, <1>4

\* Every step keeps the order of the start and the close.
LEMMA OrderStep ==
  ASSUME TypeOK, Order, Next
  PROVE  Order'
<1> USE CallersAssumption DEF tasks, clients, pipes, process
<1>0. Callers \subseteq Tasks /\ {"start", "close"} \subseteq Tasks /\ Outcome = {"ok", "fail"}
  BY DEF Tasks, Outcome
<1>1. ASSUME NEW c \in Callers, Wait(c) \/ Refused(c) \/ Cancel(c) \/ CallerAwakes(c) \/ Start(c)
      PROVE  Order'
  <2>1. interrupted'["start"] = interrupted["start"]
    BY <1>1 DEF Wait, Refused, Cancel, CallerAwakes, Start, TypeOK
  <2>2. QED
    BY <1>0, <1>1, <2>1, OrderKept DEF Wait, Refused, Cancel, CallerAwakes, Start, StartAllowed
<1>2. ASSUME NEW c \in Callers, StartReturns(c) \/ CloseReturns(c) \/ WaitReturns(c)  PROVE Order'
  <2>1. interrupted'["start"] = interrupted["start"]
    BY <1>2 DEF StartReturns, CloseReturns, WaitReturns, Ack, TypeOK
  <2>2. QED
    BY <1>2, <2>1, OrderRuns DEF StartReturns, CloseReturns, WaitReturns, JoinClose, Runs, Resumes
<1>3. ASSUME NEW c \in Callers, Close(c)  PROVE Order'
  <2>1. CASE closePc = "absent"
    <3>1. ~Waits(ready, "close") /\ ~lateSpawn /\ Single(ready)
      BY <2>1 DEF Order
    <3>2. ready' = Append(ready, Resume("close", "ok")) /\ ready \in Seq(Wakeup)
      BY <1>3, <2>1, QueueOfType DEF Close, JoinClose
    <3>3. "close" \in Tasks /\ "ok" \in Outcome
      BY <1>0
    <3>4. Single(ready') /\ Waits(ready', "close")
      BY <3>1, <3>2, <3>3, Longer
    <3>5. QED  BY <1>3, <2>1, <3>1, <3>4 DEF Close, JoinClose, Order
  <2>2. CASE closePc # "absent"
    BY <1>3, <2>2, OrderKept DEF Close, JoinClose
  <2>3. QED  BY <2>1, <2>2
<1>4. CASE StartAwakes \/ CloseAwakes
  BY <1>0, <1>4, OrderKept DEF StartAwakes, CloseAwakes, CloseOverdue
<1>5. CASE RecoverSignals \/ BeatStops \/ SpawnEnds \/ ChannelExits \/ PipesEnd
  BY <1>5, OrderKept DEF RecoverSignals, BeatStops, SpawnEnds, ChannelExits, PipesEnd
<1>6. QED
  BY <1>1, <1>2, <1>3, <1>4, <1>5, OrderStarts, OrderCloses DEF Next, Run

\* IInv is inductive.
THEOREM Invariance == Spec => []IInv
<1>1. Init => IInv
  <2>1. ASSUME Init  PROVE TypeOK
    BY <2>1, EmptySeq DEF Init, TypeOK, Adopted
  <2>2. ASSUME Init  PROVE Handover /\ Closing /\ Finishing /\ ReturnsAfterCleanup
    BY <2>2 DEF Init, Handover, Closing, Finishing, ReturnsAfterCleanup, DeadOrKilled, Adopted
  <2>3. ASSUME Init  PROVE Order
    <3>1. Single(ready) /\ ~Waits(ready, "close")
      BY <2>3 DEF Init, Single, Waits
    <3>2. QED  BY <2>3, <3>1 DEF Init, Order
  <2>4. QED  BY <2>1, <2>2, <2>3 DEF IInv
<1>2. IInv /\ [Next]_vars => IInv'
  <2>1. ASSUME IInv, Next  PROVE IInv'
    <3>1. TypeOK'
      BY <2>1, CallerTypes, StartTypes, CloseTypes DEF IInv, Next, Run
    <3>2. QED
      BY <2>1, <3>1, HandoverStep, ClosingStep, FinishingStep, ReturnsStep, OrderStep DEF IInv
  <2>2. ASSUME IInv, UNCHANGED vars  PROVE IInv'
    <3>1. TypeOK'
      BY <2>2, QueueOfType, AwakeTypes DEF vars, IInv
    <3>2. Handover' /\ Closing' /\ Finishing' /\ ReturnsAfterCleanup'
      BY <2>2 DEF IInv, vars, tasks, clients, pipes, process, Handover, Closing, Finishing,
                  ReturnsAfterCleanup, DeadOrKilled, Adopted
    <3>3. Order'
      BY <2>2, OrderKept DEF IInv, vars, tasks, process
    <3>4. QED  BY <3>1, <3>2, <3>3 DEF IInv
  <2>3. QED  BY <2>1, <2>2
<1>3. QED  BY <1>1, <1>2, PTL DEF Spec

(***************************************************************************)
(* The properties.                                                         *)
(***************************************************************************)
\* When _close is done (remote_process.py, _close), whatever it met and whichever
\* await of _start it overtook, no task of the object is left, and a channel that has
\* not ended was sent SIGKILL.
THEOREM CloseReleasesAll == Spec => []CloseReleases
<1>1. IInv => CloseReleases
  BY DEF IInv, Closing, CloseReleases, DeadOrKilled
<1>2. QED  BY <1>1, Invariance, PTL

\* A failed start() and a close(), cancelled or not, report to their caller only after
\* the cleanup they share is over (remote_process.py, start and close).
THEOREM CleanupBeforeReturn == Spec => []ReturnsAfterCleanup
<1>1. IInv => ReturnsAfterCleanup
  BY DEF IInv
<1>2. QED  BY <1>1, Invariance, PTL

\* The heartbeat task is over before stdin is closed, so that no frame can follow the
\* end of file (remote_process.py, _close).
THEOREM NoFrameAfterEof == Spec => []NoBeatAfterEof
<1>1. IInv => NoBeatAfterEof
  BY DEF IInv, TypeOK, Closing, NoBeatAfterEof
<1>2. QED  BY <1>1, Invariance, PTL

\* A channel that _start spawned although close() had been called is never adopted: the
\* _close task was queued before _start's next step and its cancellation is seen there
\* (remote_process.py, _start and _close).
THEOREM LateSpawnNeverAdopted == Spec => []LateSpawnNotAdopted
<1>1. IInv => LateSpawnNotAdopted
  BY DEF IInv, Order, LateSpawnNotAdopted, Adopted
<1>2. QED  BY <1>1, Invariance, PTL

\* Whoever waits and is cancelled, the readers of a running channel's output go on until
\* close() is called (remote_process.py, wait).
THEOREM WaitObserves == Spec => WaitOnlyObserves
<1> DEFINE A == drains = "running" /\ drains' = "cut" => channel = "exited" \/ closePc # "absent"
<1>1. IInv /\ Next => A
  <2> SUFFICES ASSUME IInv, Next, drains = "running", drains' = "cut"
               PROVE  channel = "exited" \/ closePc # "absent"
    OBVIOUS
  <2>1. ASSUME NEW c \in Callers, WaitReturns(c)  PROVE channel = "exited"
    BY <2>1 DEF WaitReturns, WaitCancelled, IInv, Finishing
  <2>2. CASE CloseEnds
    BY <2>2 DEF CloseEnds
  <2>3. QED
    BY <2>1, <2>2 DEF Next, Run, Start, Close, Wait, Refused, Cancel, CallerAwakes, StartReturns,
       CloseReturns, JoinClose, StartRaises, StartChecks, StartSpawns, StartAdopts, StartRecovers,
       StartAwakes, RecoverSignals, CloseBegins, CloseGathers, CloseStopsBeat, CloseWaits,
       CloseAwakes, BeatStops, SpawnEnds, ChannelExits, PipesEnd, pipes
<1>2. IInv /\ UNCHANGED vars => [A]_vars
  OBVIOUS
<1>3. IInv /\ [Next]_vars => [A]_vars
  BY <1>1, <1>2
<1>4. QED  BY <1>3, Invariance, PTL DEF Spec, WaitOnlyObserves

\* Concurrent starts, and starts after a failure or a close, spawn one channel
\* (remote_process.py, start and _start).
THEOREM SpawnsOnce == Spec => OneChannel
<1> DEFINE A == channel' = "spawning" => channel \in {"none", "spawning"}
<1>1. IInv /\ Next => A
  <2> SUFFICES ASSUME IInv, Next, channel' = "spawning"  PROVE channel \in {"none", "spawning"}
    OBVIOUS
  <2>1. CASE StartSpawns
    BY <2>1 DEF StartSpawns, IInv, Handover
  <2>2. QED
    BY <2>1 DEF Next, Run, Start, Close, Wait, Refused, Cancel, CallerAwakes, StartReturns,
       CloseReturns, WaitReturns, JoinClose, StartRaises, StartChecks, StartAdopts, StartRecovers,
       StartAwakes, RecoverSignals, CloseBegins, CloseGathers, CloseStopsBeat, CloseWaits, CloseEnds,
       CloseAwakes, BeatStops, SpawnEnds, ChannelExits, PipesEnd, process
<1>2. IInv /\ UNCHANGED vars => [A]_vars
  OBVIOUS
<1>3. IInv /\ [Next]_vars => [A]_vars
  BY <1>1, <1>2
<1>4. QED  BY <1>3, Invariance, PTL DEF Spec, OneChannel

(***************************************************************************)
(* The refinement.                                                         *)
(***************************************************************************)
\* The phase, one case at a time.
LEMMA Phases ==
  /\ closePc = "done" => Phase = "closed"
  /\ closePc \notin {"done", "absent"} => Phase = "closing"
  /\ closePc = "absent" =>
       /\ startPc = "absent" => Phase = "new"
       /\ startPc = "ok" => Phase = "serving"
       /\ startPc \notin {"absent", "ok"} => Phase = "opening"
BY DEF Phase

\* A step that changes nothing the owner sees is a stutter.
LEMMA Unseen ==
  ASSUME UNCHANGED <<startPc, closePc, channel, signalled, beat, drains>>
  PROVE  UNCHANGED Lifecycle!vars
BY DEF Lifecycle!vars, Phase, Held, Spent

\* The heartbeat, the readers or the channel end, or nothing does.
LEMMA Losing ==
  ASSUME TypeOK, Closing, Handover, UNCHANGED <<startPc, closePc>>, signalled => signalled',
         signalled' # signalled => closePc # "done",
         NEW r \in {"channel", "beat", "drains"},
         \/ /\ r = "channel" /\ UNCHANGED <<beat, drains, signalled>>
            /\ \/ channel = "spawning" /\ channel' \in {"running", "failed"}
               \/ channel = "running" /\ channel' = "exited"
         \/ r = "beat" /\ UNCHANGED <<channel, drains, signalled>> /\ beat # "none" /\ beat' = "over"
         \/ r = "drains" /\ UNCHANGED <<channel, beat, signalled>> /\ drains = "running" /\ drains' # "none"
  PROVE  [Lifecycle!Lose]_Lifecycle!vars
<1>1. UNCHANGED Phase
  BY DEF Phase
<1>2. UNCHANGED Spent
  BY DEF Spent
<1>3. Held' = Held \/ (r \in Held /\ Held' = Held \ {r})
  BY DEF Held
<1>4. r \in Held => Phase \in {"opening", "serving", "closing"}
  <2>1. ASSUME r \in Held  PROVE closePc # "done" /\ startPc # "absent"
    BY <2>1 DEF Held, TypeOK, Adopted, Closing, Handover, DeadOrKilled
  <2>2. QED  BY <2>1, Phases DEF TypeOK
<1>5. QED  BY <1>1, <1>2, <1>3, <1>4 DEF Lifecycle!Lose, Lifecycle!vars

\* Each step of the detailed object is one of its life, or none.
LEMMA LifecycleStep ==
  ASSUME IInv, Next
  PROVE  [Lifecycle!Next]_Lifecycle!vars
<1> USE DEF tasks, clients, pipes, process
<1> TypeOK /\ Handover /\ Closing /\ Finishing /\ Order
  BY DEF IInv
<1>0. ASSUME [Lifecycle!Lose]_Lifecycle!vars  PROVE [Lifecycle!Next]_Lifecycle!vars
  BY <1>0 DEF Lifecycle!Next
<1>1. ASSUME NEW c \in Callers, Start(c)  PROVE Lifecycle!Open
  <2>1. Phase = "new" /\ Phase' = "opening"
    BY <1>1 DEF Start, StartAllowed, Phase
  <2>2. UNCHANGED <<Held, Spent>>
    BY <1>1 DEF Start, Held, Spent
  <2>3. QED  BY <2>1, <2>2 DEF Lifecycle!Open
<1>2. ASSUME NEW c \in Callers, Close(c) \/ StartReturns(c)  PROVE [Lifecycle!Close]_Lifecycle!vars
  <2>1. UNCHANGED <<startPc, channel, signalled, beat, drains>>
    BY <1>2 DEF Close, StartReturns, JoinClose
  <2>2. CASE closePc' = closePc
    BY <2>1, <2>2, Unseen
  <2>3. CASE closePc' # closePc
    <3>1. closePc = "absent" /\ closePc' = "created"
      BY <1>2, <2>3 DEF Close, StartReturns, JoinClose
    <3>2. Phase \in {"new", "opening", "serving"} /\ Phase' = "closing"
      BY <3>1 DEF Phase
    <3>3. UNCHANGED <<Held, Spent>>
      BY <2>1, <3>1 DEF Held, Spent
    <3>4. QED  BY <3>2, <3>3 DEF Lifecycle!Close
  <2>4. QED  BY <2>2, <2>3
<1>3. ASSUME NEW c \in Callers, Wait(c) \/ Refused(c) \/ Cancel(c) \/ CallerAwakes(c) \/ CloseReturns(c)
      PROVE  UNCHANGED Lifecycle!vars
  BY <1>3, Unseen DEF Wait, Refused, Cancel, CallerAwakes, CloseReturns
<1>4. ASSUME NEW c \in Callers, WaitReturns(c)  PROVE [Lifecycle!Lose]_Lifecycle!vars
  <2>1. UNCHANGED <<startPc, closePc, channel, signalled, beat>>
    BY <1>4 DEF WaitReturns
  <2>2. drains' = drains \/ (drains = "running" /\ drains' = "cut")
    BY <1>4 DEF WaitReturns, WaitCancelled, FinishDrains, CutDrains
  <2>3. QED  BY <2>1, <2>2, Unseen, Losing
<1>5. CASE StartRaises \/ StartChecks \/ StartRecovers
  <2>1. /\ UNCHANGED <<closePc, channel, signalled, beat, drains>>
        /\ startPc \notin {"absent", "ok"} /\ startPc' \notin {"absent", "ok"}
    BY <1>5 DEF StartRaises, StartChecks, StartRecovers
  <2>2. UNCHANGED <<Phase, Held, Spent>>
    BY <2>1 DEF Phase, Held, Spent
  <2>3. QED  BY <2>2 DEF Lifecycle!vars
<1>6. CASE StartSpawns
  <2>1. /\ channel = "none" /\ channel' = "spawning" /\ startPc = "check" /\ startPc' = "spawn"
        /\ UNCHANGED <<closePc, signalled, beat, drains>> /\ closePc # "done"
    BY <1>6 DEF StartSpawns, Handover, Closing
  <2>2. Phase \in {"opening", "closing"} /\ Phase' = Phase
    BY <2>1 DEF Phase, TypeOK
  <2>3. "channel" \notin Spent /\ Spent' = Spent \cup {"channel"} /\ Held' = Held \cup {"channel"}
    BY <2>1 DEF Held, Spent
  <2>4. Lifecycle!Acquire
    <3> DEFINE R == {"channel"}
    <3>1. R \in (SUBSET {"channel", "beat", "drains"}) \ {{}} /\ R \cap Spent = {} /\ R \in SUBSET R
      BY <2>3
    <3>2. QED  BY <2>2, <2>3, <3>1 DEF Lifecycle!Acquire
  <2>5. QED  BY <2>4 DEF Lifecycle!Next
<1>7. CASE StartAdopts
  <2> DEFINE R == {"beat", "drains"}
  <2>1. /\ startPc = "spawn" /\ startPc' = "ok" /\ channel # "none" /\ beat = "none" /\ drains = "none"
        /\ beat' = "running" /\ drains' = "running" /\ UNCHANGED <<closePc, channel, signalled>>
        /\ closePc # "done"
    BY <1>7 DEF StartAdopts, TypeOK, Adopted, Closing
  <2>a. Spent = {"channel"}
    BY <2>1 DEF Spent
  <2>b. Spent' = Spent \cup R
    BY <2>1 DEF Spent
  <2>c. Held' = Held \cup R
    BY <2>1 DEF Held
  <2>2. /\ Spent = {"channel"} /\ Spent' = Spent \cup R /\ Held' = Held \cup R
        /\ R \in (SUBSET {"channel", "beat", "drains"}) \ {{}} /\ R \cap Spent = {} /\ R \in SUBSET R
    BY <2>a, <2>b, <2>c
  <2>3. CASE closePc = "absent"
    <3>1. Phase = "opening" /\ Phase' = "serving"
      BY <2>1, <2>3 DEF Phase
    <3>2. Spent' = {"channel", "beat", "drains"} /\ R \in SUBSET ({"channel", "beat", "drains"} \ Spent)
      BY <2>2
    <3>3. Lifecycle!Serve
      BY <2>2, <3>1, <3>2 DEF Lifecycle!Serve
    <3>4. QED  BY <3>3 DEF Lifecycle!Next
  <2>4. CASE closePc # "absent"
    <3>1. Phase = "closing" /\ Phase' = "closing"
      BY <2>1, <2>4 DEF Phase
    <3>2. Lifecycle!Acquire
      BY <2>2, <3>1 DEF Lifecycle!Acquire
    <3>3. QED  BY <3>2 DEF Lifecycle!Next
  <2>5. QED  BY <2>3, <2>4
<1>8. CASE StartAwakes \/ CloseAwakes
  BY <1>8, Unseen DEF StartAwakes, CloseAwakes
<1>9. CASE RecoverSignals
  <2>1. /\ startPc = "recover" /\ signalled' = TRUE
        /\ UNCHANGED <<startPc, closePc, channel, beat, drains>> /\ closePc # "done"
    BY <1>9 DEF RecoverSignals, Closing
  <2>2. UNCHANGED <<Phase, Held, Spent>>
    BY <2>1 DEF Phase, Held, Spent
  <2>3. QED  BY <2>2 DEF Lifecycle!vars
<1>10. CASE CloseBegins \/ CloseGathers \/ CloseStopsBeat \/ CloseWaits
  <2>1. /\ closePc \notin {"absent", "done"} /\ closePc' \notin {"absent", "done"}
        /\ UNCHANGED <<channel, drains>>
    BY <1>10 DEF CloseBegins, CloseGathers, CloseStopsBeat, CloseWaits, StopHeartbeat, CloseStdin
  <2>2. beat' = beat \/ (beat = "running" /\ beat' = "cancelled")
    BY <1>10 DEF CloseBegins, CloseGathers, CloseStopsBeat, CloseWaits, StopHeartbeat, CloseStdin
  <2>3. UNCHANGED <<Phase, Held, Spent>>
    BY <2>1, <2>2 DEF Phase, Held, Spent
  <2>4. QED  BY <2>3 DEF Lifecycle!vars
<1>11. CASE CloseEnds
  <2>1. closePc = "drain" /\ closePc' = "done" /\ UNCHANGED <<channel, signalled, beat>>
    BY <1>11 DEF CloseEnds
  <2>2. drains' # "running" /\ (drains' = "none" <=> drains = "none")
    BY <1>11, QueueType, QueueOfType DEF CloseEnds, FinishDrains, CutDrains
  <2>3. Phase = "closing" /\ Phase' = "closed"
    BY <2>1 DEF Phase
  <2>4. UNCHANGED Spent
    BY <2>1, <2>2 DEF Spent
  <2>5. Held' = {}
    BY <2>1, <2>2 DEF Held, Closing, DeadOrKilled
  <2>6. QED  BY <2>3, <2>4, <2>5 DEF Lifecycle!Finish, Lifecycle!Next
<1>12. CASE BeatStops
  <2>1. beat \in {"running", "cancelled"} /\ beat' = "over"
        /\ UNCHANGED <<startPc, closePc, channel, signalled, drains>>
    BY <1>12 DEF BeatStops, HeartbeatEnds
  <2>2. QED  BY <1>0, <2>1, Losing
<1>13. CASE SpawnEnds \/ ChannelExits
  BY <1>0, <1>13, Losing DEF SpawnEnds, ChannelExits
<1>14. CASE PipesEnd
  BY <1>0, <1>14, Unseen, Losing DEF PipesEnd
<1>15. QED
  BY <1>0, <1>1, <1>2, <1>3, <1>4, <1>5, <1>6, <1>7, <1>8, <1>9, <1>10, <1>11, <1>12, <1>13, <1>14
     DEF Next, Run, Lifecycle!Next

\* The object implements the safety of ObjectLifecycle: its life goes one way, whatever
\* its callers do, every resource is acquired once, and none outlives close().
THEOREM ImplementsLifecycle == Spec => Lifecycle!Init /\ [][Lifecycle!Next]_Lifecycle!vars
<1>1. Init => Lifecycle!Init
  BY DEF Init, Lifecycle!Init, Phase, Held, Spent
<1>2. IInv /\ [Next]_vars => [Lifecycle!Next]_Lifecycle!vars
  <2>1. ASSUME IInv, UNCHANGED vars  PROVE UNCHANGED Lifecycle!vars
    BY <2>1, Unseen DEF vars, tasks, clients, pipes, process
  <2>2. QED  BY <2>1, LifecycleStep
<1>3. QED  BY <1>1, <1>2, Invariance, PTL DEF Spec
=============================================================================
