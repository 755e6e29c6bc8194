------------------------- MODULE OpenSSHMaster_proofs -------------------------
(***************************************************************************)
(* Safety of OpenSSHMaster for every set of callers and with or without    *)
(* the environment's faults.                                               *)
(*                                                                         *)
(* CloseReleases is not inductive: that nothing is left when _close ends   *)
(* depends on how the two tasks hand the master over.  Handover says who   *)
(* is answerable for it in each phase of _start: nobody before the spawn,  *)
(* _start while it spawns or reaps, the object (adopted) afterwards.       *)
(* Closing says what each phase of _close may rely on: no startup is left  *)
(* past "gather", and a master it gave up on has been killed.              *)
(*                                                                         *)
(* Order is about the loop's queue and holds if no child outlives its      *)
(* SIGKILL: a start that launched after close() was called has its next    *)
(* wake-up behind that of the _close task, which will cancel it.  Prompt   *)
(* adds that no await of _close fails then, so that nothing at all is left *)
(* and the object implements ObjectLifecycle.                              *)
(***************************************************************************)
EXTENDS OpenSSHMaster, EventLoop_proofs

DeadOrKilled ==
  proc \in {"none", "failed", "exited"} \/ (proc = "running" /\ signalled)

Handover ==
  /\ startPc \in {"absent", "created", "env"} => proc = "none" /\ ~adopted
  /\ startPc \in {"spawn", "reap"} => ~adopted /\ proc # "none"
  /\ startPc \in {"sleep", "check", "drain", "ok"} => adopted
  /\ adopted => proc \in {"running", "exited"}
  /\ startPc = "failed" /\ ~adopted => DeadOrKilled
  /\ signalled => proc \in {"running", "exited"}

Closing ==
  /\ closePc \in {"exit", "waitexit", "stop", "stop2", "drain", "done"}
       => startPc \in {"absent", "ok", "failed"}
  /\ closePc \in {"exit", "waitexit", "stop", "stop2"} => adopted
  /\ closePc \in {"stop", "stop2"} => signalled
  /\ closePc \in {"drain", "done"} => DeadOrKilled
  /\ closePc # "done" => "removal" \notin raised
  /\ closePc = "done" => /\ runtime = "present" => "removal" \in raised
                         /\ state = "closed" <=> "removal" \notin raised
                         /\ drain = "running" => "drain" \in raised
  /\ state = "closed" => closePc = "done"

IInv == TypeOK /\ Handover /\ Closing /\ ReturnsAfterCleanup

\* A start that launched although close() had been called is still to be cancelled by
\* the _close task, which runs before it, or was cancelled.
Order ==
  /\ Single(ready)
  /\ closePc = "absent" => ~Waits(ready, "close") /\ ~lateLaunch
  /\ closePc = "created" => Waits(ready, "close")
  /\ closePc \notin {"absent", "created"} =>
       startPc \in {"absent", "ok", "failed"} \/ interrupted["start"]
  /\ lateLaunch => startPc \in {"spawn", "reap", "failed"} /\ ~adopted
  /\ lateLaunch /\ startPc = "spawn" /\ ~interrupted["start"] => closePc = "created" /\ Ahead(ready)

Dead == proc \in {"none", "failed", "exited"}

\* The await of _close that is over: only the wait after "exit" runs out of time, and
\* a group that stop_group was sent after is reaped.
Answers ==
  \A w \in Pending(ready) : w.task = "close" =>
    /\ closePc \in {"stop", "stop2"} => proc = "exited"
    /\ w.outcome = "fail" => closePc = "waitexit"

\* What startup has created by when, and that without faults _close gives up on nothing.
Prompt ==
  /\ startPc \in {"absent", "created"} => runtime = "none"
  /\ startPc \notin {"absent", "created", "failed"} => runtime # "none"
  /\ adopted <=> drain # "none"
  /\ startPc = "failed" /\ ~adopted => Dead
  /\ closePc \in {"drain", "done"} => Dead
  /\ closePc = "done" => runtime # "present" /\ drain # "running"

(***************************************************************************)
(* Types.                                                                  *)
(***************************************************************************)
\* What the loop's operations do to the type of its queue.
LEMMA QueueType ==
  ASSUME ready \in Seq(Wakeup)
  PROVE  /\ \A t \in Tasks, o \in Outcome : Resume(t, o) \in Wakeup
         /\ \A t \in Tasks, o \in Outcome : Awaken(t, o) => ready' \in Seq(Wakeup)
         /\ ready # <<>> => Tail(ready) \in Seq(Wakeup) /\ Head(ready) \in Wakeup
         /\ \A t, O : Runs(t, O) => ready' \in Seq(Wakeup)
<1>1. \A t \in Tasks, o \in Outcome : Resume(t, o) \in Wakeup
  BY DEF Resume, Wakeup
<1>2. ready # <<>> => Tail(ready) \in Seq(Wakeup) /\ Head(ready) \in Wakeup
  BY HeadTailProperties
<1>3. \A t \in Tasks, o \in Outcome : Awaken(t, o) => ready' \in Seq(Wakeup)
  BY <1>1, AppendProperties DEF Awaken
<1>4. \A t, O : Runs(t, O) => ready' \in Seq(Wakeup)
  BY <1>2 DEF Runs, Resumes
<1>5. QED  BY <1>1, <1>2, <1>3, <1>4

\* Every step of a caller preserves the types.
LEMMA CallerTypes ==
  ASSUME TypeOK, NEW c \in Callers,
         CallerStep(c) \/ StartReturns(c) \/ StartFails(c) \/ CloseReturns(c) \/ CheckReturns(c)
  PROVE  TypeOK'
<1> USE CallersAssumption, QueueType
<1>0. c \in Tasks /\ "start" \in Tasks /\ "close" \in Tasks /\ {"ok", "fail", "error"} = Outcome
  BY DEF Tasks, Outcome
<1>1. CASE Start(c)
  BY <1>0, <1>1 DEF TypeOK, Start, Goes, CallerPc, Result, ConnectionState, StartPc, world
<1>2. CASE StartRefused(c)
  BY <1>2 DEF TypeOK, StartRefused, Goes, CallerPc, Result, object, tasks, loop, world
<1>3. ASSUME NEW pc \in {"failing", "closing"}, NEW queue \in Seq(Wakeup),
             JoinClose(c, pc, queue), interrupted' \in [Callers \cup {"start"} -> BOOLEAN]
      PROVE  TypeOK'
  <2>1. Resume("close", "ok") \in Wakeup
    BY <1>0 DEF TypeOK
  <2>2. Append(queue, Resume("close", "ok")) \in Seq(Wakeup)
    BY <2>1, AppendProperties
  <2>3. ready' \in Seq(Wakeup)
    BY <1>3, <2>2 DEF JoinClose
  <2>4. callerPc' \in [Callers -> CallerPc] /\ result' \in [Callers -> Result]
    BY <1>3 DEF TypeOK, JoinClose, Goes, CallerPc, Result
  <2>5. QED
    BY <1>3, <2>3, <2>4 DEF TypeOK, JoinClose, ConnectionState, ClosePc, world
<1>4. CASE Close(c)
  BY <1>3, <1>4 DEF TypeOK, Close
<1>5. CASE CheckRefused(c)
  BY <1>5 DEF TypeOK, CheckRefused, Goes, CallerPc, Result, object, tasks, loop, world
<1>6. CASE Check(c)
  BY <1>6 DEF TypeOK, Check, Goes, CallerPc, Result, ConnectionState, tasks, loop, world
<1>7. CASE Cancel(c)
  BY <1>7 DEF TypeOK, Cancel, object, tasks, clients, world
<1>8. CASE CallerAwakes(c)
  BY <1>0, <1>8 DEF TypeOK, CallerAwakes, ControlEnds, object, tasks, clients, world
<1>9. CASE StartReturns(c)
  BY <1>9 DEF TypeOK, StartReturns, Goes, CallerPc, Result, object, tasks, world
<1>10. CASE StartFails(c)
  <2>1. Tail(ready) \in Seq(Wakeup)
    BY <1>10 DEF TypeOK, StartFails, Resumes
  <2>2. interrupted' \in [Callers \cup {"start"} -> BOOLEAN]
    BY <1>10 DEF TypeOK, StartFails, Ack
  <2>3. JoinClose(c, "failing", Tail(ready))
    BY <1>10 DEF StartFails
  <2>4. QED  BY <1>3, <2>1, <2>2, <2>3
<1>11. CASE CloseReturns(c)
  BY <1>11 DEF TypeOK, CloseReturns, Ack, Goes, CallerPc, Result, object, tasks, world
<1>12. CASE CheckReturns(c)
  <2>1. callerPc' \in [Callers -> CallerPc] /\ result' \in [Callers -> Result]
    BY <1>12 DEF TypeOK, CheckReturns, Goes, CallerPc, Result
  <2>2. interrupted' \in [Callers \cup {"start"} -> BOOLEAN] /\ ready' \in Seq(Wakeup)
    BY <1>12 DEF TypeOK, CheckReturns, Ack
  <2>3. state' = state \/ (state = "ready" /\ state' = "lost")
    BY <1>12 DEF CheckReturns, StillReady
  <2>4. QED
    BY <1>12, <2>1, <2>2, <2>3 DEF TypeOK, CheckReturns, ConnectionState, tasks, world
<1>13. QED
  BY <1>1, <1>2, <1>4, <1>5, <1>6, <1>7, <1>8, <1>9, <1>10, <1>11, <1>12 DEF CallerStep

\* Every step of the _start task, and of its environment, preserves the types.
LEMMA StartTypes ==
  ASSUME TypeOK,
         \/ StartBegins \/ StartResolved \/ StartSpawned \/ StartReaps \/ StartPolls
         \/ StartSucceeds \/ StartRaises \/ StartAwakes \/ ReapSignals \/ Deadline
         \/ Environment
  PROVE  TypeOK'
<1> USE QueueType DEF object, tasks, clients, loop, world
<1>0. "start" \in Tasks /\ {"ok", "fail", "error"} = Outcome
  BY DEF Tasks, Outcome
<1>1. CASE StartBegins
  BY <1>1 DEF TypeOK, StartBegins, SpawnMaster, StartPc
<1>2. CASE StartResolved
  BY <1>2 DEF TypeOK, StartResolved, SpawnMaster, Ack, StartPc
<1>3. CASE StartSpawned
  BY <1>3 DEF TypeOK, StartSpawned, WaitReadyTurn, StartPc
<1>4. CASE StartReaps
  BY <1>4 DEF TypeOK, StartReaps, StartPc
<1>5. CASE StartPolls
  BY <1>5 DEF TypeOK, StartPolls, WaitReadyTurn, StartPc
<1>6. CASE StartSucceeds
  BY <1>6 DEF TypeOK, StartSucceeds, StartPc, ConnectionState
<1>7. CASE StartRaises
  BY <1>7 DEF TypeOK, StartRaises, StartPc
<1>8. CASE StartAwakes
  BY <1>0, <1>8 DEF TypeOK, StartAwakes, ControlEnds
<1>9. CASE ReapSignals
  BY <1>9 DEF TypeOK, ReapSignals
<1>10. CASE Deadline
  BY <1>10 DEF TypeOK, Deadline
<1>11. CASE Environment
  <2>1. CASE SpawnEnds \/ MasterExits
    BY <2>1 DEF TypeOK, SpawnEnds, MasterExits
  <2>2. CASE Authenticates \/ SocketVanishes
    BY <2>2 DEF TypeOK, Authenticates, SocketVanishes
  <2>3. CASE DrainEnds
    BY <2>3 DEF TypeOK, DrainEnds
  <2>4. QED  BY <1>11, <2>1, <2>2, <2>3 DEF Environment
<1>12. QED
  BY <1>1, <1>2, <1>3, <1>4, <1>5, <1>6, <1>7, <1>8, <1>9, <1>10, <1>11

\* Every step of the _close task preserves the types.
LEMMA CloseTypes ==
  ASSUME TypeOK,
         CloseBegins \/ CloseGathers \/ CloseAsked \/ CloseWaited \/ CloseEnds \/ CloseAwakes
  PROVE  TypeOK'
<1> USE QueueType DEF object, tasks, clients, loop, world
<1>0. "close" \in Tasks /\ {"ok", "fail", "error"} = Outcome
  BY DEF Tasks, Outcome
<1>1. CASE CloseBegins
  BY <1>1 DEF TypeOK, CloseBegins, CancelStartup, Teardown, ClosePc
<1>2. CASE CloseGathers
  BY <1>2 DEF TypeOK, CloseGathers, Teardown, ClosePc
<1>3. CASE CloseAsked
  BY <1>3 DEF TypeOK, CloseAsked, ClosePc
<1>4. CASE CloseWaited
  BY <1>4 DEF TypeOK, CloseWaited, StopRaises, StageAfterWait, ClosePc
<1>5. CASE CloseEnds
  <2>1. closePc' = "done" /\ drain' \in {drain, "done"} /\ raised' \in SUBSET {"stop", "drain", "removal"}
    BY <1>5 DEF TypeOK, CloseEnds
  <2>2. state' \in {state, "closed"} /\ runtime' \in {runtime, "removed"} /\ socket' \in BOOLEAN
    BY <1>5 DEF TypeOK, CloseEnds
  <2>3. ready' \in Seq(Wakeup)
    BY <1>5 DEF TypeOK, CloseEnds
  <2>4. closePc # "absent"
    BY <1>5 DEF CloseEnds
  <2>5. UNCHANGED <<adopted, startPc, lateLaunch, callerPc, result, proc, signalled>>
    BY <1>5 DEF CloseEnds
  <2>6. interrupted' = interrupted
    BY <1>5 DEF CloseEnds
  <2>7. QED  BY <2>1, <2>2, <2>3, <2>4, <2>5, <2>6 DEF TypeOK, ClosePc, ConnectionState
<1>6. CASE CloseAwakes
  BY <1>0, <1>6 DEF TypeOK, CloseAwakes, ExitOverdue
<1>7. QED  BY <1>1, <1>2, <1>3, <1>4, <1>5, <1>6

\* The type invariant, and that the object is NEW exactly until start() or
\* close() has created its task (connection.py, start and close).
THEOREM TypeCorrect == Spec => []TypeOK
<1>1. Init => TypeOK
  BY EmptySeq DEF Init, TypeOK, ConnectionState, StartPc, ClosePc, CallerPc, Result
<1>2. TypeOK /\ [Next]_vars => TypeOK'
  <2>1. ASSUME TypeOK, Next  PROVE TypeOK'
    BY <2>1, CallerTypes, StartTypes, CloseTypes DEF Next, Run
  <2>2. TypeOK /\ UNCHANGED vars => TypeOK'
    BY DEF TypeOK, vars, object, tasks, clients, loop, world
  <2>3. QED  BY <2>1, <2>2
<1>3. QED  BY <1>1, <1>2, PTL DEF Spec

(***************************************************************************)
(* The inductive invariant.                                                *)
(***************************************************************************)
\* Steps that leave the two tasks and the master alone preserve Handover, and
\* Closing if they do not touch what _close leaves behind.
LEMMA HandoverFrame ==
  ASSUME Handover, UNCHANGED <<startPc, adopted, proc, signalled>>
  PROVE  Handover'
BY DEF Handover, DeadOrKilled

\* Who is answerable for the master changes hands as the code intends.
LEMMA HandoverStep ==
  ASSUME TypeOK, Handover, Closing, Next
  PROVE  Handover'
<1> USE HandoverFrame DEF object, tasks, clients, loop, world
<1>1. ASSUME NEW c \in Callers, CallerStep(c)  PROVE Handover'
  <2>1. CASE Start(c)
    BY <2>1 DEF Start, SingleUse, TypeOK, Handover, DeadOrKilled
  <2>2. CASE Close(c)
    BY <2>2 DEF Close, JoinClose
  <2>3. CASE StartRefused(c) \/ CheckRefused(c) \/ Check(c) \/ Cancel(c) \/ CallerAwakes(c)
    BY <2>3 DEF StartRefused, CheckRefused, Check, Cancel, CallerAwakes
  <2>4. QED  BY <1>1, <2>1, <2>2, <2>3 DEF CallerStep
<1>2. ASSUME NEW c \in Callers,
             StartReturns(c) \/ StartFails(c) \/ CloseReturns(c) \/ CheckReturns(c)
      PROVE  Handover'
  BY <1>2 DEF StartReturns, StartFails, JoinClose, CloseReturns, CheckReturns
<1>3. CASE StartBegins
  BY <1>3 DEF StartBegins, SpawnMaster, Handover, DeadOrKilled
<1>4. CASE StartResolved
  BY <1>4 DEF StartResolved, SpawnMaster, Handover, DeadOrKilled
<1>5. CASE StartSpawned
  BY <1>5 DEF StartSpawned, WaitReadyTurn, Handover, DeadOrKilled, TypeOK
<1>6. CASE StartReaps
  BY <1>6 DEF StartReaps, Handover, DeadOrKilled
<1>7. CASE StartPolls \/ StartSucceeds
  BY <1>7 DEF StartPolls, StartSucceeds, WaitReadyTurn, Handover, DeadOrKilled
<1>8. CASE StartRaises
  BY <1>8 DEF StartRaises, Reaped, Handover, DeadOrKilled
<1>9. CASE CloseBegins \/ CloseGathers
  BY <1>9 DEF CloseBegins, CloseGathers, Teardown, Handover, DeadOrKilled
<1>10. CASE CloseWaited
  BY <1>10 DEF CloseWaited, Handover, Closing, DeadOrKilled
<1>11. CASE CloseAsked \/ CloseEnds \/ StartAwakes \/ CloseAwakes \/ Deadline
  BY <1>11 DEF CloseAsked, CloseEnds, StartAwakes, CloseAwakes, Deadline
<1>12. CASE ReapSignals
  BY <1>12 DEF ReapSignals, Handover, DeadOrKilled
<1>13. CASE Environment
  BY <1>13 DEF Environment, SpawnEnds, Authenticates, SocketVanishes, MasterExits, DrainEnds,
               Handover, DeadOrKilled
<1>14. QED
  BY <1>1, <1>2, <1>3, <1>4, <1>5, <1>6, <1>7, <1>8, <1>9, <1>10, <1>11, <1>12, <1>13
     DEF Next, Run

\* _close relies on its phase: no startup once it tears down, a master that was
\* killed or is dead once it gives up, nothing left once it is done.
LEMMA ClosingStep ==
  ASSUME TypeOK, Handover, Closing, Next
  PROVE  Closing'
<1> USE DEF object, tasks, clients, loop, world
<1>1. ASSUME NEW c \in Callers, CallerStep(c)  PROVE Closing'
  <2>1. CASE Start(c)
    BY <2>1 DEF Start, SingleUse, TypeOK, Closing, DeadOrKilled
  <2>2. CASE Close(c)
    BY <2>2 DEF Close, JoinClose, Closing, DeadOrKilled
  <2>3. CASE StartRefused(c) \/ CheckRefused(c) \/ Check(c) \/ Cancel(c) \/ CallerAwakes(c)
    BY <2>3 DEF StartRefused, CheckRefused, Check, Cancel, CallerAwakes, Closing, DeadOrKilled
  <2>4. QED  BY <1>1, <2>1, <2>2, <2>3 DEF CallerStep
<1>2. ASSUME NEW c \in Callers,
             StartReturns(c) \/ StartFails(c) \/ CloseReturns(c) \/ CheckReturns(c)
      PROVE  Closing'
  BY <1>2 DEF StartReturns, StartFails, JoinClose, CloseReturns, CheckReturns, StillReady, Closing,
              DeadOrKilled
<1>3. CASE StartBegins \/ StartResolved \/ StartSpawned \/ StartReaps \/ StartPolls
           \/ StartSucceeds \/ StartRaises
  BY <1>3 DEF StartBegins, StartResolved, StartSpawned, StartReaps, StartPolls, StartSucceeds,
              StartRaises, SpawnMaster, WaitReadyTurn, Closing, DeadOrKilled
<1>4. CASE CloseBegins \/ CloseGathers
  BY <1>4 DEF CloseBegins, CloseGathers, Gathered, Teardown, StartDone, TypeOK, ClosePc,
              Handover, Closing, DeadOrKilled
<1>5. CASE CloseAsked
  BY <1>5 DEF CloseAsked, Closing, DeadOrKilled
<1>6. CASE CloseWaited
  BY <1>6 DEF CloseWaited, StopRaises, StageAfterWait, Handover, Closing, DeadOrKilled
<1>7. CASE CloseEnds
  BY <1>7, QueueType DEF CloseEnds, Runs, Resumes, TypeOK, Closing, DeadOrKilled
<1>8. CASE StartAwakes \/ CloseAwakes \/ Deadline
  BY <1>8 DEF StartAwakes, CloseAwakes, Deadline, Closing, DeadOrKilled
<1>9. CASE ReapSignals
  BY <1>9 DEF ReapSignals, Closing, DeadOrKilled
<1>10. CASE Environment
  BY <1>10 DEF Environment, SpawnEnds, Authenticates, SocketVanishes, MasterExits, DrainEnds,
               Handover, Closing, DeadOrKilled
<1>11. QED
  BY <1>1, <1>2, <1>3, <1>4, <1>5, <1>6, <1>7, <1>8, <1>9, <1>10 DEF Next, Run

\* Once _close is done it stays done, and only CloseReturns reports a cleanup.
LEMMA ReturnsStep ==
  ASSUME TypeOK, ReturnsAfterCleanup, Next
  PROVE  ReturnsAfterCleanup'
<1> USE DEF object, tasks, clients, loop, world
<1>1. closePc = "done" => closePc' = "done"
  BY DEF Next, Run, CallerStep, Start, StartRefused, Close, CheckRefused, Check, Cancel, CallerAwakes,
         StartReturns, StartFails, CloseReturns, CheckReturns, JoinClose, StartBegins, StartResolved,
         StartSpawned, StartReaps, StartPolls, StartSucceeds, StartRaises, StartAwakes, ReapSignals,
         Deadline, CloseBegins, CloseGathers, CloseAsked, CloseWaited, CloseEnds, CloseAwakes,
         Environment, SpawnEnds, Authenticates, SocketVanishes, MasterExits, DrainEnds
<1>2. ASSUME NEW d \in Callers, result'[d] \in {"failed", "closed"}
      PROVE  result[d] \in {"failed", "closed"} \/ closePc = "done"
  <2>1. CASE result' = result
    BY <1>2, <2>1
  <2>2. ASSUME NEW c \in Callers, NEW pc, NEW r \in {"none", "started", "refused", "ready", "cancelled"},
               Goes(c, pc, r)
        PROVE  result[d] \in {"failed", "closed"}
    BY <1>2, <2>2 DEF Goes, TypeOK
  <2>3. ASSUME NEW c \in Callers, CallerStep(c) \/ StartReturns(c) \/ StartFails(c) \/ CheckReturns(c)
        PROVE  result[d] \in {"failed", "closed"}
    BY <1>2, <2>2, <2>3 DEF CallerStep, Start, StartRefused, Close, CheckRefused, Check, Cancel,
       CallerAwakes, StartReturns, StartFails, CheckReturns, JoinClose
  <2>4. ASSUME NEW c \in Callers, CloseReturns(c)  PROVE closePc = "done"
    BY <2>4 DEF CloseReturns, Completed
  <2>5. ASSUME ~\E c \in Callers : CallerStep(c) \/ StartReturns(c) \/ StartFails(c)
                                   \/ CloseReturns(c) \/ CheckReturns(c)
        PROVE  result' = result
    BY <2>5 DEF Next, Run, StartBegins, StartResolved,
         StartSpawned, StartReaps, StartPolls, StartSucceeds, StartRaises, StartAwakes, ReapSignals,
         Deadline, CloseBegins, CloseGathers, CloseAsked, CloseWaited, CloseEnds, CloseAwakes,
         Environment, SpawnEnds, Authenticates, SocketVanishes, MasterExits, DrainEnds
  <2>6. QED  BY <2>1, <2>3, <2>4, <2>5
<1>3. QED  BY <1>1, <1>2 DEF ReturnsAfterCleanup

THEOREM Invariance == Spec => []IInv
<1>1. Init => IInv
  BY EmptySeq DEF Init, IInv, TypeOK, ConnectionState, StartPc, ClosePc, CallerPc, Result,
                  Handover, Closing, DeadOrKilled, ReturnsAfterCleanup
<1>2. IInv /\ [Next]_vars => IInv'
  <2>1. ASSUME IInv, Next  PROVE IInv'
    BY <2>1, CallerTypes, StartTypes, CloseTypes, HandoverStep, ClosingStep, ReturnsStep
       DEF IInv, Next, Run
  <2>2. ASSUME IInv, UNCHANGED vars  PROVE IInv'
    BY <2>2 DEF IInv, TypeOK, Handover, Closing, DeadOrKilled, ReturnsAfterCleanup,
                vars, object, tasks, clients, loop, world
  <2>3. QED  BY <2>1, <2>2
<1>3. QED  BY <1>1, <1>2, PTL DEF Spec

(***************************************************************************)
(* What a user of the object relies on.                                    *)
(***************************************************************************)
\* When _close ends, whichever of its stages raised, no startup is left, the master is
\* dead or killed, and the directory and the stderr drain are left only by a failure of
\* their own stage (connection.py _close, _process.py _reap_cancelled_spawn).
THEOREM CloseReleasesAll == Spec => []CloseReleases
<1>1. IInv => CloseReleases
  BY DEF IInv, Closing, CloseReleases, DeadOrKilled
<1>2. QED  BY <1>1, Invariance, PTL

\* A failed start() and every close() reach their caller only after the shared
\* cleanup, however often the caller is cancelled (complete_task).
THEOREM CleanupBeforeReturn == Spec => []ReturnsAfterCleanup
<1>1. IInv => ReturnsAfterCleanup
  BY DEF IInv
<1>2. QED  BY <1>1, Invariance, PTL

\* One object launches at most one master (start is single-use).
THEOREM OneAuthentication == Spec => AuthenticatesOnce
<1>1. IInv /\ [Next]_vars => [proc' = "spawning" => proc \in {"none", "spawning"}]_vars
  <2>1. ASSUME IInv, Next, proc' = "spawning"  PROVE proc \in {"none", "spawning"}
    BY <2>1 DEF IInv, Handover, Next, Run, CallerStep, Start, StartRefused, Close, CheckRefused, Check,
         Cancel, CallerAwakes, StartReturns, StartFails, CloseReturns, CheckReturns, JoinClose,
         StartBegins, StartResolved, SpawnMaster, StartSpawned, StartReaps, StartPolls, StartSucceeds,
         StartRaises, StartAwakes, ReapSignals, Deadline, CloseBegins, CloseGathers, CloseAsked,
         CloseWaited, CloseEnds, CloseAwakes, Environment, SpawnEnds, Authenticates, SocketVanishes,
         MasterExits, DrainEnds, object, tasks, clients, loop, world
  <2>2. QED  BY <2>1
<1>2. QED  BY <1>1, Invariance, PTL DEF Spec, AuthenticatesOnce

\* CLOSED is final: the state, the handle, the runtime directory and the startup
\* never change again.
THEOREM ClosedForGood == Spec => ClosedIsFinal
<1>1. IInv /\ [Next]_vars
        => [state = "closed" => UNCHANGED <<state, adopted, runtime, startPc>>]_vars
  <2>1. ASSUME IInv, Next, state = "closed"  PROVE UNCHANGED <<state, adopted, runtime, startPc>>
    <3>1. closePc = "done" /\ startPc \in {"absent", "ok", "failed"}
      BY <2>1 DEF IInv, Closing
    <3>2. QED
      BY <2>1, <3>1 DEF Next, Run, CallerStep, Start, SingleUse, StartRefused, Close, CheckRefused,
         Check, Cancel, CallerAwakes, StartReturns, StartFails, CloseReturns, CheckReturns, StillReady,
         JoinClose, StartBegins, StartResolved, StartSpawned, StartReaps, StartPolls, StartSucceeds,
         StartRaises, StartAwakes, ReapSignals, Deadline, WaitingForReadiness, CloseBegins,
         CloseGathers, CloseAsked, CloseWaited, CloseEnds, CloseAwakes, Environment, SpawnEnds,
         Authenticates, SocketVanishes, MasterExits, DrainEnds, object, tasks, clients, loop, world
  <2>2. QED  BY <2>1
<1>2. QED  BY <1>1, Invariance, PTL DEF Spec, ClosedIsFinal

\* LOST is entered from READY only (ensure_ready looks at the state again).
THEOREM LossOnlyFromReady == Spec => LostOnlyFromReady
<1>1. IInv /\ [Next]_vars => [state' = "lost" => state \in {"ready", "lost"}]_vars
  <2>1. ASSUME IInv, Next, state' = "lost"  PROVE state \in {"ready", "lost"}
    BY <2>1 DEF Next, Run, CallerStep, Start, StartRefused, Close, CheckRefused,
         Check, Cancel, CallerAwakes, StartReturns, StartFails, CloseReturns, CheckReturns, StillReady,
         JoinClose, StartBegins, StartResolved, StartSpawned, StartReaps, StartPolls, StartSucceeds,
         StartRaises, StartAwakes, ReapSignals, Deadline, CloseBegins,
         CloseGathers, CloseAsked, CloseWaited, CloseEnds, CloseAwakes, Environment, SpawnEnds,
         Authenticates, SocketVanishes, MasterExits, DrainEnds, object, tasks, clients, loop, world
  <2>2. QED  BY <2>1
<1>2. QED  BY <1>1, Invariance, PTL DEF Spec, LostOnlyFromReady

(***************************************************************************)
(* The order of the start and the close.                                   *)
(***************************************************************************)
\* Order where no task runs: the queue is as it was, or has one more wake-up.
LEMMA OrderKept ==
  ASSUME TypeOK, Order, UNCHANGED <<closePc, lateLaunch, adopted>>,
         interrupted["start"] => interrupted'["start"],
         UNCHANGED startPc \/ (startPc' = "created" /\ closePc = "absent"),
         \/ UNCHANGED ready
         \/ \E t \in Tasks, o \in Outcome :
              Awaken(t, o) /\ (t = "close" => closePc \notin {"absent", "created"})
  PROVE  Order'
<1>1. CASE UNCHANGED ready
  BY <1>1, Zenon DEF Order
<1>2. ASSUME NEW t \in Tasks, NEW o \in Outcome, Awaken(t, o),
             t = "close" => closePc \notin {"absent", "created"}
      PROVE  Order'
  <2>1. ~Waits(ready, t) /\ ready' = Append(ready, Resume(t, o)) /\ ready \in Seq(Wakeup)
    BY <1>2 DEF Awaken, Queued, Waits, TypeOK
  <2>2. /\ Single(ready')
        /\ \A u : u # t => (Waits(ready', u) <=> Waits(ready, u))
        /\ Ahead(ready) /\ (t = "start" => Waits(ready, "close")) => Ahead(ready')
    BY <2>1, Longer DEF Order
  <2>3. closePc = "absent" => ~Waits(ready', "close")
    BY <1>2, <2>2 DEF Order
  <2>4. closePc = "created" => Waits(ready', "close")
    BY <1>2, <2>2 DEF Order
  <2>5. lateLaunch /\ startPc = "spawn" /\ ~interrupted["start"] => Ahead(ready')
    BY <2>2 DEF Order
  <2>6. lateLaunch => closePc # "absent"
    BY DEF Order
  <2>7. QED  BY <2>2, <2>3, <2>4, <2>5, <2>6, Zenon DEF Order
<1>3. QED  BY <1>1, <1>2

\* Order where the task at the head of the queue runs, other than _start's and _close's.
LEMMA OrderRuns ==
  ASSUME TypeOK, Order, NEW t \in Callers, ready # <<>>, Head(ready).task = t,
         UNCHANGED <<startPc, lateLaunch, adopted>>, interrupted'["start"] = interrupted["start"],
         \/ ready' = Tail(ready) /\ UNCHANGED closePc
         \/ /\ closePc = "absent" /\ closePc' = "created"
            /\ ready' = Append(Tail(ready), Resume("close", "ok"))
  PROVE  Order'
<1>0. t # "start" /\ t # "close" /\ ready \in Seq(Wakeup)
  BY CallersAssumption DEF TypeOK
<1>1. /\ Single(Tail(ready))
      /\ \A u : u # t => (Waits(Tail(ready), u) <=> Waits(ready, u))
      /\ Ahead(ready) => Ahead(Tail(ready))
  BY <1>0, Shorter DEF Order
<1>2. CASE ready' = Tail(ready) /\ UNCHANGED closePc
  <2>1. Waits(ready', "close") <=> Waits(ready, "close")
    BY <1>0, <1>1, <1>2
  <2>2. QED  BY <1>1, <1>2, <2>1, Zenon DEF Order
<1>3. CASE closePc = "absent" /\ closePc' = "created" /\ ready' = Append(Tail(ready), Resume("close", "ok"))
  <2>1. ~Waits(Tail(ready), "close") /\ ~lateLaunch
    BY <1>0, <1>1, <1>3 DEF Order
  <2>2. Tail(ready) \in Seq(Wakeup)
    BY <1>0, QueueType
  <2>3. Single(ready') /\ Waits(ready', "close")
    BY <1>1, <1>3, <2>1, <2>2, Longer
  <2>4. QED  BY <1>3, <2>1, <2>3 DEF Order
<1>4. QED  BY <1>2, <1>3

\* Order where the _start task runs.
LEMMA OrderStarts ==
  ASSUME ~ReapMayTimeOut, TypeOK, Handover, Order,
         \/ StartBegins \/ StartResolved \/ StartSpawned \/ StartReaps \/ StartPolls
         \/ StartSucceeds \/ StartRaises
  PROVE  Order'
<1> USE DEF object, tasks, world
<1>0. /\ ready # <<>> /\ Head(ready).task = "start" /\ ready' = Tail(ready) /\ ready \in Seq(Wakeup)
      /\ UNCHANGED closePc
  BY DEF StartBegins, StartResolved, StartSpawned, StartReaps, StartPolls, StartSucceeds, StartRaises,
         Runs, Resumes, TypeOK
<1>1. /\ Single(ready') /\ ~Waits(ready', "start")
      /\ Waits(ready', "close") <=> Waits(ready, "close")
      /\ ~Ahead(ready)
  BY <1>0, Shorter DEF Order
<1>2. Ahead(ready')
  BY <1>1 DEF Ahead, Waits
<1>3. interrupted'["start"] = interrupted["start"]
  BY DEF StartBegins, StartResolved, StartSpawned, StartReaps, StartPolls, StartSucceeds, StartRaises,
         Ack, TypeOK
<1>4. CASE StartBegins \/ StartResolved
  <2>1. ~interrupted["start"] /\ startPc \in {"created", "env"} /\ ~lateLaunch /\ ~adopted
        /\ closePc \in {"absent", "created"} /\ UNCHANGED adopted
    BY <1>4 DEF StartBegins, StartResolved, Order, Handover, TypeOK
  <2>2. \/ startPc' \in {"env", "failed"} /\ UNCHANGED lateLaunch
        \/ startPc' = "spawn" /\ lateLaunch' = (lateLaunch \/ closePc # "absent")
    BY <1>4 DEF StartBegins, StartResolved, SpawnMaster
  <2>3. QED  BY <1>0, <1>1, <1>2, <1>3, <2>1, <2>2 DEF Order, TypeOK, ClosePc
<1>5. CASE StartSpawned
  <2>1. ~lateLaunch /\ ~interrupted["start"] /\ UNCHANGED lateLaunch /\ startPc = "spawn"
    BY <1>1, <1>5 DEF StartSpawned, Order
  <2>2. QED  BY <1>0, <1>1, <1>3, <2>1 DEF Order
<1>6. CASE StartReaps
  BY <1>0, <1>1, <1>3, <1>6 DEF StartReaps, Order
<1>7. CASE StartPolls
  <2>1. ~lateLaunch /\ ~interrupted["start"] /\ UNCHANGED lateLaunch /\ startPc \in {"sleep", "check"}
    BY <1>7 DEF StartPolls, Order
  <2>2. QED  BY <1>0, <1>1, <1>3, <2>1 DEF Order
<1>8. CASE StartSucceeds \/ StartRaises
  BY <1>0, <1>1, <1>3, <1>8 DEF StartSucceeds, StartRaises, Order
<1>9. QED  BY <1>4, <1>5, <1>6, <1>7, <1>8

\* Order where the _close task runs: its first step delivers the cancellation.
LEMMA OrderCloses ==
  ASSUME TypeOK, Order, CloseBegins \/ CloseGathers \/ CloseAsked \/ CloseWaited \/ CloseEnds
  PROVE  Order'
<1> USE DEF object, tasks, world
<1>1. /\ ready # <<>> /\ ready' = Tail(ready) /\ UNCHANGED <<startPc, lateLaunch, adopted>>
      /\ closePc # "absent" /\ closePc' \notin {"absent", "created"} /\ ready \in Seq(Wakeup)
  BY DEF CloseBegins, CloseGathers, CloseAsked, CloseWaited, StageAfterWait, CloseEnds, Teardown, Runs,
         Resumes, TypeOK
<1>2. Single(ready')
  BY <1>1, Shorter DEF Order
<1>3. CASE startPc \in {"absent", "ok", "failed"}
  BY <1>1, <1>2, <1>3 DEF Order
<1>4. CASE startPc \notin {"absent", "ok", "failed"}
  <2>1. interrupted'["start"]
    BY <1>4 DEF CloseBegins, CloseGathers, CloseAsked, CloseWaited, CloseEnds, StartDone,
                CancelStartup, TypeOK, Order
  <2>2. QED  BY <1>1, <1>2, <2>1 DEF Order
<1>5. QED  BY <1>3, <1>4

\* Every step keeps the order of the start and the close.
LEMMA OrderStep ==
  ASSUME ~ReapMayTimeOut, TypeOK, Handover, Order, Next
  PROVE  Order'
<1> USE CallersAssumption DEF object, tasks, clients, loop, world
<1>0. Callers \subseteq Tasks /\ {"start", "close"} \subseteq Tasks /\ Outcome = {"ok", "fail", "error"}
  BY DEF Tasks, Outcome
<1>1. ASSUME NEW c \in Callers, Start(c)  PROVE Order'
  <2>1. closePc = "absent"
    BY <1>1 DEF Start, SingleUse, TypeOK
  <2>2. QED  BY <1>0, <1>1, <2>1, OrderKept DEF Start
<1>2. ASSUME NEW c \in Callers, StartRefused(c) \/ CheckRefused(c) \/ Check(c) \/ Cancel(c) \/ CallerAwakes(c)
      PROVE  Order'
  <2>1. interrupted'["start"] = interrupted["start"]
    BY <1>2 DEF StartRefused, CheckRefused, Check, Cancel, CallerAwakes, TypeOK
  <2>2. QED
    BY <1>0, <1>2, <2>1, OrderKept DEF StartRefused, CheckRefused, Check, Cancel, CallerAwakes, ControlEnds
<1>3. ASSUME NEW c \in Callers, StartReturns(c) \/ StartFails(c) \/ CloseReturns(c) \/ CheckReturns(c)
      PROVE  Order'
  <2>1. interrupted'["start"] = interrupted["start"]
    BY <1>3 DEF StartReturns, StartFails, CloseReturns, CheckReturns, Ack, TypeOK
  <2>2. QED
    BY <1>3, <2>1, OrderRuns
       DEF StartReturns, StartFails, CloseReturns, CheckReturns, JoinClose, Runs, Resumes
<1>4. ASSUME NEW c \in Callers, Close(c)  PROVE Order'
  <2>1. CASE closePc = "absent"
    <3>1. ~Waits(ready, "close") /\ ~lateLaunch /\ Single(ready)
      BY <2>1 DEF Order
    <3>2. ready' = Append(ready, Resume("close", "ok")) /\ ready \in Seq(Wakeup)
      BY <1>4, <2>1 DEF Close, JoinClose, TypeOK
    <3>3. Single(ready') /\ Waits(ready', "close")
      BY <3>1, <3>2, Longer
    <3>4. QED  BY <1>4, <2>1, <3>1, <3>3 DEF Close, JoinClose, Order
  <2>2. CASE closePc # "absent"
    BY <1>4, <2>2, OrderKept DEF Close, JoinClose
  <2>3. QED  BY <2>1, <2>2
<1>5. CASE StartAwakes
  BY <1>0, <1>5, OrderKept DEF StartAwakes, ControlEnds
<1>6. CASE CloseAwakes
  BY <1>0, <1>6, OrderKept DEF CloseAwakes, ExitOverdue
<1>7. CASE Deadline
  <2>1. interrupted'["start"]
    BY <1>7 DEF Deadline, TypeOK
  <2>2. QED  BY <1>7, <2>1, OrderKept DEF Deadline
<1>8. CASE ReapSignals \/ Environment
  BY <1>8, OrderKept
     DEF ReapSignals, Environment, SpawnEnds, Authenticates, SocketVanishes, MasterExits, DrainEnds
<1>9. QED
  BY <1>1, <1>2, <1>3, <1>4, <1>5, <1>6, <1>7, <1>8, OrderStarts, OrderCloses DEF Next, Run, CallerStep

LEMMA OrderInitially == Init => Order
<1>1. Init => Single(ready) /\ ~Waits(ready, "close")
  BY DEF Init, Single, Waits
<1>2. QED  BY <1>1 DEF Init, Order

\* Order is an invariant if no child outlives its SIGKILL.
LEMMA OrderInvariance == ASSUME ~ReapMayTimeOut  PROVE Spec => []Order
<1>1. TypeOK /\ Handover /\ Order /\ [Next]_vars => Order'
  <2>1. ASSUME TypeOK, Handover, Order, UNCHANGED vars  PROVE Order'
    BY <2>1, OrderKept DEF vars, object, tasks, loop
  <2>2. QED  BY <2>1, OrderStep
<1>2. Spec => [](TypeOK /\ Handover)
  <2>1. IInv => TypeOK /\ Handover
    BY DEF IInv
  <2>2. QED  BY <2>1, Invariance, PTL
<1>3. QED  BY <1>1, <1>2, OrderInitially, PTL DEF Spec

\* A master launched after close() had begun is never adopted, unless a child outlived
\* its SIGKILL and swallowed the cancellation (connection.py, _start and _close).
THEOREM LateLaunchNeverAdopted == ASSUME ~ReapMayTimeOut  PROVE Spec => []NoLateAuthentication
<1>1. Order => NoLateAuthentication
  BY DEF Order, NoLateAuthentication
<1>2. QED  BY <1>1, OrderInvariance, PTL

(***************************************************************************)
(* The refinement.                                                         *)
(***************************************************************************)
\* A process that was reaped stays so.
LEMMA ExitedForGood ==
  ASSUME Handover, Next, proc = "exited"
  PROVE  proc' = "exited"
BY DEF Handover, Next, Run, CallerStep, Start, StartRefused, Close, CheckRefused, Check,
       Cancel, CallerAwakes, StartReturns, StartFails, CloseReturns, CheckReturns, JoinClose,
       StartBegins, StartResolved, SpawnMaster, StartSpawned, StartReaps, StartPolls, StartSucceeds,
       StartRaises, StartAwakes, ReapSignals, Deadline, CloseBegins, CloseGathers, CloseAsked,
       CloseWaited, CloseEnds, CloseAwakes, Environment, SpawnEnds, Authenticates, SocketVanishes,
       MasterExits, DrainEnds, object, tasks, clients, loop, world

\* How the awaits of _close end.
LEMMA AnswersStep ==
  ASSUME ~ReapMayTimeOut, TypeOK, Handover, Order, Answers, Next
  PROVE  Answers'
<1> USE CallersAssumption DEF object, tasks, clients, loop, world
<1>0. /\ Callers \subseteq Tasks /\ {"start", "close"} \subseteq Tasks /\ Outcome = {"ok", "fail", "error"}
      /\ ready \in Seq(Wakeup)
  BY DEF Tasks, Outcome, TypeOK
<1>1. ASSUME UNCHANGED closePc, \A w \in Pending(ready') : w.task = "close" => w \in Pending(ready)
      PROVE  Answers'
  BY <1>1, ExitedForGood DEF Answers
<1>2. ASSUME UNCHANGED <<closePc, ready>>  PROVE Answers'
  BY <1>1, <1>2
<1>3. ASSUME NEW t \in Callers \cup {"start"}, NEW o, Awaken(t, o), UNCHANGED closePc  PROVE Answers'
  <2>1. Pending(ready') = Pending(ready) \cup {Resume(t, o)}
    BY <1>0, <1>3, PendingAppend DEF Awaken
  <2>2. Resume(t, o).task # "close"
    BY <1>3 DEF Resume
  <2>3. QED  BY <1>1, <1>3, <2>1, <2>2
<1>4. ASSUME NEW t, NEW O, Runs(t, O), UNCHANGED closePc  PROVE Answers'
  <2>1. Pending(ready') \subseteq Pending(ready)
    BY <1>0, <1>4, PendingTail DEF Runs, Resumes, Order
  <2>2. QED  BY <1>1, <1>4, <2>1
<1>5. ASSUME NEW O, Runs("close", O)  PROVE Answers'
  <2>1. \A w \in Pending(ready') : w.task # "close"
    BY <1>0, <1>5, PendingTail DEF Runs, Resumes, Order
  <2>2. QED  BY <2>1 DEF Answers
<1>6. ASSUME NEW q \in Seq(Wakeup), closePc = "absent", closePc' = "created",
             ready' = Append(q, Resume("close", "ok")), Pending(q) \subseteq Pending(ready)
      PROVE  Answers'
  <2>1. Pending(ready') = Pending(q) \cup {Resume("close", "ok")}
    BY <1>6, PendingAppend
  <2>2. \A w \in Pending(ready) : w.task # "close"
    BY <1>6 DEF Order, Waits, Pending
  <2>3. Resume("close", "ok").outcome # "fail"
    BY DEF Resume
  <2>4. QED  BY <1>6, <2>1, <2>2, <2>3 DEF Answers
<1>7. ASSUME NEW c \in Callers, CallerStep(c)  PROVE Answers'
  <2>1. CASE Close(c) /\ closePc = "absent"
    BY <1>0, <1>6, <2>1 DEF Close, JoinClose
  <2>2. CASE Close(c) /\ closePc # "absent"
    BY <1>2, <2>2 DEF Close, JoinClose
  <2>3. CASE Start(c) \/ CallerAwakes(c)
    BY <1>3, <2>3 DEF Start, CallerAwakes, ControlEnds
  <2>4. CASE StartRefused(c) \/ CheckRefused(c) \/ Check(c) \/ Cancel(c)
    BY <1>2, <2>4 DEF StartRefused, CheckRefused, Check, Cancel
  <2>5. QED  BY <1>7, <2>1, <2>2, <2>3, <2>4 DEF CallerStep
<1>8. ASSUME NEW c \in Callers, StartFails(c)  PROVE Answers'
  <2>1. /\ Pending(Tail(ready)) \subseteq Pending(ready) /\ Tail(ready) \in Seq(Wakeup)
    BY <1>0, <1>8, PendingTail, QueueType DEF StartFails, Resumes, Order
  <2>2. CASE closePc = "absent"
    BY <1>6, <1>8, <2>1, <2>2 DEF StartFails, JoinClose
  <2>3. CASE closePc # "absent"
    BY <1>1, <1>8, <2>1, <2>3 DEF StartFails, JoinClose
  <2>4. QED  BY <2>2, <2>3
<1>9. ASSUME NEW c \in Callers, StartReturns(c) \/ CloseReturns(c) \/ CheckReturns(c)  PROVE Answers'
  BY <1>4, <1>9 DEF StartReturns, CloseReturns, CheckReturns
<1>10. CASE \/ StartBegins \/ StartResolved \/ StartSpawned \/ StartReaps \/ StartPolls
            \/ StartSucceeds \/ StartRaises
  BY <1>4, <1>10 DEF StartBegins, StartResolved, StartSpawned, StartReaps, StartPolls, StartSucceeds,
                     StartRaises
<1>11. CASE StartAwakes
  BY <1>3, <1>11 DEF StartAwakes, ControlEnds
<1>12. CASE CloseBegins \/ CloseGathers \/ CloseAsked \/ CloseWaited \/ CloseEnds
  BY <1>5, <1>12 DEF CloseBegins, CloseGathers, CloseAsked, CloseWaited, CloseEnds
<1>13. CASE CloseAwakes
  <2>1. PICK o \in {"ok", "fail"} : /\ Awaken("close", o) /\ (o = "fail" => closePc = "waitexit")
                                    /\ closePc \in {"stop", "stop2"} => proc = "exited"
    BY <1>13 DEF CloseAwakes, ExitOverdue
  <2>2. Pending(ready') = Pending(ready) \cup {Resume("close", o)} /\ UNCHANGED <<closePc, proc>>
    BY <1>0, <1>13, <2>1, PendingAppend DEF Awaken, CloseAwakes
  <2>3. Resume("close", o).outcome = o
    BY DEF Resume
  <2>4. QED  BY <2>1, <2>2, <2>3 DEF Answers
<1>14. CASE ReapSignals \/ Deadline \/ Environment
  BY <1>2, <1>14 DEF ReapSignals, Deadline, Environment, SpawnEnds, Authenticates, SocketVanishes,
                     MasterExits, DrainEnds
<1>15. QED
  BY <1>7, <1>8, <1>9, <1>10, <1>11, <1>12, <1>13, <1>14 DEF Next, Run

\* Without faults of the environment nothing is left of what startup created.
LEMMA PromptStep ==
  ASSUME ~ReapMayTimeOut, ~RemoveMayFail, TypeOK, Handover, Closing, Order, Answers, Prompt, Next
  PROVE  Prompt'
<1> USE DEF object, tasks, clients, loop, world, Dead
<1>0. ASSUME UNCHANGED <<startPc, closePc, adopted, proc, runtime, drain>>  PROVE Prompt'
  BY <1>0 DEF Prompt
<1>1. ASSUME NEW c \in Callers, CallerStep(c)  PROVE Prompt'
  <2>1. CASE Start(c)
    BY <2>1 DEF Start, SingleUse, TypeOK, Prompt
  <2>2. CASE Close(c)
    BY <2>2 DEF Close, JoinClose, Prompt
  <2>3. CASE StartRefused(c) \/ CheckRefused(c) \/ Check(c) \/ Cancel(c) \/ CallerAwakes(c)
    BY <1>0, <2>3 DEF StartRefused, CheckRefused, Check, Cancel, CallerAwakes
  <2>4. QED  BY <1>1, <2>1, <2>2, <2>3 DEF CallerStep
<1>2. ASSUME NEW c \in Callers, StartReturns(c) \/ StartFails(c) \/ CloseReturns(c) \/ CheckReturns(c)
      PROVE  Prompt'
  BY <1>2 DEF StartReturns, StartFails, JoinClose, CloseReturns, CheckReturns, Prompt
<1>3. CASE StartBegins
  BY <1>3 DEF StartBegins, SpawnMaster, Closing, Handover, Prompt
<1>4. CASE StartResolved
  BY <1>4 DEF StartResolved, SpawnMaster, Closing, Prompt
<1>5. CASE StartSpawned
  BY <1>5 DEF StartSpawned, WaitReadyTurn, Closing, Prompt
<1>6. CASE StartReaps \/ StartPolls \/ StartSucceeds
  BY <1>6 DEF StartReaps, StartPolls, StartSucceeds, WaitReadyTurn, Closing, Prompt
<1>7. CASE StartRaises
  <2>1. /\ UNCHANGED <<closePc, adopted, proc, runtime>> /\ startPc' = "failed"
        /\ startPc \in {"env", "spawn", "reap", "sleep", "check", "drain"}
        /\ drain' = (IF startPc = "drain" THEN "done" ELSE drain)
    BY <1>7 DEF StartRaises
  <2>2. ~adopted => Dead
    BY <1>7 DEF StartRaises, Reaped, Handover
  <2>3. QED  BY <2>1, <2>2 DEF Handover, Closing, Prompt
<1>8. CASE CloseBegins \/ CloseGathers
  <2>1. closePc' \in {"drain", "done"} => Dead'
    BY <1>8 DEF CloseBegins, CloseGathers, Gathered, Teardown, StartDone, Handover, Prompt
  <2>2. closePc' # "done" /\ UNCHANGED <<startPc, adopted, proc, runtime, drain>>
    BY <1>8 DEF CloseBegins, CloseGathers, Teardown
  <2>3. QED  BY <2>1, <2>2 DEF Prompt
<1>9. CASE CloseAsked
  BY <1>9 DEF CloseAsked, Prompt
<1>10. CASE CloseWaited
  <2>1. closePc = "stop2" => proc = "exited"
    <3>1. Head(ready) \in Pending(ready) /\ Head(ready).task = "close"
      BY <1>10, PendingTail DEF CloseWaited, Runs, Resumes, TypeOK, Order
    <3>2. QED  BY <3>1 DEF Answers
  <2>2. QED  BY <1>10, <2>1 DEF CloseWaited, StageAfterWait, Prompt
<1>11. CASE CloseEnds
  <2>1. Head(ready).outcome = "ok"
    <3>1. Head(ready) \in Pending(ready) /\ Head(ready).task = "close" /\ Head(ready).outcome \in {"ok", "fail"}
      BY <1>11, PendingTail DEF CloseEnds, Runs, Resumes, TypeOK, Order
    <3>2. QED  BY <1>11, <3>1 DEF Answers, CloseEnds
  <2>2. QED  BY <1>11, <2>1 DEF CloseEnds, Prompt
<1>12. CASE StartAwakes \/ CloseAwakes \/ Deadline \/ ReapSignals
  BY <1>0, <1>12 DEF StartAwakes, CloseAwakes, Deadline, ReapSignals
<1>13. CASE Environment
  BY <1>13 DEF Environment, SpawnEnds, Authenticates, SocketVanishes, MasterExits, DrainEnds, Prompt
<1>14. QED
  BY <1>1, <1>2, <1>3, <1>4, <1>5, <1>6, <1>7, <1>8, <1>9, <1>10, <1>11, <1>12, <1>13 DEF Next, Run

\* A step that changes nothing the owner sees is a stutter.
LEMMA Unseen ==
  ASSUME UNCHANGED <<Phase, proc, runtime, drain>>
  PROVE  UNCHANGED Lifecycle!vars
BY DEF Lifecycle!vars, Held, Spent

\* The master or its stderr drain ends, or nothing does.
LEMMA Losing ==
  ASSUME TypeOK, Handover, Closing, Prompt, UNCHANGED <<Phase, runtime>>,
         NEW r \in {"process", "drain"},
         \/ /\ r = "process" /\ UNCHANGED drain
            /\ \/ proc = "spawning" /\ proc' \in {"running", "failed"}
               \/ proc = "running" /\ proc' = "exited"
         \/ r = "drain" /\ UNCHANGED proc /\ drain # "none" /\ drain' = "done"
  PROVE  [Lifecycle!Lose]_Lifecycle!vars
<1>1. UNCHANGED Spent
  BY DEF Spent
<1>2. Held' = Held \/ (r \in Held /\ Held' = Held \ {r})
  BY DEF Held
<1>3. r \in Held => Phase \in {"opening", "serving", "closing"}
  <2>1. ASSUME r \in Held  PROVE closePc # "done" /\ startPc # "absent"
    BY <2>1 DEF Held, Handover, Prompt, Dead
  <2>2. QED  BY <2>1 DEF Phase
<1>4. QED  BY <1>1, <1>2, <1>3 DEF Lifecycle!Lose, Lifecycle!vars

\* Each step of the detailed object is one of its life, or none.
LEMMA LifecycleStep ==
  ASSUME ~ReapMayTimeOut, ~RemoveMayFail, TypeOK, Handover, Closing, Order, Answers, Prompt, Next
  PROVE  [Lifecycle!Next]_Lifecycle!vars
<1> USE DEF object, tasks, clients, loop, world
<1> DEFINE All == {"process", "runtime", "drain"}
<1>0. ASSUME [Lifecycle!Lose]_Lifecycle!vars  PROVE [Lifecycle!Next]_Lifecycle!vars
  BY <1>0 DEF Lifecycle!Next
<1>1. ASSUME NEW R \in SUBSET All, R # {}, R \cap Spent = {}, Spent' = Spent \cup R,
             NEW T \in SUBSET R, Held' = Held \cup T,
             startPc \notin {"absent", "ok"}, startPc' \notin {"absent", "ok"},
             UNCHANGED closePc, closePc # "done"
      PROVE  Lifecycle!Next
  <2>1. Phase \in {"opening", "closing"} /\ Phase' = Phase
    BY <1>1 DEF Phase
  <2>2. Lifecycle!Acquire
    BY <1>1, <2>1 DEF Lifecycle!Acquire
  <2>3. QED  BY <2>2 DEF Lifecycle!Next
<1>2. ASSUME NEW c \in Callers, Start(c)  PROVE Lifecycle!Open
  <2>1. Phase = "new" /\ Phase' = "opening" /\ UNCHANGED <<proc, runtime, drain>>
    BY <1>2 DEF Start, SingleUse, TypeOK, Phase
  <2>2. UNCHANGED <<Held, Spent>>
    BY <2>1 DEF Held, Spent
  <2>3. QED  BY <2>1, <2>2 DEF Lifecycle!Open
<1>3. ASSUME NEW c \in Callers, Close(c) \/ StartFails(c)  PROVE [Lifecycle!Close]_Lifecycle!vars
  <2>1. UNCHANGED <<startPc, proc, runtime, drain>>
    BY <1>3 DEF Close, StartFails, JoinClose
  <2>2. CASE closePc' = closePc
    BY <2>1, <2>2, Unseen DEF Phase
  <2>3. CASE closePc' # closePc
    <3>1. closePc = "absent" /\ closePc' = "created"
      BY <1>3, <2>3 DEF Close, StartFails, JoinClose
    <3>2. Phase \in {"new", "opening", "serving"} /\ Phase' = "closing"
      BY <3>1 DEF Phase
    <3>3. UNCHANGED <<Held, Spent>>
      BY <2>1 DEF Held, Spent
    <3>4. QED  BY <3>2, <3>3 DEF Lifecycle!Close
  <2>4. QED  BY <2>2, <2>3
<1>4. ASSUME NEW c \in Callers,
             \/ StartRefused(c) \/ CheckRefused(c) \/ Check(c) \/ Cancel(c) \/ CallerAwakes(c)
             \/ StartReturns(c) \/ CloseReturns(c) \/ CheckReturns(c)
      PROVE  UNCHANGED Lifecycle!vars
  BY <1>4, Unseen DEF StartRefused, CheckRefused, Check, Cancel, CallerAwakes, StartReturns,
                      CloseReturns, CheckReturns, Phase
<1>5. CASE StartBegins
  <2>1. /\ startPc = "created" /\ startPc' \in {"env", "spawn", "failed"} /\ UNCHANGED <<closePc, drain>>
        /\ proc = "none" /\ runtime = "none" /\ closePc # "done"
    BY <1>5 DEF StartBegins, SpawnMaster, Handover, Closing, Prompt
  <2>2. CASE runtime' = "none"
    <3>1. UNCHANGED proc /\ Phase' = Phase
      BY <1>5, <2>1, <2>2 DEF StartBegins, SpawnMaster, Phase
    <3>2. QED  BY <2>1, <2>2, <3>1, Unseen
  <2>3. CASE runtime' \in {"present", "removed"} /\ proc' = "none"
    <3> DEFINE T == IF runtime' = "present" THEN {"runtime"} ELSE {}
    <3>1. {"runtime"} \cap Spent = {} /\ Spent' = Spent \cup {"runtime"}
      BY <2>1, <2>3 DEF Spent
    <3>2. T \in SUBSET {"runtime"} /\ Held' = Held \cup T
      BY <2>1, <2>3 DEF Held
    <3>3. {"runtime"} \in SUBSET All
      OBVIOUS
    <3> HIDE DEF T
    <3>4. QED  BY <1>1, <2>1, <3>1, <3>2, <3>3
  <2>4. CASE runtime' = "present" /\ proc' = "spawning"
    <3> DEFINE R == {"runtime", "process"}
    <3>1. R \cap Spent = {} /\ Spent' = Spent \cup R
      BY <2>1, <2>4 DEF Spent
    <3>2. Held' = Held \cup R
      BY <2>1, <2>4 DEF Held
    <3>3. R \in SUBSET All /\ R # {} /\ R \in SUBSET R
      OBVIOUS
    <3> HIDE DEF R
    <3>4. QED  BY <1>1, <2>1, <3>1, <3>2, <3>3
  <2>5. QED
    BY <1>5, <2>1, <2>2, <2>3, <2>4 DEF StartBegins, SpawnMaster
<1>6. CASE StartResolved
  <2>1. /\ startPc = "env" /\ startPc' = "spawn" /\ UNCHANGED <<closePc, drain, runtime>>
        /\ proc = "none" /\ proc' = "spawning" /\ closePc # "done"
    BY <1>6 DEF StartResolved, SpawnMaster, Handover, Closing
  <2> DEFINE R == {"process"}
  <2>2. R \cap Spent = {} /\ Spent' = Spent \cup R
    BY <2>1 DEF Spent
  <2>3. Held' = Held \cup R
    BY <2>1 DEF Held
  <2>4. R \in SUBSET All /\ R # {} /\ R \in SUBSET R
    OBVIOUS
  <2> HIDE DEF R
  <2>5. QED  BY <1>1, <2>1, <2>2, <2>3, <2>4
<1>7. CASE StartSpawned
  <2>1. /\ startPc = "spawn" /\ startPc' \in {"drain", "check", "sleep"}
        /\ UNCHANGED <<closePc, proc, runtime>> /\ drain = "none" /\ drain' = "running" /\ closePc # "done"
    BY <1>7 DEF StartSpawned, WaitReadyTurn, Handover, Closing, Prompt
  <2> DEFINE R == {"drain"}
  <2>2. R \cap Spent = {} /\ Spent' = Spent \cup R
    BY <2>1 DEF Spent
  <2>3. Held' = Held \cup R
    BY <2>1 DEF Held
  <2>4. R \in SUBSET All /\ R # {} /\ R \in SUBSET R
    OBVIOUS
  <2> HIDE DEF R
  <2>5. QED  BY <1>1, <2>1, <2>2, <2>3, <2>4
<1>8. CASE StartReaps \/ StartPolls
  <2>1. Phase' = Phase
    BY <1>8 DEF StartReaps, StartPolls, WaitReadyTurn, Phase
  <2>2. QED  BY <1>8, <2>1, Unseen DEF StartReaps, StartPolls
<1>9. CASE StartSucceeds
  <2>1. /\ startPc = "check" /\ startPc' = "ok" /\ UNCHANGED <<closePc, proc, runtime, drain>>
        /\ proc # "none" /\ runtime # "none" /\ drain # "none" /\ closePc # "done"
    BY <1>9 DEF StartSucceeds, Handover, Prompt, Closing
  <2>2. CASE closePc = "absent"
    <3>1. Phase = "opening" /\ Phase' = "serving"
      BY <2>1, <2>2 DEF Phase
    <3>2. Spent' = All
      BY <2>1 DEF Spent
    <3>3. Held' = Held \cup {} /\ {} \in SUBSET (All \ Spent)
      BY <2>1 DEF Held
    <3>4. Lifecycle!Serve
      BY <3>1, <3>2, <3>3 DEF Lifecycle!Serve
    <3>5. QED  BY <3>4 DEF Lifecycle!Next
  <2>3. CASE closePc # "absent"
    <3>1. Phase' = Phase
      BY <2>1, <2>3 DEF Phase
    <3>2. QED  BY <2>1, <3>1, Unseen
  <2>4. QED  BY <2>2, <2>3
<1>10. CASE StartRaises
  <2>1. /\ startPc \notin {"absent", "ok"} /\ startPc' = "failed" /\ UNCHANGED <<closePc, proc, runtime>>
        /\ drain' = drain \/ (startPc = "drain" /\ drain' = "done")
    BY <1>10 DEF StartRaises
  <2>2. Phase' = Phase
    BY <2>1 DEF Phase
  <2>3. CASE drain' = drain
    BY <2>1, <2>2, <2>3, Unseen
  <2>4. CASE startPc = "drain" /\ drain' = "done"
    <3>1. drain # "none"
      BY <2>4 DEF Handover, Prompt
    <3>2. QED  BY <1>0, <2>1, <2>2, <2>4, <3>1, Losing
  <2>5. QED  BY <2>1, <2>3, <2>4
<1>11. CASE StartAwakes \/ CloseAwakes \/ Deadline \/ ReapSignals
  BY <1>11, Unseen DEF StartAwakes, CloseAwakes, Deadline, ReapSignals, Phase
<1>12. CASE CloseBegins \/ CloseGathers \/ CloseAsked \/ CloseWaited
  <2>1. /\ closePc \notin {"absent", "done"} /\ closePc' \notin {"absent", "done"}
        /\ UNCHANGED <<proc, runtime, drain>>
    BY <1>12 DEF CloseBegins, CloseGathers, CloseAsked, CloseWaited, StageAfterWait, Teardown
  <2>2. Phase' = Phase
    BY <2>1 DEF Phase
  <2>3. QED  BY <2>1, <2>2, Unseen
<1>13. CASE CloseEnds
  <2>1. closePc = "drain" /\ closePc' = "done" /\ UNCHANGED proc /\ Dead
    BY <1>13 DEF CloseEnds, Prompt
  <2>2. Phase = "closing" /\ Phase' = "closed"
    BY <2>1 DEF Phase
  <2>3. /\ (drain' = "none" <=> drain = "none") /\ (runtime' = "none" <=> runtime = "none")
        /\ drain' # "running" /\ runtime' # "present"
    <3>1. Prompt'
      BY PromptStep
    <3>2. QED  BY <1>13, <2>1, <3>1 DEF CloseEnds, Prompt
  <2>4. UNCHANGED Spent
    BY <2>1, <2>3 DEF Spent
  <2>5. Held' = {}
    BY <2>1, <2>3 DEF Held, Dead
  <2>6. QED  BY <2>2, <2>4, <2>5 DEF Lifecycle!Finish, Lifecycle!Next
<1>14. CASE Environment
  <2>1. Phase' = Phase
    BY <1>14 DEF Environment, SpawnEnds, Authenticates, SocketVanishes, MasterExits, DrainEnds, Phase
  <2>2. CASE Authenticates \/ SocketVanishes
    BY <2>1, <2>2, Unseen DEF Authenticates, SocketVanishes
  <2>3. CASE SpawnEnds \/ MasterExits \/ DrainEnds
    BY <1>0, <2>1, <2>3, Losing DEF SpawnEnds, MasterExits, DrainEnds
  <2>4. QED  BY <1>14, <2>2, <2>3 DEF Environment
<1>15. QED
  BY <1>0, <1>2, <1>3, <1>4, <1>5, <1>6, <1>7, <1>8, <1>9, <1>10, <1>11, <1>12, <1>13, <1>14
     DEF Next, Run, CallerStep, Lifecycle!Next

\* Without faults of the environment the object implements the safety of
\* ObjectLifecycle: its life goes one way, whatever its callers do, every resource is
\* acquired once, and none outlives close() (connection.py, _start and _close).
THEOREM ImplementsLifecycle ==
  ASSUME ~ReapMayTimeOut, ~RemoveMayFail
  PROVE  Spec => Lifecycle!Init /\ [][Lifecycle!Next]_Lifecycle!vars
<1> DEFINE I == TypeOK /\ Handover /\ Closing /\ Order
           J == Answers /\ Prompt
<1>1. Init => Lifecycle!Init
  BY DEF Init, Lifecycle!Init, Phase, Held, Spent
<1>2. Init => J
  BY DEF Init, Answers, Prompt, Pending, Dead
<1>3. I /\ J /\ [Next]_vars => J'
  <2>1. ASSUME J, UNCHANGED vars  PROVE J'
    BY <2>1 DEF vars, object, tasks, loop, world, Answers, Prompt, Dead
  <2>2. QED  BY <2>1, AnswersStep, PromptStep
<1>4. I /\ J /\ [Next]_vars => [Lifecycle!Next]_Lifecycle!vars
  <2>1. ASSUME UNCHANGED vars  PROVE UNCHANGED Lifecycle!vars
    BY <2>1, Unseen DEF vars, object, tasks, loop, world, Phase
  <2>2. QED  BY <2>1, LifecycleStep
<1>5. Spec => []I
  <2>1. IInv => TypeOK /\ Handover /\ Closing
    BY DEF IInv
  <2>2. QED  BY <2>1, Invariance, OrderInvariance, PTL
<1> HIDE DEF I, J
<1>6. QED  BY <1>1, <1>2, <1>3, <1>4, <1>5, PTL DEF Spec

=============================================================================
