----------------------------- MODULE OwnedHelper -----------------------------
(***************************************************************************)
(* One owned child process from spawn_owned to its end: _process.py under  *)
(* its users.  A helper (_control_operation, _run_probe) is spawned,       *)
(* waited for with a timeout and always stopped and drained afterwards; a  *)
(* lingering child (the ssh client of an OwnedRemoteProcess) is handed to  *)
(* its owner, and gets time to end by itself if its spawn is cancelled.    *)
(*                                                                         *)
(* Three asyncio tasks take part: the caller, the creation of the process  *)
(* and the cleanup.  The caller may be cancelled at any of its awaits, and *)
(* again while it waits for the cleanup; the other two are shielded.       *)
(***************************************************************************)
EXTENDS ProcessGroup

CONSTANTS ReapMayTimeOut,  \* may a SIGKILLed child stay unreaped past its bound?
          PidsAreReused    \* may a reaped leader's id come to name another group?

ASSUME HelperAssumption == ReapMayTimeOut \in BOOLEAN /\ PidsAreReused \in BOOLEAN

VARIABLES lingers,      \* owner_close_timeout was given
          callPc,       \* where the caller is
          creation,     \* the task of create_subprocess_exec
          cleanPc,      \* _reap_cancelled_spawn, or cleanup()
          drains,       \* the tasks that read the child's output
          interrupted,  \* a cancellation was requested and not delivered yet
          cancelled,    \* a CancelledError is on its way to the caller's caller
          result,       \* what the call came to
          foreign,      \* the child's process id names a group that is not ours
          struck        \* history: that group was signalled

caller == <<callPc, interrupted, cancelled, result>>
vars   == <<group, lingers, caller, creation, cleanPc, drains, foreign, struck>>

Init ==
  /\ GroupInit /\ lingers \in BOOLEAN
  /\ callPc = "spawning" /\ creation = "pending" /\ cleanPc = "absent" /\ drains = "none"
  /\ interrupted = FALSE /\ cancelled = FALSE /\ result = "none"
  /\ foreign = FALSE /\ struck = FALSE

CleanupOver_OrInterrupted == cleanPc \in {"done", "failed"} \/ interrupted
CleanupOver_OnlyDone == cleanPc = "done"
CleanupOver == cleanPc \in {"done", "failed"}

(***************************************************************************)
(* The caller.                                                             *)
(***************************************************************************)
Return(r) == callPc' = "over" /\ result' = r

\* asyncio.shield(task) ends with the process, or with its OSError.
SpawnReturns ==
  /\ callPc = "spawning" /\ ~interrupted
  /\ \/ creation = "done" /\ lingers /\ Return("owned") /\ UNCHANGED drains
     \/ /\ creation = "done" /\ ~lingers /\ callPc' = "running" /\ drains' = "running"
        /\ UNCHANGED result
     \/ creation = "failed" /\ Return("oserror") /\ UNCHANGED drains
  /\ UNCHANGED <<group, lingers, interrupted, cancelled, creation, cleanPc, foreign, struck>>

\* The cancelled caller leaves the creation alone and has its process recovered.
SpawnCancelled ==
  /\ callPc = "spawning" /\ interrupted
  /\ callPc' = "recovering" /\ cleanPc' = "await" /\ interrupted' = FALSE /\ cancelled' = TRUE
  /\ UNCHANGED <<group, lingers, result, creation, drains, foreign, struck>>

\* The helper has ended and its output too, or the timeout or a cancellation
\* comes first: in each case the cleanup follows.
HelperEnds ==
  /\ callPc = "running" /\ callPc' = "finishing" /\ cleanPc' = "term"
  /\ \/ leader = "reaped" /\ drains = "ended" /\ ~interrupted /\ result' = "ok" /\ UNCHANGED cancelled
     \/ ~interrupted /\ result' = "timeout" /\ UNCHANGED cancelled
     \/ interrupted /\ cancelled' = TRUE /\ UNCHANGED result
  /\ interrupted' = FALSE
  /\ UNCHANGED <<group, lingers, creation, drains, foreign, struck>>

Outcome_KeepsResult(c) ==
  IF cleanPc = "failed" THEN "error" ELSE IF c /\ result = "none" THEN "cancelled" ELSE result
Outcome(c) == IF cleanPc = "failed" THEN "error" ELSE IF c THEN "cancelled" ELSE result

\* One turn of complete_task: a cancellation is remembered, the task's end ends it.
CompleteTask ==
  /\ callPc \in {"recovering", "finishing"} /\ (interrupted \/ CleanupOver)
  /\ cancelled' = (cancelled \/ interrupted) /\ interrupted' = FALSE
  /\ IF ~CleanupOver THEN UNCHANGED <<callPc, result>>
     ELSE Return(Outcome(cancelled'))
  /\ UNCHANGED <<group, lingers, creation, cleanPc, drains, foreign, struck>>

(***************************************************************************)
(* The cleanup: stop_group, then finish_tasks, whatever stop_group raises. *)
(***************************************************************************)

\* _reap_cancelled_spawn gets the process, if there will be one.
Recover ==
  /\ cleanPc = "await"
  /\ \/ creation = "failed" /\ cleanPc' = "done" /\ UNCHANGED drains
     \/ /\ creation = "done" /\ drains' = "running"
        /\ cleanPc' = IF lingers THEN "linger" ELSE "term"
  /\ UNCHANGED <<group, lingers, caller, creation, foreign, struck>>

\* owner_close_timeout: the child ends by itself, or it is stopped.
Linger ==
  /\ cleanPc = "linger" /\ (cleanPc' = "term" \/ (leader = "reaped" /\ cleanPc' = "drain"))
  /\ UNCHANGED <<group, lingers, caller, creation, drains, foreign, struck>>

\* os.killpg finds a group with the child's id.
Found == Signalable \/ foreign

StopTerminates ==
  /\ cleanPc = "term" /\ cleanPc' = (IF Found THEN "poll" ELSE "wait")
  /\ struck' = (struck \/ foreign)
  /\ UNCHANGED <<group, lingers, caller, creation, drains, foreign>>

\* The group is gone, or the grace time is over and it is sent SIGKILL.
StopPolls ==
  /\ cleanPc = "poll" /\ cleanPc' = "wait"
  /\ killed' = (killed \/ Signalable) /\ struck' = (struck \/ foreign)
  /\ UNCHANGED <<leader, members, lingers, caller, creation, drains, foreign>>

StopReaps ==
  /\ cleanPc = "wait"
  /\ \/ leader = "reaped" /\ cleanPc' = "drain"
     \/ ReapMayTimeOut /\ leader # "reaped" /\ cleanPc' = "raise"
  /\ UNCHANGED <<group, lingers, caller, creation, drains, foreign, struck>>

FinishTasks ==
  /\ cleanPc \in {"drain", "raise"} /\ drains' = "ended"
  /\ cleanPc' = IF cleanPc = "drain" THEN "done" ELSE "failed"
  /\ UNCHANGED <<group, lingers, caller, creation, foreign, struck>>

Cleanup == Recover \/ Linger \/ StopTerminates \/ StopPolls \/ StopReaps \/ FinishTasks

(***************************************************************************)
(* The environment.                                                        *)
(***************************************************************************)
Cancel ==
  /\ callPc # "over" /\ ~interrupted /\ interrupted' = TRUE
  /\ UNCHANGED <<group, lingers, callPc, cancelled, result, creation, cleanPc, drains, foreign, struck>>

Create ==
  /\ creation = "pending"
  /\ \/ creation' = "done" /\ leader' = "running"
     \/ creation' = "failed" /\ UNCHANGED leader
  /\ UNCHANGED <<members, killed, lingers, caller, cleanPc, drains, foreign, struck>>

\* asyncio's child watcher.
WatcherReaps ==
  /\ leader = "zombie" /\ leader' = "reaped"
  /\ UNCHANGED <<members, killed, lingers, caller, creation, cleanPc, drains, foreign, struck>>

DrainsEnd ==
  /\ drains = "running" /\ drains' = "ended"
  /\ UNCHANGED <<group, lingers, caller, creation, cleanPc, foreign, struck>>

GroupMoves == GroupStep /\ UNCHANGED <<lingers, caller, creation, cleanPc, drains, foreign, struck>>

\* The id is free once nothing of the group is left, and then may be taken.
IdIsReused ==
  /\ PidsAreReused /\ leader = "reaped" /\ members = {} /\ foreign' = ~foreign
  /\ UNCHANGED <<group, lingers, caller, creation, cleanPc, drains, struck>>

Caller == SpawnReturns \/ SpawnCancelled \/ HelperEnds \/ CompleteTask

Finished == callPc = "over" /\ UNCHANGED vars

Next ==
  \/ Caller \/ Cleanup \/ Cancel \/ Create \/ WatcherReaps \/ DrainsEnd
  \/ GroupMoves \/ IdIsReused \/ Finished

Spec == Init /\ [][Next]_vars

\* asyncio runs every task and timer, a creation ends, and what was sent SIGKILL dies.
Fairness ==
  /\ WF_vars(Caller) /\ WF_vars(Cleanup) /\ WF_vars(Create) /\ WF_vars(WatcherReaps)
  /\ WF_vars(killed /\ LeaderExits /\ GroupMoves)

FairSpec == Spec /\ Fairness

(***************************************************************************)
(* Properties.                                                             *)
(***************************************************************************)
\* Type invariant; only a process that was created has its output read.
TypeOK ==
  /\ GroupTypeOK /\ lingers \in BOOLEAN /\ foreign \in BOOLEAN /\ struck \in BOOLEAN
  /\ callPc \in {"spawning", "running", "recovering", "finishing", "over"}
  /\ creation \in {"pending", "done", "failed"}
  /\ cleanPc \in {"absent", "await", "linger", "term", "poll", "wait", "drain", "raise",
                  "done", "failed"}
  /\ drains \in {"none", "running", "ended"} /\ (drains # "none" => creation = "done")
  /\ interrupted \in BOOLEAN /\ cancelled \in BOOLEAN
  /\ result \in {"none", "owned", "ok", "timeout", "oserror", "cancelled", "error"}

\* A call that is over, however it was interrupted, has its process: nothing of it
\* is left that was not sent SIGKILL, and nobody reads its output any more.  Only
\* the descendants of a lingering child that ended by itself are left alone.
NothingLeft ==
  callPc = "over" /\ result # "owned" =>
    \/ creation = "failed"
    \/ /\ creation = "done" /\ drains = "ended" /\ (leader = "reaped" \/ killed)
       /\ lingers \/ ~Survives

\* A cancellation is never lost: the call ends with it, unless its cleanup fails.
CancellationKept ==
  callPc = "over" /\ cancelled => result = IF cleanPc = "failed" THEN "error" ELSE "cancelled"

\* stop_group signals the group of its own child and no other.
OnlyOwnGroup == ~struck

\* Every call ends, although its caller may be cancelled again and again.
CallEnds == <>(callPc = "over")
=============================================================================
