-------------------------- MODULE OwnedHelper_proofs --------------------------
(***************************************************************************)
(* That no interruption of its caller loses an owned process, for every    *)
(* set of descendants, whether or not children can be reaped in time and   *)
(* process ids are reused.                                                 *)
(*                                                                         *)
(* NothingLeft speaks of finished calls only.  Hold says who answers for   *)
(* the process before that (the creation, the caller or the cleanup), and  *)
(* Stopping what each stage of the cleanup has achieved.                   *)
(***************************************************************************)
EXTENDS OwnedHelper, TLAPS

Stopped == (leader = "reaped" /\ members = {}) \/ killed

Hold ==
  /\ creation = "done" <=> leader # "unborn"
  /\ leader = "unborn" => members = {}
  /\ callPc \in {"spawning", "running"} => cleanPc = "absent" /\ ~cancelled
  /\ callPc \in {"recovering", "finishing"} => cleanPc # "absent"
  /\ callPc \in {"running", "finishing"} => creation = "done" /\ ~lingers
  /\ callPc = "over" => \/ cleanPc = "absent" /\ result = "owned" /\ ~cancelled
                        \/ cleanPc = "absent" /\ creation = "failed" /\ ~cancelled
                        \/ CleanupOver

Stopping ==
  /\ cleanPc \in {"linger", "term", "poll", "wait", "drain", "raise", "failed"} => creation = "done"
  /\ cleanPc = "linger" => lingers
  /\ cleanPc \in {"wait", "raise", "failed"} => Stopped
  /\ cleanPc = "drain" => leader = "reaped" /\ (lingers \/ Stopped)
  /\ cleanPc = "failed" => drains = "ended"
  /\ cleanPc = "done" => \/ creation = "failed"
                         \/ creation = "done" /\ drains = "ended" /\ leader = "reaped"
                            /\ (lingers \/ Stopped)

IInv == TypeOK /\ Hold /\ Stopping /\ CancellationKept

\* The states of Init satisfy the invariant.
LEMMA InitIInv == Init => IInv
<1> SUFFICES ASSUME Init PROVE IInv
  OBVIOUS
<1>1. TypeOK BY DEF Init, GroupInit, TypeOK, GroupTypeOK
<1>2. Hold /\ Stopping /\ CancellationKept
  BY DEF Init, GroupInit, Hold, Stopping, CancellationKept
<1> QED BY <1>1, <1>2 DEF IInv

\* A step of the caller: it takes the process over, or leaves it to a cleanup.
LEMMA CallerIInv == ASSUME IInv, Caller PROVE IInv'
<1> USE DEF IInv, caller, group
<1>1. CASE SpawnReturns
  <2>1. TypeOK'
    <3>1. /\ callPc' \in {"over", "running"} /\ result' \in {result, "owned", "oserror"}
          /\ drains' = drains \/ (drains' = "running" /\ creation = "done")
      BY <1>1 DEF SpawnReturns, Return
    <3>2. UNCHANGED <<group, lingers, interrupted, cancelled, creation, cleanPc, foreign, struck>>
      BY <1>1, Zenon DEF SpawnReturns
    <3> QED BY <3>1, <3>2 DEF TypeOK, GroupTypeOK
  <2>2. Hold' BY <1>1 DEF SpawnReturns, Return, Hold, CleanupOver
  <2>3. Stopping' BY <1>1 DEF SpawnReturns, Return, Stopping, Stopped, Hold
  <2>4. CancellationKept' BY <1>1 DEF SpawnReturns, Return, CancellationKept, Hold
  <2> QED BY <2>1, <2>2, <2>3, <2>4
<1>2. CASE SpawnCancelled
  <2>1. TypeOK' BY <1>2 DEF SpawnCancelled, TypeOK, GroupTypeOK
  <2>2. Hold' BY <1>2 DEF SpawnCancelled, Hold, CleanupOver
  <2>3. Stopping' BY <1>2 DEF SpawnCancelled, Stopping, Stopped
  <2>4. CancellationKept' BY <1>2 DEF SpawnCancelled, CancellationKept
  <2> QED BY <2>1, <2>2, <2>3, <2>4
<1>3. CASE HelperEnds
  <2>1. TypeOK'
    <3>1. /\ callPc' = "finishing" /\ cleanPc' = "term"
          /\ result' \in {result, "ok", "timeout"}
      BY <1>3 DEF HelperEnds
    <3>2. UNCHANGED <<group, lingers, creation, drains, foreign, struck>>
      BY <1>3, Zenon DEF HelperEnds
    <3>3. interrupted' \in BOOLEAN /\ cancelled' \in BOOLEAN
      BY <1>3, Zenon DEF HelperEnds, TypeOK
    <3> QED BY <3>1, <3>2, <3>3 DEF TypeOK, GroupTypeOK
  <2>2. Hold' BY <1>3 DEF HelperEnds, Hold, CleanupOver
  <2>3. Stopping' BY <1>3 DEF HelperEnds, Stopping, Stopped, Hold
  <2>4. CancellationKept' BY <1>3 DEF HelperEnds, CancellationKept
  <2> QED BY <2>1, <2>2, <2>3, <2>4
<1>4. CASE CompleteTask
  <2>1. TypeOK'
    <3>1. cancelled' \in BOOLEAN /\ interrupted' \in BOOLEAN BY <1>4, Zenon DEF CompleteTask
    <3>2. callPc' \in {callPc, "over"} BY <1>4 DEF CompleteTask, Return
    <3>3. result' \in {result, "error", "cancelled"} BY <1>4 DEF CompleteTask, Return, Outcome
    <3>4. UNCHANGED <<group, lingers, creation, cleanPc, drains, foreign, struck>>
      BY <1>4, Zenon DEF CompleteTask
    <3> QED BY <3>1, <3>2, <3>3, <3>4 DEF TypeOK, GroupTypeOK
  <2>2. Hold' BY <1>4 DEF CompleteTask, Return, Outcome, Hold, CleanupOver
  <2>3. Stopping' BY <1>4 DEF CompleteTask, Stopping, Stopped
  <2>4. CancellationKept'
    BY <1>4 DEF CompleteTask, Return, Outcome, CancellationKept, CleanupOver
  <2> QED BY <2>1, <2>2, <2>3, <2>4
<1> QED BY <1>1, <1>2, <1>3, <1>4 DEF Caller

\* A step of the cleanup: each stage reaches what the next one relies on.
LEMMA CleanupIInv == ASSUME IInv, Cleanup PROVE IInv'
<1> USE DEF IInv, caller, group
<1>0. ~CleanupOver /\ cleanPc # "absent" /\ cleanPc' # "absent"
      /\ UNCHANGED <<leader, members, lingers, callPc, interrupted, cancelled, result, creation>>
  BY DEF Cleanup, Recover, Linger, StopTerminates, StopPolls, StopReaps, FinishTasks,
         CleanupOver
<1>1. Hold' BY <1>0 DEF Hold
<1>2. CancellationKept' BY <1>0 DEF CancellationKept, Hold
<1>3. CASE Recover
  <2>1. TypeOK' BY <1>3 DEF Recover, TypeOK, GroupTypeOK
  <2>2. Stopping' BY <1>3 DEF Recover, Stopping, Stopped
  <2> QED BY <1>1, <1>2, <2>1, <2>2
<1>4. CASE Linger
  <2>1. TypeOK' BY <1>4 DEF Linger, TypeOK, GroupTypeOK
  <2>2. Stopping' BY <1>4 DEF Linger, Stopping, Stopped
  <2> QED BY <1>1, <1>2, <2>1, <2>2
<1>5. CASE StopTerminates
  <2>1. TypeOK' BY <1>5 DEF StopTerminates, TypeOK, GroupTypeOK
  <2>2. Stopping'
    BY <1>5 DEF StopTerminates, Found, Signalable, Stopping, Stopped, TypeOK, GroupTypeOK, Hold
  <2> QED BY <1>1, <1>2, <2>1, <2>2
<1>6. CASE StopPolls
  <2>1. TypeOK' BY <1>6 DEF StopPolls, Signalable, TypeOK, GroupTypeOK
  <2>2. Stopping'
    BY <1>6 DEF StopPolls, Signalable, Stopping, Stopped, TypeOK, GroupTypeOK, Hold
  <2> QED BY <1>1, <1>2, <2>1, <2>2
<1>7. CASE StopReaps
  <2>1. TypeOK' BY <1>7 DEF StopReaps, TypeOK, GroupTypeOK
  <2>2. Stopping' BY <1>7 DEF StopReaps, Stopping, Stopped
  <2> QED BY <1>1, <1>2, <2>1, <2>2
<1>8. CASE FinishTasks
  <2>1. TypeOK' BY <1>8 DEF FinishTasks, TypeOK, GroupTypeOK, Stopping
  <2>2. Stopping' BY <1>8 DEF FinishTasks, Stopping, Stopped
  <2> QED BY <1>1, <1>2, <2>1, <2>2
<1> QED BY <1>3, <1>4, <1>5, <1>6, <1>7, <1>8 DEF Cleanup

\* A step of the environment: a stopped group stays stopped.
LEMMA EnvironmentIInv ==
  ASSUME IInv, Cancel \/ Create \/ WatcherReaps \/ DrainsEnd \/ GroupMoves \/ IdIsReused
  PROVE  IInv'
<1> USE DEF IInv, caller, group
<1>1. CASE Cancel
  BY <1>1 DEF Cancel, TypeOK, GroupTypeOK, Hold, Stopping, Stopped, CancellationKept, CleanupOver
<1>2. CASE Create
  <2>1. creation = "pending" /\ leader = "unborn" BY <1>2 DEF Create, Hold, TypeOK, GroupTypeOK
  <2>2. TypeOK' BY <1>2, <2>1 DEF Create, TypeOK, GroupTypeOK
  <2>3. Hold' BY <1>2, <2>1 DEF Create, Hold, CleanupOver
  <2>4. Stopping' BY <1>2, <2>1 DEF Create, Stopping
  <2>5. CancellationKept' BY <1>2 DEF Create, CancellationKept
  <2> QED BY <2>2, <2>3, <2>4, <2>5
<1>3. CASE WatcherReaps
  BY <1>3 DEF WatcherReaps, TypeOK, GroupTypeOK, Hold, Stopping, Stopped, CancellationKept,
              CleanupOver
<1>4. CASE DrainsEnd
  BY <1>4 DEF DrainsEnd, TypeOK, GroupTypeOK, Hold, Stopping, Stopped, CancellationKept,
              CleanupOver
<1>5. CASE IdIsReused
  BY <1>5 DEF IdIsReused, TypeOK, GroupTypeOK, Hold, Stopping, Stopped, CancellationKept,
              CleanupOver
<1>6. CASE GroupMoves
  <2>1. UNCHANGED <<lingers, callPc, interrupted, cancelled, result, creation, cleanPc, drains,
                    foreign, struck, killed>>
    BY <1>6 DEF GroupMoves, GroupStep, LeaderExits, MemberExits, MemberJoins
  <2>2. /\ members' \subseteq Members /\ (leader = "unborn" <=> leader' = "unborn")
        /\ leader' \in {"unborn", "running", "zombie", "reaped"}
        /\ leader = "reaped" => leader' = "reaped"
        /\ leader = "unborn" => members' = {}
        /\ Stopped => Stopped'
    BY <1>6 DEF GroupMoves, GroupStep, LeaderExits, MemberExits, MemberJoins, Survives, Stopped,
                TypeOK, GroupTypeOK, Hold
  <2>3. TypeOK' BY <2>1, <2>2 DEF TypeOK, GroupTypeOK
  <2>4. Hold' /\ Stopping' /\ CancellationKept'
    BY <2>1, <2>2 DEF Hold, Stopping, CancellationKept, CleanupOver
  <2> QED BY <2>3, <2>4
<1> QED BY <1>1, <1>2, <1>3, <1>4, <1>5, <1>6

\* Every step keeps the invariant.
LEMMA NextIInv == IInv /\ [Next]_vars => IInv'
<1> SUFFICES ASSUME IInv, [Next]_vars PROVE IInv'
  OBVIOUS
<1>1. CASE UNCHANGED vars
  BY <1>1 DEF vars, caller, group, IInv, TypeOK, GroupTypeOK, Hold, Stopping, Stopped,
              CancellationKept, CleanupOver
<1> QED BY <1>1, CallerIInv, CleanupIInv, EnvironmentIInv DEF Next, Finished

\* The invariant holds throughout.
THEOREM Invariance == Spec => []IInv
BY InitIInv, NextIInv, PTL DEF Spec

\* Types, and that only a process that was created has its output read.
THEOREM TypeCorrect == Spec => []TypeOK
<1>1. IInv => TypeOK BY DEF IInv
<1> QED BY <1>1, Invariance, PTL

\* However often its caller is cancelled, a finished call has stopped and drained
\* its process, or never had one.
THEOREM LosesNoProcess == Spec => []NothingLeft
<1>1. IInv => NothingLeft
  BY DEF IInv, Hold, Stopping, Stopped, CleanupOver, NothingLeft, Survives
<1> QED BY <1>1, Invariance, PTL

\* A cancellation is passed on, unless the cleanup itself fails.
THEOREM LosesNoCancellation == Spec => []CancellationKept
<1>1. IInv => CancellationKept BY DEF IInv
<1> QED BY <1>1, Invariance, PTL
=============================================================================
