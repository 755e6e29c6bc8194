----------------------------- MODULE ProcessGroup -----------------------------
(***************************************************************************)
(* A process group as the kernel keeps it: the leader, which its parent    *)
(* must reap, and the members it or they forked, which init reaps.  Both   *)
(* the local stop_group (_process.py) and the remote terminate_group       *)
(* (REMOTE_SUPERVISOR) work on one of these.                               *)
(*                                                                         *)
(* SIGTERM may be ignored by any process, so it forces nothing: a process  *)
(* may exit at any time.  SIGKILL takes every process that is in the group *)
(* at that moment: they can do nothing any more but exit.                  *)
(***************************************************************************)
CONSTANT Members  \* the processes other than the leader that may join the group

VARIABLES leader,   \* the group leader, the parent's direct child
          members,  \* the other live processes of the group
          killed    \* SIGKILL was sent to the group

group == <<leader, members, killed>>

GroupTypeOK ==
  /\ leader \in {"unborn", "running", "zombie", "reaped"}
  /\ members \subseteq Members /\ killed \in BOOLEAN

GroupInit == leader = "unborn" /\ members = {} /\ killed = FALSE

\* What killpg can find: a zombie leader still counts, a reaped one does not.
Signalable == leader \in {"running", "zombie"} \/ members # {}

\* Somebody of the group is alive and was not sent SIGKILL.
Survives == (leader = "running" \/ members # {}) /\ ~killed

LeaderExits == leader = "running" /\ leader' = "zombie" /\ UNCHANGED <<members, killed>>

MemberExits == \E p \in members : members' = members \ {p} /\ UNCHANGED <<leader, killed>>

MemberJoins ==
  /\ Survives
  /\ \E p \in Members \ members : members' = members \cup {p} /\ UNCHANGED <<leader, killed>>

GroupStep == LeaderExits \/ MemberExits \/ MemberJoins
=============================================================================
