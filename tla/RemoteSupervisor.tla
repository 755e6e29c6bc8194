--------------------------- MODULE RemoteSupervisor ---------------------------
(***************************************************************************)
(* REMOTE_SUPERVISOR (ssh_wrapper/remote_process.py): the program that     *)
(* runs on the remote host, owns one process group and gives it up when    *)
(* its owner is lost: end of file, a malformed heartbeat, an expired lease *)
(* or a termination signal.                                                *)
(*                                                                         *)
(* Time passes in ticks of the poll interval (0.05 s).  idle counts the    *)
(* ticks since the supervisor's last step; MaxStall bounds it, so it is    *)
(* the poll interval together with the worst scheduling delay.             *)
(*                                                                         *)
(* The ownership channel carries bytes in any fragmentation.  Frame stands *)
(* for HEARTBEAT: bytes of which the last and only the last is a newline.  *)
(***************************************************************************)
EXTENDS ProcessGroup, Integers, Sequences, FiniteSetsExt

CONSTANTS Lease, Grace,     \* lease_timeout and grace_timeout, in ticks
          MaxStall,         \* poll interval and scheduling delay, in ticks
          Bytes, Newline,   \* the alphabet of the channel
          Frame             \* HEARTBEAT

ASSUME TimesAssumption ==
  Lease \in Nat \ {0} /\ Grace \in Nat \ {0} /\ MaxStall \in Nat \ {0}
ASSUME FrameAssumption ==
  /\ Newline \in Bytes /\ Frame \in Seq(Bytes) /\ Frame # <<>>
  /\ \A i \in 1..Len(Frame) : Frame[i] = Newline <=> i = Len(Frame)

VARIABLES pc,        \* where the program is
          stopping,  \* set by the signal handlers and by a malformed line
          status,    \* what main() would return
          exitCode,  \* what the program exited with
          since,     \* ticks since last_heartbeat
          pending,   \* bytes of a line that is not complete yet
          inGrace,   \* ticks since SIGTERM was sent
          idle,      \* ticks since the supervisor's last step
          stdin,     \* bytes in the channel, not read yet
          eof,       \* the owner's end of the channel is closed
          unseen     \* history: ticks for which the leader has been a zombie

program == <<pc, stopping, status, exitCode, pending>>
clock   == <<since, inGrace, idle, unseen>>
channel == <<stdin, eof>>
vars    == <<group, program, clock, channel>>

Horizon == Lease + Grace + 4 * MaxStall  \* cap of every tick counter

NotYet == -2   \* the program has not left its loop
OfChild == -1  \* the child's own return code
Failed == 1    \* an exception ends the interpreter

Pc == {"spawn", "loop", "select", "leave", "term", "grace", "reap", "exited"}

Init ==
  /\ GroupInit
  /\ pc = "spawn" /\ stopping = FALSE /\ status = 0 /\ exitCode = NotYet
  /\ pending = <<>> /\ stdin = <<>> /\ eof = FALSE
  /\ since = 0 /\ inGrace = 0 /\ idle = 0 /\ unseen = 0

(***************************************************************************)
(* The heartbeat parser.                                                   *)
(***************************************************************************)
Newlines(s) == {i \in DOMAIN s : s[i] = Newline}

\* The line of s that the newline at i ends.
LineAt(s, i) == SubSeq(s, Max({0} \cup {j \in Newlines(s) : j < i}) + 1, i)

BadLines_LastOfRead(s) == {i \in Newlines(s) : LineAt(s, i) # Frame /\ i = Max(Newlines(s))}
BadLines_WholeBuffer(s) == IF s = Frame THEN {} ELSE Newlines(s)
BadLines(s) == {i \in Newlines(s) : LineAt(s, i) # Frame}

\* What is left of s after its last line, or after its first bad one.
Rest(s) ==
  LET bad == BadLines(s)
  IN  SubSeq(s, (IF bad = {} THEN Max({0} \cup Newlines(s)) ELSE Min(bad)) + 1, Len(s))

Overlong(s) == Len(s) >= Len(Frame)

\* A complete frame precedes the first bad line.
Beats_OnePerRead(s) == s = Frame
Beats(s) == \E i \in Newlines(s) : \A j \in BadLines(s) : i < j

(***************************************************************************)
(* The program.  Each step ends the current idle time.                     *)
(***************************************************************************)
Goto(p) == pc' = p /\ idle' = 0

\* The child is started, or is and reporting it fails, or it cannot be.
Spawn ==
  /\ pc = "spawn"
  /\ \/ leader' = "running" /\ Goto("loop") /\ since' = 0 /\ UNCHANGED exitCode
     \/ leader' = "running" /\ Goto("term") /\ since' = 0 /\ exitCode' = Failed
     \/ Goto("exited") /\ exitCode' \in {Failed, 64, 72} /\ UNCHANGED <<leader, since>>
  /\ UNCHANGED <<members, killed, stopping, status, pending, inGrace, unseen, channel>>

Expired_Late == since > Lease
Expired_OnlyWithData == since >= Lease /\ stdin # <<>>
Expired == since >= Lease

\* child.poll() and not stopping; the lease is judged before the channel is read.
LoopTest ==
  /\ pc = "loop"
  /\ leader' = IF leader = "zombie" THEN "reaped" ELSE leader
  /\ Goto(IF leader' = "reaped" \/ stopping \/ Expired THEN "leave" ELSE "select")
  /\ status' = IF leader' = "running" /\ ~stopping /\ Expired THEN 71 ELSE status
  /\ UNCHANGED <<members, killed, stopping, exitCode, pending, since, inGrace, unseen, channel>>

PollDue == idle >= 1

\* select() with its short timeout; nothing to read.
SelectTimesOut ==
  /\ pc = "select" /\ stdin = <<>> /\ ~eof /\ PollDue /\ Goto("loop")
  /\ UNCHANGED <<group, stopping, status, exitCode, pending, since, inGrace, unseen, channel>>

ReadsEof ==
  /\ pc = "select" /\ stdin = <<>> /\ eof /\ Goto("leave")
  /\ UNCHANGED <<group, stopping, status, exitCode, pending, since, inGrace, unseen, channel>>

ReadsBytes ==
  /\ pc = "select" /\ stdin # <<>> /\ stdin' = <<>>
  /\ LET s == pending \o stdin IN
       /\ pending' = Rest(s)
       /\ since' = IF Beats(s) THEN 0 ELSE since
       /\ stopping' = (stopping \/ BadLines(s) # {})
       /\ status' = IF BadLines(s) # {} \/ Overlong(Rest(s)) THEN 70 ELSE status
       /\ Goto(IF Overlong(Rest(s)) THEN "leave" ELSE "loop")
  /\ UNCHANGED <<group, exitCode, inGrace, unseen, eof>>

\* The child is polled once more: its own exit takes precedence.
Leave ==
  /\ pc = "leave" /\ leader' = (IF leader = "zombie" THEN "reaped" ELSE leader)
  /\ exitCode' = (IF leader' = "reaped" THEN OfChild ELSE status) /\ Goto("term")
  /\ UNCHANGED <<members, killed, stopping, status, pending, since, inGrace, unseen, channel>>

\* terminate_group: SIGTERM to the group, if there still is one.
Terminate ==
  /\ pc = "term" /\ Goto(IF Signalable THEN "grace" ELSE "reap") /\ inGrace' = 0
  /\ UNCHANGED <<group, stopping, status, exitCode, pending, since, unseen, channel>>

GroupGone_LeaderOnly == leader \in {"zombie", "reaped"}
GroupGone == leader \in {"zombie", "reaped"} /\ members = {}

GraceElapsed_Never == FALSE
GraceElapsed == inGrace >= Grace

\* One turn of its loop: reap the leader, look for survivors of the group.
GracePoll ==
  /\ pc = "grace" /\ (PollDue \/ inGrace = 0) /\ ~GraceElapsed
  /\ leader' = (IF leader = "zombie" THEN "reaped" ELSE leader)
  /\ Goto(IF GroupGone THEN "reap" ELSE "grace")
  /\ UNCHANGED <<members, killed, stopping, status, exitCode, pending, since, inGrace,
                 unseen, channel>>

GraceOver ==
  /\ pc = "grace" /\ PollDue /\ GraceElapsed /\ killed' = (killed \/ Signalable) /\ Goto("reap")
  /\ UNCHANGED <<leader, members, stopping, status, exitCode, pending, since, inGrace,
                 unseen, channel>>

\* process.wait() and exit.
Exit ==
  /\ pc = "reap" /\ leader \in {"zombie", "reaped"} /\ leader' = "reaped" /\ Goto("exited")
  /\ UNCHANGED <<members, killed, stopping, status, exitCode, pending, since, inGrace,
                 unseen, channel>>

Supervise ==
  \/ Spawn \/ LoopTest \/ SelectTimesOut \/ ReadsEof \/ ReadsBytes
  \/ Leave \/ Terminate \/ GracePoll \/ GraceOver \/ Exit

\* SIGHUP, SIGINT or SIGTERM: the handler only sets a flag.
Signal ==
  /\ pc # "exited" /\ ~stopping /\ stopping' = TRUE
  /\ UNCHANGED <<group, pc, status, exitCode, pending, clock, channel>>

(***************************************************************************)
(* Time, the child's group and the channel.                                *)
(***************************************************************************)
\* A clock runs only while the program looks at it.
Aged(n, runs) == IF runs /\ n < Horizon THEN n + 1 ELSE n

Watching == pc \in {"loop", "select"}

\* A supervisor that waits for its child's exit is not due, every other wait is
\* no longer than the poll interval.
Due_SelectsWholeLease == pc # "reap" /\ (pc = "select" => since >= Lease)
Due == pc # "reap" \/ leader # "running"

Tick ==
  /\ pc # "exited" /\ (Due => idle < MaxStall)
  /\ idle' = IF Due THEN idle + 1 ELSE idle
  /\ since' = Aged(since, Watching) /\ inGrace' = Aged(inGrace, pc = "grace")
  /\ unseen' = Aged(unseen, Watching /\ leader = "zombie")
  /\ UNCHANGED <<group, program, channel>>

GroupMoves == GroupStep /\ UNCHANGED <<program, clock, channel>>

Arrives(b) ==
  /\ ~eof /\ stdin' = Append(stdin, b)
  /\ UNCHANGED <<group, program, clock, eof>>

Closes == ~eof /\ eof' = TRUE /\ UNCHANGED <<group, program, clock, stdin>>

Terminated == pc = "exited" /\ UNCHANGED vars

\* The supervisor alone, with every stream of bytes on its channel.
Next ==
  \/ Supervise \/ Signal \/ Tick \/ GroupMoves \/ Terminated
  \/ Closes \/ \E b \in Bytes : Arrives(b)

Spec == Init /\ [][Next]_vars

\* The program runs, time passes, and what was sent SIGKILL exits.
Fairness ==
  /\ WF_vars(Supervise) /\ WF_vars(Tick)
  /\ WF_vars(killed /\ (LeaderExits \/ MemberExits) /\ UNCHANGED <<program, clock, channel>>)

FairSpec == Spec /\ Fairness

(***************************************************************************)
(* Properties.                                                             *)
(***************************************************************************)
\* However the supervisor ends, its group is empty or was sent SIGKILL, also when
\* the leader went first or a member ignores SIGTERM.
GroupStopped == pc = "exited" => ~Survives

\* A child is not left to run longer than the lease after the last complete
\* heartbeat was read, up to the two delays of one turn of the loop.
LeaseEnforced ==
  leader = "running" /\ Watching => since < Lease + 2 * MaxStall

\* The child's exit is observed within two polls, whatever the channel does.
ExitSeenPromptly == Watching => unseen <= 2 * MaxStall

\* The loss of the owner ends the supervisor, and with it every process of the group.
OwnerLossStops == (eof \/ stopping) /\ pc # "spawn" ~> pc = "exited" /\ members = {} /\ leader # "running"
=============================================================================
