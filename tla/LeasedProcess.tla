---------------------------- MODULE LeasedProcess ----------------------------
(***************************************************************************)
(* A remote process under its lease: the heartbeat task of an              *)
(* OwnedRemoteProcess, the ssh channel and the RemoteSupervisor, which     *)
(* share nothing but that channel and the passing of time.                 *)
(*                                                                         *)
(* The channel keeps the order and delivers within Delay.  The owner sends *)
(* a frame every Interval ticks, up to Jitter late, until it closes the    *)
(* channel or is lost: a lost owner sends nothing more, what it has sent   *)
(* may be lost from some frame on, and the end of file may never come.     *)
(***************************************************************************)
EXTENDS RemoteSupervisor

CONSTANTS Interval,  \* heartbeat_interval, in ticks
          Jitter,    \* how late the owner's event loop may be
          Delay,     \* how long the channel may take
          LocalStop  \* LOCAL_STOP_TIMEOUT, in ticks

ASSUME ChannelAssumption ==
  Interval \in Nat \ {0} /\ Jitter \in Nat /\ Delay \in Nat /\ LocalStop \in Nat

VARIABLES owner,      \* whether it sends heartbeats
          sinceBeat,  \* ticks since it sent the last one
          inFlight,   \* what is in the channel, with its age
          orphaned    \* history: ticks for which a live group has had no owner

local == <<owner, sinceBeat, inFlight, orphaned>>
all   == <<vars, local>>

LeaseInit == Init /\ owner = "beating" /\ sinceBeat = Interval /\ inFlight = <<>> /\ orphaned = 0

Sent(what) == Append(inFlight, [what |-> what, age |-> 0])

BeatDue == owner = "beating" /\ sinceBeat >= Interval

\* One turn of _heartbeat.
Beat ==
  /\ BeatDue
  /\ sinceBeat' = 0 /\ inFlight' = Sent("frame") /\ UNCHANGED <<vars, owner, orphaned>>

OwnerCloses_StdinLeftOpen ==
  /\ owner = "beating" /\ owner' = "closed" /\ UNCHANGED <<vars, sinceBeat, inFlight, orphaned>>

\* close(): the heartbeat task is cancelled, then stdin is closed.
OwnerCloses ==
  /\ owner = "beating" /\ owner' = "closed" /\ inFlight' = Sent("eof")
  /\ UNCHANGED <<vars, sinceBeat, orphaned>>

\* The local process, its host or the connection is gone, or a close that has waited
\* for the remote side in vain stops the local channel.
OwnerLost ==
  /\ owner # "lost" /\ owner' = "lost"
  /\ \E n \in 0..Len(inFlight) : inFlight' = SubSeq(inFlight, 1, n)
  /\ UNCHANGED <<vars, sinceBeat, orphaned>>

\* Frames that arrive when the supervisor no longer reads need not be kept.
Deliver ==
  /\ inFlight # <<>> /\ inFlight' = Tail(inFlight)
  /\ LET isFrame == Head(inFlight).what = "frame" IN
       /\ eof' = (eof \/ ~isFrame)
       /\ stdin' = IF isFrame /\ ~eof /\ (Watching \/ pc = "spawn") THEN stdin \o Frame ELSE stdin
  /\ UNCHANGED <<group, program, clock, owner, sinceBeat, orphaned>>

\* sshd notices that the connection is gone.
ConnectionDropped == owner = "lost" /\ Closes /\ UNCHANGED local

HorizonOfOrphans == Delay + Lease + Grace + 10 * MaxStall  \* cap of orphaned

LeaseTick ==
  /\ Tick
  /\ owner = "beating" => sinceBeat < Interval + Jitter
  /\ \A i \in DOMAIN inFlight : inFlight[i].age < Delay
  /\ sinceBeat' = IF owner = "beating" THEN sinceBeat + 1 ELSE sinceBeat
  /\ inFlight' = [i \in DOMAIN inFlight |-> [inFlight[i] EXCEPT !.age = @ + 1]]
  /\ orphaned' = IF owner # "beating" /\ Survives THEN Min({orphaned + 1, HorizonOfOrphans})
               ELSE 0
  /\ UNCHANGED owner

LeaseNext ==
  \/ (Supervise \/ Signal \/ GroupMoves) /\ UNCHANGED local
  \/ Beat \/ OwnerCloses \/ OwnerLost \/ Deliver \/ ConnectionDropped \/ LeaseTick
  \/ Terminated /\ UNCHANGED local

LeaseSpec == LeaseInit /\ [][LeaseNext]_all

(***************************************************************************)
(* Properties.                                                             *)
(***************************************************************************)
\* The lease is long enough for the heartbeat interval: the longest silence
\* between two frames, and the time until the supervisor gets to read the second.
Margin == Lease > Interval + Jitter + Delay + MaxStall

\* With that margin the lease never expires while the owner sends heartbeats,
\* although the supervisor judges it before it reads what has already arrived.
NoSpuriousExpiry == Margin /\ owner = "beating" => status # 71

\* Whole frames are never taken for a malformed heartbeat.
NoSpuriousMalformed == status # 70

\* A group that nobody owns is gone, or was sent SIGKILL, within the lease, the
\* grace and the delays of the channel and of seven steps of the supervisor, also
\* if no end of file ever comes and members ignore SIGTERM.
OrphansStopped == orphaned <= Delay + Lease + Grace + 7 * MaxStall - 2

\* How long the owner that closes its channel waits for the remote side to end, from
\* the end of file on, before it stops the local channel.
Patience == Grace + LocalStop

\* What it must leave for the channel and seven steps of the supervisor.
StopMargin == LocalStop >= Delay + 7 * MaxStall - 1

\* With that margin the remote group is gone, or was sent SIGKILL, before the owner
\* that closes stops the local channel: the end of file alone ends the group, no
\* matter how long the lease is, and what was written before it does not delay it.
CloseOutlastsGroup == StopMargin /\ owner = "closed" => orphaned <= Patience
=============================================================================
