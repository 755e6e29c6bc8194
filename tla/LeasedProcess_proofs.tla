------------------------- MODULE LeasedProcess_proofs -------------------------
(***************************************************************************)
(* What the lease guarantees for every heartbeat interval, event-loop      *)
(* delay, channel delay, scheduling delay, grace time, heartbeat frame and *)
(* set of group members.                                                   *)
(***************************************************************************)
EXTENDS LeasedProcess, RemoteSupervisor_proofs

\* Nothing but whole frames waits to be read.
Framing == Framed(stdin) /\ pending = <<>> /\ status \in {0, 71}

\* What is under way: nothing older than Delay, nothing younger than the loss.
Message == [what : {"frame", "eof"}, age : Nat]

Carried ==
  /\ inFlight \in Seq(Message) /\ {orphaned, sinceBeat} \subseteq Nat
  /\ \A i \in 1..Len(inFlight) : orphaned <= inFlight[i].age /\ inFlight[i].age <= Delay
  /\ owner = "beating" =>
       /\ orphaned = 0 /\ ~eof /\ sinceBeat <= Interval + Jitter
       /\ \A i \in 1..Len(inFlight) : inFlight[i].what = "frame"

\* While the owner beats, the age of the last heartbeat is accounted for by the
\* frame under way, by the one that waits to be read, or by the next one.
Accounted ==
  owner = "beating" /\ Watching =>
    /\ stdin = <<>> /\ inFlight # <<>> => since <= Interval + Jitter + inFlight[1].age
    /\ stdin = <<>> /\ inFlight = <<>> => since <= sinceBeat
    /\ stdin # <<>> /\ pc = "loop" => since <= Interval + Jitter + Delay + idle

\* One turn of the loop, whoever died in it.
Turn ==
  /\ pc = "loop" => since < Lease + MaxStall + idle
  /\ pc = "select" => since < Lease + idle
  /\ pc = "grace" => inGrace < Grace + idle

\* How long a group may have been without an owner, by the program's position.
Deadlines ==
  /\ pc = "spawn" => orphaned = 0
  /\ Watching /\ stdin = <<>> => orphaned <= Delay + 2 * MaxStall + since
  /\ pc = "loop" /\ stdin # <<>> => orphaned <= Delay + idle
  /\ pc = "select" /\ stdin # <<>> => orphaned <= Delay + MaxStall + idle
  /\ pc = "leave" => orphaned < Delay + Lease + 4 * MaxStall + idle
  /\ pc = "term" => orphaned < Delay + Lease + 5 * MaxStall + idle
  /\ pc = "grace" => orphaned < Delay + Lease + 6 * MaxStall + inGrace

LeaseIInv ==
  /\ IInv /\ Framing /\ Carried /\ Accounted /\ Turn /\ Deadlines
  /\ NoSpuriousExpiry /\ OrphansStopped

(***************************************************************************)
(* The parser on whole frames.                                             *)
(***************************************************************************)
\* The smaller of two numbers is no larger than the first.
LEMMA MinOfTwo == ASSUME NEW a \in Nat, NEW b \in Nat PROVE Min({a, b}) \in Nat /\ Min({a, b}) <= a
<1>1. \E x \in {a, b} : \A y \in {a, b} : x =< y OBVIOUS
<1>2. Min({a, b}) \in {a, b} /\ \A y \in {a, b} : Min({a, b}) =< y BY <1>1 DEF Min
<1> QED BY <1>2

\* Nothing at all is a sequence of frames.
LEMMA FramedNothing == Framed(<<>>)
BY DEF Framed, OfFrames

\* A frame may follow frames.
LEMMA FramedAppend == ASSUME NEW s, Framed(s) PROVE Framed(s \o Frame) /\ s \o Frame # <<>>
<1>2. EndsFrame(Frame, Len(Frame)) BY FrameIs DEF EndsFrame
<1>3. OfFrames(Frame) BY <1>2, FrameIs, OfFramesIs
<1>4. Framed(Frame) BY <1>3, FrameIs DEF Framed
<1>5. s \o Frame # <<>> BY FrameIs DEF Framed
<1> QED BY <1>4, <1>5, FramesAfterFrames

\* In whole frames, each line is the frame: none is bad, nothing is left over, and
\* if there is anything, it counts as a heartbeat.
LEMMA FramedIsParsed ==
  ASSUME NEW s, Framed(s), s # <<>>
  PROVE  BadLines(s) = {} /\ Rest(s) = <<>> /\ Beats(s) /\ ~Overlong(<<>>)
<1>1. s \in Seq(Bytes) /\ Len(s) \in Nat \ {0} /\ Len(s) \in Newlines(s)
  BY DEF Framed, Newlines
<1>2. BadLines(s) = {} BY <1>1, NoBadLines DEF Framed
<1>3. Rest(s) = <<>>
  <2>1. PICK m \in 0..Len(s) :
           /\ Rest(s) = SubSeq(s, m + 1, Len(s))
           /\ \A i \in Newlines(s) : i <= m
    BY <1>1, <1>2, RestIs
  <2>2. m = Len(s) BY <1>1, <2>1
  <2> QED BY <1>1, <2>1, <2>2
<1>4. Beats(s) BY <1>1, <1>2 DEF Beats
<1>5. ~Overlong(<<>>) BY FrameIs DEF Overlong
<1> QED BY <1>2, <1>3, <1>4, <1>5

(***************************************************************************)
(* The invariant is inductive.                                             *)
(***************************************************************************)
\* The states of LeaseInit satisfy the invariant.
LEMMA LeaseInitIInv == LeaseInit => LeaseIInv
<1> SUFFICES ASSUME LeaseInit PROVE LeaseIInv
  OBVIOUS
<1>1. /\ pc = "spawn" /\ status = 0 /\ pending = <<>> /\ stdin = <<>> /\ eof = FALSE
      /\ owner = "beating" /\ sinceBeat = Interval /\ inFlight = <<>> /\ orphaned = 0
  BY DEF LeaseInit, Init
<1>2. IInv BY InitIInv DEF LeaseInit
<1>3. Framing BY <1>1, FramedNothing DEF Framing
<1>4. Carried BY <1>1, ChannelAssumption DEF Carried
<1>5. Accounted /\ Turn /\ Deadlines
  BY <1>1 DEF Accounted, Turn, Deadlines, Watching
<1>6. NoSpuriousExpiry /\ OrphansStopped
  BY <1>1, TimesAssumption, ChannelAssumption DEF NoSpuriousExpiry, OrphansStopped
<1> QED BY <1>2, <1>3, <1>4, <1>5, <1>6 DEF LeaseIInv

\* What is at the head of the channel.
LEMMA HeadOfChannel ==
  ASSUME Carried, inFlight # <<>>
  PROVE  /\ 1 \in 1..Len(inFlight) /\ inFlight[1].age \in Nat
         /\ orphaned <= inFlight[1].age /\ inFlight[1].age <= Delay
<1>1. inFlight \in Seq(Message) BY DEF Carried
<1>2. 1 \in 1..Len(inFlight) /\ inFlight[1] \in Message BY <1>1
<1> QED BY <1>2 DEF Carried, Message

\* A step of the program reads nothing but whole frames, so what it reads is a
\* heartbeat, and it leaves no part of a line behind.
LEMMA ReadsFrames ==
  ASSUME Framing, ReadsBytes
  PROVE  /\ pc = "select" /\ stdin # <<>> /\ Goto("loop") /\ since' = 0
         /\ stdin' = <<>> /\ pending' = <<>> /\ UNCHANGED <<group, status, inGrace>>
<1>1. pending \o stdin = stdin /\ Framed(stdin) /\ stdin # <<>>
  BY DEF Framing, ReadsBytes, Framed
<1>2. BadLines(stdin) = {} /\ Rest(stdin) = <<>> /\ Beats(stdin) /\ ~Overlong(<<>>)
  BY <1>1, FramedIsParsed
<1>3. /\ pc = "select" /\ stdin' = <<>> /\ pending' = Rest(stdin)
      /\ since' = (IF Beats(stdin) THEN 0 ELSE since)
      /\ status' = IF BadLines(stdin) # {} \/ Overlong(Rest(stdin)) THEN 70 ELSE status
      /\ Goto(IF Overlong(Rest(stdin)) THEN "leave" ELSE "loop")
      /\ UNCHANGED <<group, inGrace>>
  BY <1>1 DEF ReadsBytes
<1> QED BY <1>1, <1>2, <1>3

\* What each step of the program does to position, clocks and status.
LEMMA SuperviseMoves ==
  ASSUME Framing, IInv, Supervise
  PROVE  /\ idle' = 0 /\ eof' = eof
         /\ \/ pc = "spawn" /\ pc' \in {"loop", "term"} /\ since' = 0
               /\ UNCHANGED <<stdin, pending, status, inGrace>>
            \/ pc = "spawn" /\ pc' = "exited" /\ UNCHANGED <<stdin, pending, status, inGrace>>
            \/ pc = "loop" /\ pc' = "select" /\ since < Lease
               /\ UNCHANGED <<stdin, pending, status, since, inGrace>>
            \/ pc = "loop" /\ pc' = "leave" /\ (status' = status \/ (status' = 71 /\ since >= Lease))
               /\ UNCHANGED <<stdin, pending, since, inGrace>>
            \/ pc = "select" /\ stdin = <<>> /\ pc' \in {"loop", "leave"}
               /\ UNCHANGED <<stdin, pending, status, since, inGrace>>
            \/ pc = "select" /\ stdin # <<>> /\ pc' = "loop" /\ since' = 0 /\ stdin' = <<>>
               /\ UNCHANGED <<pending, status, inGrace>>
            \/ pc = "leave" /\ pc' = "term" /\ UNCHANGED <<stdin, pending, status, since, inGrace>>
            \/ pc = "term" /\ pc' \in {"grace", "reap"} /\ inGrace' = 0
               /\ UNCHANGED <<stdin, pending, status, since>>
            \/ pc = "grace" /\ pc' = "grace" /\ inGrace < Grace
               /\ UNCHANGED <<stdin, pending, status, since, inGrace>>
            \/ pc \in {"grace", "reap"} /\ pc' \in {"reap", "exited"}
               /\ UNCHANGED <<stdin, pending, status, since, inGrace>>
<1> USE DEF Goto, channel
<1>1. CASE Spawn BY <1>1 DEF Spawn
<1>2. CASE LoopTest
  <2>1. /\ pc = "loop" /\ idle' = 0 /\ UNCHANGED <<stdin, eof, pending, since, inGrace>>
        /\ pc' = (IF leader' = "reaped" \/ stopping \/ Expired THEN "leave" ELSE "select")
        /\ status' = IF leader' = "running" /\ ~stopping /\ Expired THEN 71 ELSE status
    BY <1>2 DEF LoopTest
  <2>2. /\ since \in Nat /\ Lease \in Nat /\ (Expired <=> since >= Lease)
    BY TimesAssumption DEF Expired, IInv, Clocks
  <2>3. CASE pc' = "select"
    <3>1. since < Lease /\ status' = status BY <2>1, <2>2, <2>3
    <3> QED BY <2>1, <2>3, <3>1
  <2>4. CASE pc' = "leave"
    <3>1. status' = status \/ (status' = 71 /\ since >= Lease) BY <2>1, <2>2
    <3> QED BY <2>1, <2>4, <3>1
  <2> QED BY <2>1, <2>3, <2>4
<1>3. CASE SelectTimesOut \/ ReadsEof BY <1>3 DEF SelectTimesOut, ReadsEof
<1>4. CASE ReadsBytes
  <2>1. eof' = eof BY <1>4 DEF ReadsBytes
  <2> QED BY <1>4, <2>1, ReadsFrames DEF Framing
<1>5. CASE Leave \/ Terminate BY <1>5 DEF Leave, Terminate
<1>6. CASE GracePoll
  <2>1. inGrace < Grace BY <1>6, TimesAssumption DEF GracePoll, GraceElapsed, IInv, Clocks
  <2> QED BY <1>6, <2>1 DEF GracePoll
<1>7. CASE GraceOver \/ Exit BY <1>7 DEF GraceOver, Exit
<1> QED BY <1>1, <1>2, <1>3, <1>4, <1>5, <1>6, <1>7 DEF Supervise

\* The program's steps.
LEMMA SuperviseLeaseIInv ==
  ASSUME LeaseIInv, Supervise, UNCHANGED local PROVE LeaseIInv'
<1>1. IInv /\ Framing /\ Carried /\ Accounted /\ Turn /\ Deadlines
      /\ NoSpuriousExpiry /\ OrphansStopped
  BY DEF LeaseIInv
<1>2. UNCHANGED <<owner, sinceBeat, inFlight, orphaned>> BY DEF local
<1>3. IInv' BY <1>1, SuperviseIInv
<1>4. /\ since \in Nat /\ inGrace \in Nat /\ idle \in Nat /\ since' \in Nat /\ inGrace' \in Nat
      /\ Lease \in Nat /\ Grace \in Nat /\ MaxStall \in Nat /\ Interval \in Nat
      /\ Jitter \in Nat /\ Delay \in Nat /\ orphaned \in Nat /\ sinceBeat \in Nat
      /\ Lease > 0 /\ Grace > 0 /\ MaxStall > 0 /\ idle <= MaxStall /\ pc \in Pc /\ pc' \in Pc
  BY <1>1, <1>3, TimesAssumption, ChannelAssumption DEF IInv, Clocks, Ownership, Carried
<1>7. idle' = 0 /\ eof' = eof BY <1>1, SuperviseMoves
<1>5. Framing'
  <2>1. stdin' = stdin \/ stdin' = <<>> BY <1>1, SuperviseMoves
  <2>2. pending' = pending /\ status' \in {status, 71} BY <1>1, SuperviseMoves
  <2>3. Framed(stdin') BY <1>1, <2>1, FramedNothing DEF Framing
  <2> QED BY <1>1, <2>2, <2>3 DEF Framing
<1>6. Carried' BY <1>1, <1>2, <1>7 DEF Carried
<1>8. Accounted'
  <2>1. SUFFICES ASSUME owner = "beating", pc' \in {"loop", "select"}
                 PROVE  Accounted'
    BY <1>2 DEF Accounted, Watching
  <2>2. \/ since' = 0
        \/ pc \in {"loop", "select"} /\ since' = since /\ stdin' = stdin /\ (stdin # <<>> => pc' = "select")
    BY <1>1, <2>1, SuperviseMoves
  <2>3. inFlight # <<>> => inFlight[1].age \in Nat
    BY <1>1, HeadOfChannel
  <2>4. CASE since' = 0 BY <1>2, <1>4, <1>7, <2>3, <2>4 DEF Accounted
  <2>5. CASE since' # 0
    BY <1>1, <1>2, <2>1, <2>2, <2>5 DEF Accounted, Watching
  <2> QED BY <2>4, <2>5
<1>9. Turn'
  <2>1. /\ pc' = "loop" => since' = 0 \/ (pc = "select" /\ since' = since)
        /\ pc' = "select" => since' < Lease
        /\ pc' = "grace" => inGrace' = 0 \/ (inGrace < Grace /\ inGrace' = inGrace)
    BY <1>1, SuperviseMoves
  <2> QED BY <1>1, <1>4, <1>7, <2>1 DEF Turn
<1>10. Deadlines'
  <2>1. pc' # "spawn" BY <1>1, SuperviseMoves
  <2>2. ASSUME pc' \in {"loop", "select"}, stdin' = <<>>
        PROVE  orphaned <= Delay + 2 * MaxStall + since'
    <3>1. \/ pc = "spawn"
          \/ pc \in {"loop", "select"} /\ stdin = <<>> /\ since' = since
          \/ pc = "select" /\ stdin # <<>> /\ since' = 0
      BY <1>1, <2>2, SuperviseMoves
    <3>2. CASE pc = "spawn"
      <4>1. orphaned = 0 BY <1>1, <3>2 DEF Deadlines
      <4>2. PICK n \in Nat : n = since' BY <1>4
      <4>3. orphaned <= Delay + 2 * MaxStall + n BY <1>4, <4>1
      <4> QED BY <4>2, <4>3
    <3>3. CASE pc \in {"loop", "select"} /\ stdin = <<>> /\ since' = since
      BY <1>1, <3>3 DEF Deadlines, Watching
    <3>4. CASE pc = "select" /\ stdin # <<>> /\ since' = 0
      <4>1. orphaned <= Delay + MaxStall + idle BY <1>1, <3>4 DEF Deadlines
      <4> QED BY <1>4, <3>4, <4>1
    <3> QED BY <3>1, <3>2, <3>3, <3>4
  <2>3. ASSUME pc' = "loop", stdin' # <<>> PROVE orphaned <= Delay
    <3>1. pc = "spawn" BY <1>1, <2>3, SuperviseMoves
    <3> QED BY <1>1, <1>4, <3>1 DEF Deadlines
  <2>4. ASSUME pc' = "select", stdin' # <<>> PROVE orphaned <= Delay + MaxStall
    <3>1. pc = "loop" /\ stdin # <<>> BY <1>1, <2>4, SuperviseMoves
    <3> QED BY <1>1, <1>4, <3>1 DEF Deadlines
  <2>5. ASSUME pc' = "leave" PROVE orphaned < Delay + Lease + 4 * MaxStall
    <3>1. pc = "loop" \/ (pc = "select" /\ stdin = <<>>) BY <1>1, <2>5, SuperviseMoves
    <3>2. since < Lease + 2 * MaxStall BY <1>1, <1>4, <3>1 DEF Turn
    <3>3. stdin # <<>> => orphaned <= Delay + MaxStall BY <1>1, <1>4, <3>1 DEF Deadlines
    <3>4. stdin = <<>> => orphaned <= Delay + 2 * MaxStall + since
      BY <1>1, <3>1 DEF Deadlines, Watching
    <3>5. CASE stdin = <<>> BY <1>4, <3>2, <3>4, <3>5
    <3>6. CASE stdin # <<>> BY <1>4, <3>3, <3>6
    <3> QED BY <3>5, <3>6
  <2>6. ASSUME pc' = "term" PROVE orphaned < Delay + Lease + 5 * MaxStall
    <3>1. pc \in {"spawn", "leave"} BY <1>1, <2>6, SuperviseMoves
    <3> QED BY <1>1, <1>4, <3>1 DEF Deadlines
  <2>7. ASSUME pc' = "grace" PROVE orphaned < Delay + Lease + 6 * MaxStall + inGrace'
    <3>1. (pc = "term" /\ inGrace' = 0) \/ (pc = "grace" /\ inGrace' = inGrace)
      BY <1>1, <2>7, SuperviseMoves
    <3>2. CASE pc = "term" /\ inGrace' = 0
      <4>1. orphaned < Delay + Lease + 5 * MaxStall + idle BY <1>1, <3>2 DEF Deadlines
      <4> QED BY <1>4, <3>2, <4>1
    <3>3. CASE pc = "grace" /\ inGrace' = inGrace BY <1>1, <3>3 DEF Deadlines
    <3> QED BY <3>1, <3>2, <3>3
  <2> QED
    <3>1. /\ Delay + idle' = Delay /\ Delay + MaxStall + idle' = Delay + MaxStall
          /\ Delay + Lease + 4 * MaxStall + idle' = Delay + Lease + 4 * MaxStall
          /\ Delay + Lease + 5 * MaxStall + idle' = Delay + Lease + 5 * MaxStall
      BY <1>4, <1>7
    <3> QED BY <1>2, <2>1, <2>2, <2>3, <2>4, <2>5, <2>6, <2>7, <3>1 DEF Deadlines, Watching
<1>11. NoSpuriousExpiry'
  <2>1. SUFFICES ASSUME Margin, owner = "beating", status' = 71, status # 71 PROVE FALSE
    BY <1>1, <1>2 DEF NoSpuriousExpiry, Margin
  <2>2. pc = "loop" /\ since >= Lease BY <1>1, <2>1, SuperviseMoves
  <2>3. inFlight # <<>> => inFlight[1].age \in Nat /\ inFlight[1].age <= Delay
    BY <1>1, HeadOfChannel
  <2>4. sinceBeat <= Interval + Jitter BY <1>1, <2>1 DEF Carried
  <2>5. since <= Interval + Jitter + Delay + MaxStall
    <3>1. /\ stdin = <<>> /\ inFlight # <<>> => since <= Interval + Jitter + inFlight[1].age
          /\ stdin = <<>> /\ inFlight = <<>> => since <= sinceBeat
          /\ stdin # <<>> => since <= Interval + Jitter + Delay + idle
      BY <1>1, <2>1, <2>2 DEF Accounted, Watching
    <3>2. CASE stdin = <<>> /\ inFlight # <<>>
      <4> DEFINE a == inFlight[1].age
      <4>1. a \in Nat /\ a <= Delay /\ since <= Interval + Jitter + a BY <2>3, <3>1, <3>2
      <4> HIDE DEF a
      <4> QED BY <1>4, <4>1
    <3>3. CASE stdin = <<>> /\ inFlight = <<>> BY <1>4, <2>4, <3>1, <3>3
    <3>4. CASE stdin # <<>> BY <1>4, <3>1, <3>4
    <3> QED BY <3>2, <3>3, <3>4
  <2> QED BY <1>4, <2>1, <2>2, <2>5 DEF Margin
<1>12. OrphansStopped' BY <1>1, <1>2 DEF OrphansStopped
<1> QED BY <1>3, <1>5, <1>6, <1>8, <1>9, <1>10, <1>11, <1>12 DEF LeaseIInv

\* The owner's steps: what it sends is the youngest in the channel.
LEMMA OwnerLeaseIInv ==
  ASSUME LeaseIInv, Beat \/ OwnerCloses \/ OwnerLost PROVE LeaseIInv'
<1>1. IInv /\ Framing /\ Carried /\ Accounted /\ Turn /\ Deadlines
      /\ NoSpuriousExpiry /\ OrphansStopped
  BY DEF LeaseIInv
<1>2. UNCHANGED <<vars, orphaned>> /\ (owner' = "beating" => owner = "beating" /\ Beat)
  BY DEF Beat, BeatDue, OwnerCloses, OwnerLost
<1>3. UNCHANGED <<leader, members, killed, pc, status, since, pending, inGrace, idle, stdin, eof,
                  unseen, orphaned>>
  BY <1>2 DEF vars, group, program, clock, channel
<1>4. IInv' BY <1>1, <1>3 DEF IInv, Clocks, Ownership, Survives
<1>5. Framing' /\ Turn' /\ Deadlines' /\ OrphansStopped' /\ NoSpuriousExpiry'
  BY <1>1, <1>2, <1>3
     DEF Framing, Turn, Deadlines, OrphansStopped, NoSpuriousExpiry, Margin, Watching
<1>6. CASE Beat \/ OwnerCloses
  <2> DEFINE n == Len(inFlight)
  <2>1. PICK w \in {"frame", "eof"} :
          /\ inFlight' = Append(inFlight, [what |-> w, age |-> 0]) /\ (Beat => w = "frame")
          /\ (Beat /\ sinceBeat' = 0) \/ (sinceBeat' = sinceBeat /\ owner' = "closed")
          /\ owner = "beating"
    <3>1. CASE Beat BY <3>1 DEF Beat, BeatDue, Sent
    <3>2. CASE ~Beat BY <1>6, <3>2 DEF OwnerCloses, Sent
    <3> QED BY <3>1, <3>2
  <2>2. inFlight \in Seq(Message) /\ orphaned = 0 /\ n \in Nat BY <1>1, <2>1 DEF Carried
  <2>3. /\ inFlight' \in Seq(Message) /\ Len(inFlight') = n + 1
        /\ \A i \in 1..n : inFlight'[i] = inFlight[i]
        /\ inFlight'[n + 1] = [what |-> w, age |-> 0]
    <3>1. [what |-> w, age |-> 0] \in Message BY DEF Message
    <3> QED BY <2>1, <2>2, <3>1
  <2>4. \A i \in 1..Len(inFlight') : i \in 1..n \/ i = n + 1 BY <2>2, <2>3
  <2>5. \A i \in 1..Len(inFlight') : orphaned <= inFlight'[i].age /\ inFlight'[i].age <= Delay
    BY <1>1, <2>2, <2>3, <2>4, ChannelAssumption DEF Carried
  <2>6. owner' = "beating" => \A i \in 1..Len(inFlight') : inFlight'[i].what = "frame"
    BY <1>1, <1>2, <2>1, <2>3, <2>4 DEF Carried
  <2>7. Carried'
    BY <1>1, <1>2, <1>3, <2>1, <2>2, <2>3, <2>5, <2>6, ChannelAssumption DEF Carried
  <2>8. Accounted'
    <3>1. SUFFICES ASSUME owner = "beating", Beat, Watching
                   PROVE  /\ stdin = <<>> => since <= Interval + Jitter + inFlight'[1].age
                          /\ inFlight' # <<>>
                          /\ stdin # <<>> /\ pc = "loop" => since <= Interval + Jitter + Delay + idle
      BY <1>2, <1>3 DEF Accounted, Watching
    <3>2. inFlight' # <<>> BY <2>2, <2>3
    <3>3. CASE inFlight = <<>>
      <4>1. inFlight'[1].age = 0 BY <2>2, <2>3, <3>3
      <4>2. sinceBeat \in Nat /\ sinceBeat <= Interval + Jitter /\ since \in Nat
        BY <1>1, <3>1 DEF Carried, IInv, Clocks
      <4> QED BY <1>1, <3>1, <3>2, <3>3, <4>1, <4>2, ChannelAssumption DEF Accounted
    <3>4. CASE inFlight # <<>>
      <4>1. inFlight'[1] = inFlight[1] BY <1>1, <2>3, <3>4, HeadOfChannel
      <4> QED BY <1>1, <3>1, <3>2, <3>4, <4>1 DEF Accounted
    <3> QED BY <3>3, <3>4
  <2> QED BY <1>1, <1>4, <1>5, <2>7, <2>8 DEF LeaseIInv
<1>7. CASE OwnerLost
  <2>1. PICK n \in 0..Len(inFlight) : inFlight' = SubSeq(inFlight, 1, n)
    BY <1>7 DEF OwnerLost
  <2>2. owner' = "lost" /\ sinceBeat' = sinceBeat BY <1>7 DEF OwnerLost
  <2>3. inFlight \in Seq(Message) BY <1>1 DEF Carried
  <2>4. /\ inFlight' \in Seq(Message) /\ Len(inFlight') = n /\ n \in Nat /\ n <= Len(inFlight)
        /\ \A i \in 1..n : inFlight'[i] = inFlight[i]
    BY <2>1, <2>3
  <2>5. Carried' BY <1>1, <1>3, <2>2, <2>3, <2>4 DEF Carried
  <2>6. Accounted' BY <2>2 DEF Accounted
  <2> QED BY <1>1, <1>4, <1>5, <2>5, <2>6 DEF LeaseIInv
<1> QED BY <1>6, <1>7

\* A message arrives: a frame that waits to be read is no younger than the loss.
LEMMA DeliverLeaseIInv == ASSUME LeaseIInv, Deliver PROVE LeaseIInv'
<1>1. IInv /\ Framing /\ Carried /\ Accounted /\ Turn /\ Deadlines
      /\ NoSpuriousExpiry /\ OrphansStopped
  BY DEF LeaseIInv
<1>2. /\ UNCHANGED <<leader, members, killed, pc, status, since, pending, inGrace, idle, unseen,
                     owner, sinceBeat, orphaned>>
      /\ inFlight # <<>> /\ inFlight' = Tail(inFlight)
  BY DEF Deliver, group, program, clock
<1>3. /\ eof' = (eof \/ inFlight[1].what # "frame")
      /\ stdin' = stdin \/ stdin' = stdin \o Frame
      /\ inFlight[1].what = "frame" /\ ~eof /\ Watching => stdin' = stdin \o Frame
  BY <1>1, HeadOfChannel DEF Deliver, Carried
<1>4. /\ orphaned \in Nat /\ orphaned <= inFlight[1].age /\ inFlight[1].age <= Delay
      /\ inFlight[1].age \in Nat /\ 1 \in 1..Len(inFlight)
  BY <1>1, <1>2, HeadOfChannel DEF Carried
<1>5. {since, idle, Interval, Jitter, Delay, MaxStall} \subseteq Nat
  BY <1>1, TimesAssumption, ChannelAssumption DEF IInv, Clocks
<1>6. IInv' BY <1>1, <1>2 DEF IInv, Clocks, Ownership, Survives
<1>7. Framed(stdin') /\ Framing' /\ (stdin # <<>> => stdin' # <<>>)
      /\ (stdin' = stdin \o Frame => stdin' # <<>>)
  <2>1. Framed(stdin \o Frame) /\ stdin \o Frame # <<>> BY <1>1, FramedAppend DEF Framing
  <2> QED BY <1>1, <1>2, <1>3, <2>1 DEF Framing
<1>8. Carried'
  <2>1. inFlight \in Seq(Message) BY <1>1 DEF Carried
  <2>2. /\ inFlight' \in Seq(Message) /\ Len(inFlight') = Len(inFlight) - 1
        /\ \A i \in 1..Len(inFlight') : i + 1 \in 1..Len(inFlight) /\ inFlight'[i] = inFlight[i + 1]
    BY <1>2, <2>1
  <2>3. owner = "beating" => eof' = FALSE BY <1>1, <1>3, <1>4 DEF Carried
  <2> QED BY <1>1, <1>2, <2>2, <2>3 DEF Carried
<1>9. Accounted'
  <2>1. SUFFICES ASSUME owner = "beating", Watching
                 PROVE  /\ stdin' # <<>>
                        /\ pc = "loop" => since <= Interval + Jitter + Delay + idle
    BY <1>2 DEF Accounted, Watching
  <2>2. inFlight[1].what = "frame" /\ ~eof BY <1>1, <1>4, <2>1 DEF Carried
  <2>3. stdin' # <<>> BY <1>3, <1>7, <2>1, <2>2
  <2>4. CASE stdin = <<>>
    <3>1. since <= Interval + Jitter + inFlight[1].age BY <1>1, <1>2, <2>1, <2>4 DEF Accounted
    <3> QED BY <1>4, <1>5, <2>3, <3>1
  <2>5. CASE stdin # <<>> BY <1>1, <2>1, <2>3, <2>5 DEF Accounted
  <2> QED BY <2>4, <2>5
<1>10. Turn' /\ NoSpuriousExpiry' /\ OrphansStopped'
  BY <1>1, <1>2 DEF Turn, NoSpuriousExpiry, Margin, OrphansStopped
<1>11. Deadlines'
  <2>1. orphaned <= Delay BY <1>4, <1>5
  <2>2. orphaned <= Delay + idle /\ orphaned <= Delay + MaxStall + idle BY <1>4, <1>5, <2>1
  <2> QED BY <1>1, <1>2, <1>7, <2>2 DEF Deadlines, Watching
<1> QED BY <1>6, <1>7, <1>8, <1>9, <1>10, <1>11 DEF LeaseIInv

\* A tick: everything that is counted grows by one, and nothing waits too long.
LEMMA TickLeaseIInv == ASSUME LeaseIInv, LeaseTick PROVE LeaseIInv'
<1>1. IInv /\ Framing /\ Carried /\ Accounted /\ Turn /\ Deadlines
      /\ NoSpuriousExpiry /\ OrphansStopped
  BY DEF LeaseIInv
<1>2. /\ Tick /\ UNCHANGED <<leader, members, killed, pc, status, pending, stdin, eof, owner>>
      /\ pc # "exited" /\ (Due => idle < MaxStall) /\ idle' = (IF Due THEN idle + 1 ELSE idle)
      /\ since' = Aged(since, Watching) /\ inGrace' = Aged(inGrace, pc = "grace")
  BY DEF LeaseTick, Tick, group, program, channel
<1>3. /\ owner = "beating" => sinceBeat < Interval + Jitter
      /\ \A i \in DOMAIN inFlight : inFlight[i].age < Delay
      /\ sinceBeat' = (IF owner = "beating" THEN sinceBeat + 1 ELSE sinceBeat)
      /\ inFlight' = [i \in DOMAIN inFlight |-> [inFlight[i] EXCEPT !.age = @ + 1]]
      /\ orphaned' = IF owner # "beating" /\ Survives THEN Min({orphaned + 1, HorizonOfOrphans})
                     ELSE 0
  BY DEF LeaseTick
<1>4. /\ since \in Nat /\ inGrace \in Nat /\ idle \in Nat
      /\ Lease \in Nat /\ Grace \in Nat /\ MaxStall \in Nat /\ Interval \in Nat
      /\ Jitter \in Nat /\ Delay \in Nat /\ orphaned \in Nat /\ sinceBeat \in Nat
      /\ Lease > 0 /\ Grace > 0 /\ MaxStall > 0 /\ idle <= MaxStall /\ pc \in Pc
  BY <1>1, TimesAssumption, ChannelAssumption DEF IInv, Clocks, Ownership, Carried
<1>5. IInv' BY <1>1, <1>2, TickIInv
<1>6. Framing' BY <1>1, <1>2 DEF Framing
<1>7. orphaned' \in Nat /\ orphaned' <= orphaned + 1
      /\ (owner = "beating" \/ ~Survives => orphaned' = 0)
  <2>1. HorizonOfOrphans \in Nat /\ orphaned + 1 \in Nat BY <1>4 DEF HorizonOfOrphans
  <2>2. Min({orphaned + 1, HorizonOfOrphans}) \in Nat
        /\ Min({orphaned + 1, HorizonOfOrphans}) <= orphaned + 1
    BY <2>1, MinOfTwo
  <2> QED BY <1>3, <1>4, <2>2
<1>8. /\ Watching => since' = since + 1
      /\ pc = "grace" => inGrace' = inGrace + 1
      /\ pc \notin {"reap", "exited"} => idle' = idle + 1 /\ idle < MaxStall
  <2>1. Horizon \in Nat /\ Horizon = Lease + Grace + 4 * MaxStall BY <1>4 DEF Horizon
  <2>2. Watching => since < Horizon BY <1>1, <1>4, <2>1 DEF Turn, Watching
  <2>3. pc = "grace" => inGrace < Horizon BY <1>1, <1>4, <2>1 DEF Turn
  <2> QED BY <1>2, <2>2, <2>3 DEF Aged, Due
<1>9. /\ inFlight' \in Seq(Message) /\ Len(inFlight') = Len(inFlight)
      /\ \A i \in 1..Len(inFlight) : /\ inFlight'[i].age = inFlight[i].age + 1
                                     /\ inFlight'[i].what = inFlight[i].what
                                     /\ inFlight[i].age \in Nat /\ inFlight[i].age < Delay
  <2>1. inFlight \in Seq(Message) BY <1>1 DEF Carried
  <2>2. DOMAIN inFlight = 1..Len(inFlight) /\ Len(inFlight) \in Nat BY <2>1
  <2>3. ASSUME NEW i \in 1..Len(inFlight)
        PROVE  /\ [inFlight[i] EXCEPT !.age = @ + 1] \in Message
               /\ [inFlight[i] EXCEPT !.age = @ + 1].age = inFlight[i].age + 1
               /\ [inFlight[i] EXCEPT !.age = @ + 1].what = inFlight[i].what
               /\ inFlight[i].age \in Nat
    <3>1. inFlight[i] \in Message BY <2>1, <2>3
    <3> QED BY <3>1 DEF Message
  <2>4. inFlight' \in Seq(Message) /\ Len(inFlight') = Len(inFlight) BY <1>3, <2>2, <2>3
  <2> QED BY <1>3, <2>2, <2>3, <2>4
<1>10. Carried'
  <2>1. ASSUME NEW i \in 1..Len(inFlight')
        PROVE  orphaned' <= inFlight'[i].age /\ inFlight'[i].age <= Delay
    <3> DEFINE a == inFlight[i].age
               b == inFlight'[i].age
    <3>1. a \in Nat /\ b = a + 1 /\ a < Delay /\ orphaned <= a BY <1>1, <1>9 DEF Carried
    <3> HIDE DEF a, b
    <3>2. orphaned' <= b /\ b <= Delay BY <1>4, <1>7, <3>1
    <3> QED BY <3>2 DEF b
  <2>2. sinceBeat' \in Nat /\ (owner = "beating" => sinceBeat' <= Interval + Jitter)
    BY <1>3, <1>4
  <2> QED BY <1>1, <1>2, <1>7, <1>9, <2>1, <2>2 DEF Carried
<1>11. Accounted'
  <2>1. SUFFICES ASSUME owner = "beating", Watching PROVE Accounted'
    BY <1>2 DEF Accounted, Watching
  <2>2. since' = since + 1 /\ idle' = idle + 1 /\ sinceBeat' = sinceBeat + 1
    BY <1>3, <1>8, <2>1 DEF Watching
  <2>3. inFlight' # <<>> => inFlight # <<>> /\ inFlight'[1].age = inFlight[1].age + 1
                            /\ inFlight[1].age \in Nat
    BY <1>1, <1>9, HeadOfChannel
  <2>4. inFlight' = <<>> => inFlight = <<>> BY <1>1, <1>9 DEF Carried
  <2>5. stdin' = <<>> /\ inFlight' # <<>> => since' <= Interval + Jitter + inFlight'[1].age
    <3> DEFINE a == inFlight[1].age
               b == inFlight'[1].age
    <3>1. SUFFICES ASSUME stdin' = <<>>, inFlight' # <<>> PROVE since' <= Interval + Jitter + b
      OBVIOUS
    <3>2. a \in Nat /\ b = a + 1 /\ since <= Interval + Jitter + a
      BY <1>1, <1>2, <2>1, <2>3, <3>1 DEF Accounted
    <3> HIDE DEF a, b
    <3> QED BY <1>4, <2>2, <3>2
  <2>6. stdin' = <<>> /\ inFlight' = <<>> => since' <= sinceBeat'
    <3>1. SUFFICES ASSUME stdin' = <<>>, inFlight' = <<>> PROVE since' <= sinceBeat'
      OBVIOUS
    <3>2. since <= sinceBeat BY <1>1, <1>2, <2>1, <2>4, <3>1 DEF Accounted
    <3> QED BY <1>4, <2>2, <3>2
  <2>7. stdin' # <<>> /\ pc = "loop" => since' <= Interval + Jitter + Delay + idle'
    <3>1. SUFFICES ASSUME stdin' # <<>>, pc = "loop"
                   PROVE  since' <= Interval + Jitter + Delay + idle'
      OBVIOUS
    <3>2. since <= Interval + Jitter + Delay + idle BY <1>1, <1>2, <2>1, <3>1 DEF Accounted
    <3> QED BY <1>4, <2>2, <3>2
  <2> QED BY <1>2, <2>5, <2>6, <2>7 DEF Accounted
<1>12. Turn' BY <1>1, <1>2, <1>4, <1>8 DEF Turn, Watching
<1>13. Deadlines'
  <2>1. pc = "spawn" => orphaned' = 0
    <3>1. pc = "spawn" => ~Survives BY <1>1 DEF IInv, Ownership, Survives
    <3> QED BY <1>7, <3>1
  <2>2. Watching /\ stdin = <<>> => orphaned' <= Delay + 2 * MaxStall + since'
    <3>1. SUFFICES ASSUME Watching, stdin = <<>> PROVE orphaned' <= Delay + 2 * MaxStall + since'
      OBVIOUS
    <3>2. orphaned <= Delay + 2 * MaxStall + since BY <1>1, <3>1 DEF Deadlines
    <3> QED BY <1>4, <1>7, <1>8, <3>1, <3>2
  <2>3. pc \in {"loop", "select", "leave", "term"} => idle' = idle + 1 BY <1>8
  <2>4. pc = "loop" /\ stdin # <<>> => orphaned' <= Delay + idle'
    BY <1>1, <1>4, <1>7, <2>3 DEF Deadlines
  <2>5. pc = "select" /\ stdin # <<>> => orphaned' <= Delay + MaxStall + idle'
    BY <1>1, <1>4, <1>7, <2>3 DEF Deadlines
  <2>6. pc = "leave" => orphaned' < Delay + Lease + 4 * MaxStall + idle'
    <3>1. SUFFICES ASSUME pc = "leave" PROVE orphaned' < Delay + Lease + 4 * MaxStall + idle'
      OBVIOUS
    <3>2. orphaned < Delay + Lease + 4 * MaxStall + idle BY <1>1, <3>1 DEF Deadlines
    <3>3. idle' = idle + 1 BY <1>8, <3>1
    <3> QED BY <1>4, <1>7, <3>2, <3>3
  <2>7. pc = "term" => orphaned' < Delay + Lease + 5 * MaxStall + idle'
    <3>1. SUFFICES ASSUME pc = "term" PROVE orphaned' < Delay + Lease + 5 * MaxStall + idle'
      OBVIOUS
    <3>2. orphaned < Delay + Lease + 5 * MaxStall + idle BY <1>1, <3>1 DEF Deadlines
    <3>3. idle' = idle + 1 BY <1>8, <3>1
    <3> QED BY <1>4, <1>7, <3>2, <3>3
  <2>8. pc = "grace" => orphaned' < Delay + Lease + 6 * MaxStall + inGrace'
    <3>1. SUFFICES ASSUME pc = "grace" PROVE orphaned' < Delay + Lease + 6 * MaxStall + inGrace'
      OBVIOUS
    <3>2. orphaned < Delay + Lease + 6 * MaxStall + inGrace BY <1>1, <3>1 DEF Deadlines
    <3>3. inGrace' = inGrace + 1 BY <1>8, <3>1
    <3> QED BY <1>4, <1>7, <3>2, <3>3
  <2> QED BY <1>2, <2>1, <2>2, <2>4, <2>5, <2>6, <2>7, <2>8 DEF Deadlines, Watching
<1>14. NoSpuriousExpiry' BY <1>1, <1>2 DEF NoSpuriousExpiry, Margin
<1>15. OrphansStopped'
  <2>1. CASE pc \in {"reap", "exited"}
    <3>1. orphaned' = 0 BY <1>1, <1>7, <2>1 DEF IInv, Ownership
    <3> QED BY <1>4, <3>1 DEF OrphansStopped
  <2>2. CASE pc = "spawn"
    <3>1. orphaned' <= 1 BY <1>1, <1>4, <1>7, <2>2 DEF Deadlines
    <3> QED BY <1>4, <1>7, <3>1 DEF OrphansStopped
  <2>3. CASE Watching
    <3>1. since < Lease + 2 * MaxStall /\ idle < MaxStall BY <1>1, <1>4, <1>8, <2>3 DEF Turn, Watching
    <3>2. orphaned <= Delay + 2 * MaxStall + since \/ orphaned <= Delay + MaxStall + idle
      BY <1>1, <1>4, <2>3 DEF Deadlines, Watching
    <3>3. orphaned < Delay + Lease + 4 * MaxStall BY <1>4, <3>1, <3>2
    <3> QED BY <1>4, <1>7, <3>3 DEF OrphansStopped
  <2>4. CASE pc \in {"leave", "term"}
    <3>1. orphaned < Delay + Lease + 5 * MaxStall + idle /\ idle < MaxStall
      <4>1. idle < MaxStall BY <1>8, <2>4
      <4>2. pc = "leave" => orphaned < Delay + Lease + 4 * MaxStall + idle
        BY <1>1 DEF Deadlines
      <4>3. pc = "term" => orphaned < Delay + Lease + 5 * MaxStall + idle
        BY <1>1 DEF Deadlines
      <4> QED BY <1>4, <2>4, <4>1, <4>2, <4>3
    <3> QED BY <1>4, <1>7, <3>1 DEF OrphansStopped
  <2>5. CASE pc = "grace"
    <3>1. orphaned < Delay + Lease + 6 * MaxStall + inGrace /\ idle < MaxStall
          /\ inGrace < Grace + idle
      BY <1>1, <1>8, <2>5 DEF Deadlines, Turn
    <3> QED BY <1>4, <1>7, <3>1 DEF OrphansStopped
  <2> QED BY <1>4, <2>1, <2>2, <2>3, <2>4, <2>5 DEF Pc, Watching
<1> QED BY <1>5, <1>6, <1>10, <1>11, <1>12, <1>13, <1>14, <1>15 DEF LeaseIInv

\* Every step keeps the invariant.
LEMMA LeaseNextIInv == LeaseIInv /\ [LeaseNext]_all => LeaseIInv'
<1> SUFFICES ASSUME LeaseIInv, [LeaseNext]_all PROVE LeaseIInv'
  OBVIOUS
<1>1. CASE /\ UNCHANGED <<pc, since, pending, inGrace, idle, unseen, status, stdin, local>>
           /\ (eof' = eof \/ owner # "beating") /\ IInv'
  <2>1. UNCHANGED <<owner, sinceBeat, inFlight, orphaned>> BY <1>1 DEF local
  <2>2. Framing' /\ Turn' /\ Deadlines' /\ Accounted' /\ NoSpuriousExpiry' /\ OrphansStopped'
    BY <1>1, <2>1 DEF LeaseIInv, Framing, Turn, Deadlines, Accounted, NoSpuriousExpiry, Margin,
                      OrphansStopped, Watching
  <2>3. Carried' BY <1>1, <2>1 DEF LeaseIInv, Carried
  <2> QED BY <1>1, <2>2, <2>3 DEF LeaseIInv
<1>2. CASE Supervise /\ UNCHANGED local BY <1>2, SuperviseLeaseIInv
<1>3. CASE ((Signal \/ Terminated \/ ConnectionDropped) /\ UNCHANGED local) \/ UNCHANGED all
  <2>1. UNCHANGED <<leader, members, killed, pc, since, pending, inGrace, idle, unseen, status,
                    stdin, local>>
    BY <1>3 DEF Signal, Terminated, ConnectionDropped, Closes, all, vars, group, program, clock, channel
  <2>2. eof' = eof \/ owner # "beating"
    BY <1>3 DEF Signal, Terminated, ConnectionDropped, all, vars, channel
  <2>3. IInv' BY <2>1 DEF LeaseIInv, IInv, Clocks, Ownership, Survives
  <2> QED BY <1>1, <2>1, <2>2, <2>3
<1>4. CASE GroupMoves /\ UNCHANGED local
  <2>1. UNCHANGED <<pc, since, pending, inGrace, idle, unseen, status, stdin, eof>>
    BY <1>4 DEF GroupMoves, program, clock, channel
  <2>2. IInv' BY <1>4, GroupIInv DEF LeaseIInv
  <2> QED BY <1>1, <1>4, <2>1, <2>2
<1>5. ConnectionDropped => UNCHANGED local BY DEF ConnectionDropped
<1> QED
  BY <1>2, <1>3, <1>4, <1>5, OwnerLeaseIInv, DeliverLeaseIInv, TickLeaseIInv DEF LeaseNext

\* The invariant holds throughout.
THEOREM LeaseInvariance == LeaseSpec => []LeaseIInv
BY LeaseInitIInv, LeaseNextIInv, PTL DEF LeaseSpec

\* With a lease above interval, event-loop delay, channel delay and one scheduling
\* delay, a living owner is never taken for lost.
THEOREM LivingOwnerIsKept == LeaseSpec => []NoSpuriousExpiry
<1>1. LeaseIInv => NoSpuriousExpiry BY DEF LeaseIInv
<1> QED BY <1>1, LeaseInvariance, PTL

\* Heartbeats are never taken for malformed, however they are read.
THEOREM FramesAreWellFormed == LeaseSpec => []NoSpuriousMalformed
<1>1. LeaseIInv => NoSpuriousMalformed BY DEF LeaseIInv, Framing, NoSpuriousMalformed
<1> QED BY <1>1, LeaseInvariance, PTL

\* A group without an owner is stopped in time, whatever is lost.
THEOREM OrphansAreStopped == LeaseSpec => []OrphansStopped
<1>1. LeaseIInv => OrphansStopped BY DEF LeaseIInv
<1> QED BY <1>1, LeaseInvariance, PTL

\* Under its lease, too, the supervisor ends with its group stopped, and the child
\* does not outlive the lease by more than one turn of the loop.
THEOREM LeasedGroupStopped == LeaseSpec => [](GroupStopped /\ LeaseEnforced)
<1>1. LeaseIInv => GroupStopped /\ LeaseEnforced
  BY TimesAssumption
     DEF LeaseIInv, IInv, Ownership, Clocks, GroupStopped, LeaseEnforced, Watching
<1> QED BY <1>1, LeaseInvariance, PTL

(***************************************************************************)
(* The end of file that a closing owner sends.                             *)
(***************************************************************************)
\* It is under way or has arrived.  From then on each position of the program is left
\* for the next one within one idle time, whatever else was still to be read.
CloseDeadlines ==
  owner = "closed" =>
    /\ ~eof => inFlight # <<>> /\ inFlight[Len(inFlight)].what = "eof"
    /\ pc = "loop" => orphaned <= Delay + 2 * MaxStall + idle
    /\ pc = "select" => orphaned <= Delay + 3 * MaxStall + idle
    /\ pc = "leave" => orphaned <= Delay + 4 * MaxStall + idle
    /\ pc = "term" => orphaned <= Delay + 5 * MaxStall + idle
    /\ pc = "grace" => orphaned <= Delay + 6 * MaxStall + inGrace

CloseIInv == CloseDeadlines /\ CloseOutlastsGroup

\* The numbers are numbers.
LEMMA NumbersAre ==
  ASSUME LeaseIInv
  PROVE  /\ since \in Nat /\ inGrace \in Nat /\ idle \in Nat /\ orphaned \in Nat /\ idle <= MaxStall
         /\ Lease \in Nat /\ Grace \in Nat /\ MaxStall \in Nat /\ Delay \in Nat /\ LocalStop \in Nat
         /\ Grace > 0 /\ MaxStall > 0 /\ pc \in Pc
BY TimesAssumption, ChannelAssumption DEF LeaseIInv, IInv, Clocks, Ownership, Carried

\* While it is under way, its age bounds the time without an owner.
LEMMA EofUnderWay == ASSUME LeaseIInv, CloseIInv, owner = "closed", ~eof PROVE orphaned <= Delay
<1>1. inFlight # <<>> BY DEF CloseIInv, CloseDeadlines
<1>2. /\ inFlight[1].age \in Nat /\ orphaned <= inFlight[1].age /\ inFlight[1].age <= Delay
  BY <1>1, HeadOfChannel DEF LeaseIInv
<1> QED BY <1>2, NumbersAre

\* At first nothing is closed.
LEMMA CloseInit == LeaseInit => CloseIInv
BY DEF LeaseInit, CloseIInv, CloseDeadlines, CloseOutlastsGroup

\* The program: a closed channel that is empty ends the loop at once.
LEMMA SuperviseClose ==
  ASSUME LeaseIInv, CloseIInv, Supervise, UNCHANGED local PROVE CloseIInv'
<1>1. UNCHANGED <<owner, inFlight, orphaned>> BY DEF local
<1>2. IInv /\ Framing /\ Deadlines BY DEF LeaseIInv
<1>3. idle' = 0 /\ eof' = eof BY <1>2, SuperviseMoves
<1>4. CloseOutlastsGroup' BY <1>1 DEF CloseIInv, CloseOutlastsGroup, Patience
<1>5. SUFFICES ASSUME owner = "closed" PROVE CloseDeadlines'
  BY <1>1, <1>4 DEF CloseIInv, CloseDeadlines
<1>6. pc = "select" /\ stdin = <<>> /\ eof => pc' = "leave"
  BY DEF Supervise, Spawn, LoopTest, SelectTimesOut, ReadsEof, ReadsBytes, Leave, Terminate,
         GracePoll, GraceOver, Exit, Goto
<1>7. /\ pc' = "loop" => orphaned <= Delay + 2 * MaxStall
      /\ pc' = "select" => orphaned <= Delay + 3 * MaxStall
      /\ pc' = "leave" => orphaned <= Delay + 4 * MaxStall
      /\ pc' = "term" => orphaned <= Delay + 5 * MaxStall
      /\ pc' = "grace" => orphaned <= Delay + 6 * MaxStall + inGrace'
  <2>1. inGrace' \in Nat
    <3>1. IInv' BY <1>2, SuperviseIInv
    <3> QED BY <3>1 DEF IInv, Clocks
  <2>2. CASE ~eof
    <3>1. orphaned <= Delay BY <1>5, <2>2, EofUnderWay
    <3> QED BY <2>1, <3>1, NumbersAre
  <2>3. CASE eof
    <3>1. /\ pc = "spawn" => orphaned = 0
          /\ pc = "loop" => orphaned <= Delay + 2 * MaxStall + idle
          /\ pc = "select" => orphaned <= Delay + 3 * MaxStall + idle
          /\ pc = "select" /\ stdin # <<>> => orphaned <= Delay + MaxStall + idle
          /\ pc = "leave" => orphaned <= Delay + 4 * MaxStall + idle
          /\ pc = "term" => orphaned <= Delay + 5 * MaxStall + idle
          /\ pc = "grace" => orphaned <= Delay + 6 * MaxStall + inGrace
      BY <1>2, <1>5 DEF Deadlines, CloseIInv, CloseDeadlines
    <3>2. \/ pc = "spawn" /\ pc' \in {"loop", "term", "exited"}
          \/ pc = "loop" /\ pc' \in {"select", "leave"}
          \/ pc = "select" /\ stdin = <<>> /\ pc' = "leave"
          \/ pc = "select" /\ stdin # <<>> /\ pc' = "loop"
          \/ pc = "leave" /\ pc' = "term"
          \/ pc = "term" /\ pc' \in {"grace", "reap"} /\ inGrace' = 0
          \/ pc = "grace" /\ pc' = "grace" /\ inGrace' = inGrace
          \/ pc' \in {"reap", "exited"}
      BY <1>2, <1>6, <2>3, SuperviseMoves
    <3>3. /\ orphaned \in Nat /\ idle \in Nat /\ idle <= MaxStall /\ inGrace \in Nat
          /\ Delay \in Nat /\ MaxStall \in Nat
      BY NumbersAre
    <3>4. CASE pc = "spawn" /\ pc' \in {"loop", "term", "exited"} BY <3>1, <3>3, <3>4
    <3>5. CASE pc = "loop" /\ pc' \in {"select", "leave"} BY <3>1, <3>3, <3>5
    <3>6. CASE pc = "select" /\ stdin = <<>> /\ pc' = "leave" BY <3>1, <3>3, <3>6
    <3>7. CASE pc = "select" /\ stdin # <<>> /\ pc' = "loop" BY <3>1, <3>3, <3>7
    <3>8. CASE pc = "leave" /\ pc' = "term" BY <3>1, <3>3, <3>8
    <3>9. CASE pc = "term" /\ pc' \in {"grace", "reap"} /\ inGrace' = 0 BY <3>1, <3>3, <3>9
    <3>10. CASE pc = "grace" /\ pc' = "grace" /\ inGrace' = inGrace BY <3>1, <3>3, <3>10
    <3>11. CASE pc' \in {"reap", "exited"} BY <3>11
    <3> QED BY <3>2, <3>4, <3>5, <3>6, <3>7, <3>8, <3>9, <3>10, <3>11
  <2> QED BY <2>2, <2>3
<1>8. ~eof => inFlight # <<>> /\ inFlight[Len(inFlight)].what = "eof"
  BY <1>5 DEF CloseIInv, CloseDeadlines
<1> QED BY <1>1, <1>3, <1>7, <1>8, NumbersAre DEF CloseDeadlines

\* The owner: at the moment it closes, it still was the owner.
LEMMA OwnerClose ==
  ASSUME LeaseIInv, CloseIInv, Beat \/ OwnerCloses \/ OwnerLost PROVE CloseIInv'
<1>1. CASE Beat \/ OwnerLost
  BY <1>1 DEF Beat, BeatDue, OwnerLost, CloseIInv, CloseDeadlines, CloseOutlastsGroup
<1>2. CASE OwnerCloses
  <2>1. /\ owner = "beating" /\ inFlight' = Append(inFlight, [what |-> "eof", age |-> 0])
        /\ UNCHANGED <<pc, idle, inGrace, orphaned>>
    BY <1>2 DEF OwnerCloses, Sent, vars, program, clock
  <2>2. inFlight \in Seq(Message) /\ orphaned = 0 BY <2>1 DEF LeaseIInv, Carried
  <2>3. inFlight' # <<>> /\ inFlight'[Len(inFlight')].what = "eof" BY <2>1, <2>2
  <2>4. /\ 0 <= Delay + 2 * MaxStall + idle /\ 0 <= Delay + 3 * MaxStall + idle
        /\ 0 <= Delay + 4 * MaxStall + idle /\ 0 <= Delay + 5 * MaxStall + idle
        /\ 0 <= Delay + 6 * MaxStall + inGrace
    BY NumbersAre
  <2>6. orphaned' = 0 /\ idle' = idle /\ inGrace' = inGrace BY <2>1, <2>2
  <2>7. CloseDeadlines' BY <2>3, <2>4, <2>6 DEF CloseDeadlines
  <2>5. CloseOutlastsGroup' BY <2>1, <2>2, NumbersAre DEF CloseOutlastsGroup, Patience
  <2> QED BY <2>5, <2>7 DEF CloseIInv
<1> QED BY <1>1, <1>2

\* What is left of a sequence of several elements ends as it ended.
LEMMA TailKeepsTheEnd ==
  ASSUME NEW S, NEW x \in Seq(S), x # <<>>, Len(x) # 1
  PROVE  Tail(x) # <<>> /\ Tail(x)[Len(Tail(x))] = x[Len(x)]
<1>1. Len(x) \in Nat \ {0} BY EmptySeq
<1>2. Len(x) - 1 \in Nat \ {0} /\ Len(x) - 1 \in 1..(Len(x) - 1)
  <2>1. \A n \in Nat \ {0, 1} : n - 1 \in Nat \ {0} /\ n - 1 \in 1..(n - 1) OBVIOUS
  <2>2. Len(x) \in Nat \ {0, 1} BY <1>1
  <2> QED BY <2>1, <2>2
<1>3. Len(Tail(x)) = Len(x) - 1 OBVIOUS
<1>4. \A i \in 1..(Len(x) - 1) : Tail(x)[i] = x[i + 1] OBVIOUS
<1>5. Tail(x)[Len(x) - 1] = x[(Len(x) - 1) + 1] BY <1>2, <1>4
<1>6. (Len(x) - 1) + 1 = Len(x) BY <1>1
<1>7. Len(<<>>) = 0 BY EmptySeq
<1> QED BY <1>2, <1>3, <1>5, <1>6, <1>7

\* The channel: what precedes the end of file does not take it along.
LEMMA DeliverClose == ASSUME LeaseIInv, CloseIInv, Deliver PROVE CloseIInv'
<1>1. /\ UNCHANGED <<pc, idle, inGrace, owner, orphaned>>
      /\ inFlight # <<>> /\ inFlight' = Tail(inFlight)
      /\ eof' = (eof \/ inFlight[1].what # "frame")
  <2>1. inFlight # <<>> /\ inFlight \in Seq(Message) BY DEF Deliver, LeaseIInv, Carried
  <2>2. Head(inFlight) = inFlight[1] BY <2>1
  <2> QED BY <2>2 DEF Deliver, program, clock
<1>2. CloseOutlastsGroup' BY <1>1 DEF CloseIInv, CloseOutlastsGroup, Patience
<1>3. ASSUME owner = "closed", ~eof'
      PROVE  inFlight' # <<>> /\ inFlight'[Len(inFlight')].what = "eof"
  <2>1. inFlight \in Seq(Message) BY DEF LeaseIInv, Carried
  <2>2. inFlight[1].what = "frame" /\ inFlight[Len(inFlight)].what = "eof"
    BY <1>1, <1>3 DEF CloseIInv, CloseDeadlines
  <2>3. Len(inFlight) # 1 BY <2>2
  <2>4. inFlight' # <<>> /\ inFlight'[Len(inFlight')] = inFlight[Len(inFlight)]
    BY <1>1, <2>1, <2>3, TailKeepsTheEnd
  <2> QED BY <2>2, <2>4
<1> QED BY <1>1, <1>2, <1>3 DEF CloseIInv, CloseDeadlines

\* A tick: the time without an owner grows no faster than the program's waits.
LEMMA TickClose == ASSUME LeaseIInv, CloseIInv, LeaseTick PROVE CloseIInv'
<1>1. /\ UNCHANGED <<leader, members, killed, pc, eof, owner>>
      /\ pc # "exited" /\ (Due => idle < MaxStall) /\ idle' = (IF Due THEN idle + 1 ELSE idle)
      /\ inGrace' = Aged(inGrace, pc = "grace")
      /\ inFlight' = [i \in DOMAIN inFlight |-> [inFlight[i] EXCEPT !.age = @ + 1]]
      /\ orphaned' = IF owner # "beating" /\ Survives THEN Min({orphaned + 1, HorizonOfOrphans})
                     ELSE 0
  BY DEF LeaseTick, Tick, group, program, channel
<1>2. orphaned' \in Nat /\ orphaned' <= orphaned + 1 /\ (~Survives => orphaned' = 0)
  <2>1. HorizonOfOrphans \in Nat /\ orphaned + 1 \in Nat BY NumbersAre DEF HorizonOfOrphans
  <2> QED BY <1>1, <2>1, MinOfTwo, NumbersAre
<1>3. /\ pc \notin {"reap", "exited"} => idle' = idle + 1 /\ idle < MaxStall
      /\ pc = "grace" => inGrace' = inGrace + 1 /\ inGrace < Grace + idle
  <2>1. pc = "grace" => inGrace < Grace + idle BY DEF LeaseIInv, Turn
  <2>2. pc = "grace" => inGrace < Horizon BY <2>1, NumbersAre DEF Horizon
  <2> QED BY <1>1, <2>1, <2>2 DEF Aged, Due
<1>4. SUFFICES ASSUME owner = "closed" PROVE CloseIInv'
  BY <1>1 DEF CloseIInv, CloseDeadlines, CloseOutlastsGroup
<1>5. ~eof => inFlight' # <<>> /\ inFlight'[Len(inFlight')].what = "eof"
  <2>1. SUFFICES ASSUME ~eof PROVE inFlight' # <<>> /\ inFlight'[Len(inFlight')].what = "eof"
    OBVIOUS
  <2>2. inFlight \in Seq(Message) BY DEF LeaseIInv, Carried
  <2>3. inFlight # <<>> /\ inFlight[Len(inFlight)].what = "eof"
    BY <1>4, <2>1 DEF CloseIInv, CloseDeadlines
  <2>4. Len(inFlight) \in 1..Len(inFlight) /\ inFlight[Len(inFlight)] \in Message
        /\ DOMAIN inFlight = 1..Len(inFlight)
    BY <2>2, <2>3
  <2>5. inFlight' # <<>> /\ Len(inFlight') = Len(inFlight) BY <1>1, <2>2, <2>4
  <2>6. [inFlight[Len(inFlight)] EXCEPT !.age = @ + 1].what = "eof" BY <2>3, <2>4 DEF Message
  <2> QED BY <1>1, <2>4, <2>5, <2>6
<1>6. /\ pc = "loop" => orphaned <= Delay + 2 * MaxStall + idle
      /\ pc = "select" => orphaned <= Delay + 3 * MaxStall + idle
      /\ pc = "leave" => orphaned <= Delay + 4 * MaxStall + idle
      /\ pc = "term" => orphaned <= Delay + 5 * MaxStall + idle
      /\ pc = "grace" => orphaned <= Delay + 6 * MaxStall + inGrace
  BY <1>4 DEF CloseIInv, CloseDeadlines
<1>7. CloseDeadlines'
  <2>1. /\ orphaned \in Nat /\ orphaned' \in Nat /\ idle \in Nat /\ inGrace \in Nat
        /\ Delay \in Nat /\ MaxStall \in Nat
    BY <1>2, NumbersAre
  <2>2. pc = "loop" => orphaned' <= Delay + 2 * MaxStall + idle' BY <1>2, <1>3, <1>6, <2>1
  <2>3. pc = "select" => orphaned' <= Delay + 3 * MaxStall + idle' BY <1>2, <1>3, <1>6, <2>1
  <2>4. pc = "leave" => orphaned' <= Delay + 4 * MaxStall + idle' BY <1>2, <1>3, <1>6, <2>1
  <2>5. pc = "term" => orphaned' <= Delay + 5 * MaxStall + idle' BY <1>2, <1>3, <1>6, <2>1
  <2>6. pc = "grace" => orphaned' <= Delay + 6 * MaxStall + inGrace' BY <1>2, <1>3, <1>6, <2>1
  <2>7. pc' = pc /\ eof' = eof BY <1>1
  <2> QED BY <1>5, <2>2, <2>3, <2>4, <2>5, <2>6, <2>7 DEF CloseDeadlines
<1>8. CloseOutlastsGroup'
  <2>1. pc \in {"spawn", "reap", "exited"} => ~Survives
    BY DEF LeaseIInv, IInv, Ownership, Survives
  <2>2. StopMargin /\ pc \in {"loop", "select", "leave", "term", "grace"} => orphaned' <= Patience
    BY <1>2, <1>3, <1>6, NumbersAre DEF StopMargin, Patience
  <2>3. pc \in {"spawn", "reap", "exited"} => orphaned' <= Patience
    BY <1>2, <2>1, NumbersAre DEF Patience
  <2>4. StopMargin => orphaned' <= Patience BY <2>2, <2>3, NumbersAre DEF Pc
  <2> QED BY <2>4 DEF CloseOutlastsGroup, StopMargin, Patience
<1> QED BY <1>7, <1>8 DEF CloseIInv

\* Every step keeps it.
LEMMA CloseNext == LeaseIInv /\ CloseIInv /\ [LeaseNext]_all => CloseIInv'
<1> SUFFICES ASSUME LeaseIInv, CloseIInv, [LeaseNext]_all PROVE CloseIInv'
  OBVIOUS
<1>1. CASE UNCHANGED <<pc, idle, inGrace, eof, local>>
  <2>1. UNCHANGED <<owner, inFlight, orphaned>> BY <1>1 DEF local
  <2> QED BY <1>1, <2>1 DEF CloseIInv, CloseDeadlines, CloseOutlastsGroup, Patience
<1>2. CASE Supervise /\ UNCHANGED local BY <1>2, SuperviseClose
<1>3. CASE ((Signal \/ GroupMoves \/ Terminated) /\ UNCHANGED local) \/ UNCHANGED all
  <2>1. UNCHANGED <<pc, idle, inGrace, eof, local>>
    BY <1>3 DEF Signal, GroupMoves, Terminated, all, vars, program, clock, channel
  <2> QED BY <1>1, <2>1
<1>4. CASE ConnectionDropped
  <2>1. owner = "lost" /\ owner' = owner BY <1>4 DEF ConnectionDropped, local
  <2> QED BY <2>1 DEF CloseIInv, CloseDeadlines, CloseOutlastsGroup
<1> QED BY <1>2, <1>3, <1>4, OwnerClose, DeliverClose, TickClose DEF LeaseNext

\* The owner that closes does not stop its local channel before the remote group is
\* gone or was sent SIGKILL, for all values of the times that leave it the margin.
THEOREM ClosingOwnerWaitsLongEnough == LeaseSpec => []CloseOutlastsGroup
<1>1. CloseIInv => CloseOutlastsGroup BY DEF CloseIInv
<1> QED BY <1>1, LeaseInvariance, CloseInit, CloseNext, PTL DEF LeaseSpec
=============================================================================
