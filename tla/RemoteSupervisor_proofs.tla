------------------------ MODULE RemoteSupervisor_proofs ------------------------
(***************************************************************************)
(* What RemoteSupervisor guarantees for every lease, grace, scheduling     *)
(* delay, heartbeat frame and set of group members, whatever arrives on    *)
(* its channel, and that its verdict on the heartbeats is that of a reader *)
(* of the whole stream.                                                    *)
(***************************************************************************)
EXTENDS HeartbeatStream, SequenceTheorems, WellFoundedInduction, TLAPS

\* The clocks: between two tests of the loop condition pass at most two idle
\* times, and what the first of them saw bounds what the second can see.
Clocks ==
  /\ {since, inGrace, unseen, idle} \subseteq Nat /\ idle <= MaxStall
  /\ leader = "running" => (pc = "loop" => since < Lease + MaxStall + idle)
                           /\ (pc = "select" => since < Lease + idle)
  /\ leader \in {"unborn", "running"} => unseen = 0
  /\ pc = "loop" => unseen <= MaxStall + idle
  /\ pc = "select" => unseen <= idle

\* The group: born with the spawn, and stopped once the program waits to exit.
Ownership ==
  /\ leader \in {"unborn", "running", "zombie", "reaped"} /\ killed \in BOOLEAN
  /\ pc \in Pc
  /\ leader = "unborn" => pc \in {"spawn", "exited"} /\ members = {}
  /\ pc = "spawn" => leader = "unborn"
  /\ pc \in {"reap", "exited"} => ~Survives

IInv == Clocks /\ Ownership

\* Newline i of s ends a frame that begins s or follows a newline.
EndsFrame(s, i) ==
  /\ i >= Len(Frame)
  /\ \A j \in 1..Len(Frame) : s[i - Len(Frame) + j] = Frame[j]
  /\ i = Len(Frame) \/ s[i - Len(Frame)] = Newline

\* Whole frames.
Framed(s) ==
  s \in Seq(Bytes) /\ OfFrames(s) /\ (s # <<>> => s[Len(s)] = Newline)

\* What has been read, while no malformed line was seen: whole frames and then the
\* pending part of a line, which could still become a frame by its length.
Parsed(done) ==
  /\ Framed(done) /\ consumed = done \o pending
  /\ pending \in Seq(Bytes) /\ Newlines(pending) = {} /\ ~Overlong(pending)

\* Once one was seen, the program reads no more.
StreamIInv ==
  /\ stdin \in Seq(Bytes) /\ stopping \in BOOLEAN
  /\ status # 70 => \E n \in 0..Len(consumed) : Parsed(SubSeq(consumed, 1, n))
  /\ status = 70 => /\ ~WellFormed(consumed) /\ pc \notin {"spawn", "select"}
                    /\ pc = "loop" => stopping

(***************************************************************************)
(* The program and its group.                                              *)
(***************************************************************************)
\* The states of Init satisfy the invariant.
LEMMA InitIInv == Init => IInv
<1> SUFFICES ASSUME Init PROVE IInv
  OBVIOUS
<1>1. /\ leader = "unborn" /\ members = {} /\ killed = FALSE /\ pc = "spawn"
      /\ since = 0 /\ inGrace = 0 /\ idle = 0 /\ unseen = 0
  BY DEF Init, GroupInit
<1>2. Clocks BY <1>1, TimesAssumption DEF Clocks
<1>3. Ownership BY <1>1 DEF Ownership, Pc
<1> QED BY <1>2, <1>3 DEF IInv

\* A step of the program, from any of its positions.
LEMMA SuperviseIInv == ASSUME IInv, Supervise PROVE IInv'
<1> USE DEF IInv, Goto
<1>1. CASE Spawn
  <2>1. /\ pc = "spawn" /\ UNCHANGED <<members, killed, inGrace, unseen>> /\ idle' = 0
        /\ \/ leader' = "running" /\ pc' \in {"loop", "term"} /\ since' = 0
           \/ pc' = "exited" /\ UNCHANGED <<leader, since>>
    BY <1>1 DEF Spawn
  <2>2. Clocks' BY <2>1, TimesAssumption DEF Clocks, Ownership, Pc
  <2>3. Ownership' BY <2>1 DEF Ownership, Survives, Pc
  <2> QED BY <2>2, <2>3
<1>2. CASE LoopTest
  <2>1. Clocks' BY <1>2, TimesAssumption DEF LoopTest, Expired, Clocks, Ownership, Pc
  <2>2. Ownership' BY <1>2 DEF LoopTest, Ownership, Survives, Pc
  <2> QED BY <2>1, <2>2
<1>3. CASE SelectTimesOut
  <2>1. Clocks'
    BY <1>3, TimesAssumption DEF SelectTimesOut, Clocks, Ownership, Pc, group, channel
  <2>2. Ownership' BY <1>3 DEF SelectTimesOut, Ownership, Survives, Pc, group
  <2> QED BY <2>1, <2>2
<1>4. CASE ReadsEof
  <2>1. Clocks' BY <1>4, TimesAssumption DEF ReadsEof, Clocks, Ownership, Pc, group, channel
  <2>2. Ownership' BY <1>4 DEF ReadsEof, Ownership, Survives, Pc, group
  <2> QED BY <2>1, <2>2
<1>5. CASE ReadsBytes
  <2>1. /\ pc = "select" /\ pc' \in {"leave", "loop"} /\ idle' = 0
        /\ since' = 0 \/ since' = since
        /\ UNCHANGED <<leader, members, killed, inGrace, unseen>>
    BY <1>5 DEF ReadsBytes, group
  <2>2. Clocks' BY <2>1, TimesAssumption DEF Clocks, Ownership, Pc
  <2>3. Ownership' BY <2>1 DEF Ownership, Survives, Pc
  <2> QED BY <2>2, <2>3
<1>6. CASE Leave
  <2>1. Clocks' BY <1>6, TimesAssumption DEF Leave, Clocks, Ownership, Pc, channel
  <2>2. Ownership' BY <1>6 DEF Leave, Ownership, Survives, Pc
  <2> QED BY <2>1, <2>2
<1>7. CASE Terminate
  <2>1. Clocks' BY <1>7, TimesAssumption DEF Terminate, Clocks, Ownership, Pc, group, channel
  <2>2. Ownership' BY <1>7 DEF Terminate, Signalable, Ownership, Survives, Pc, group
  <2> QED BY <2>1, <2>2
<1>8. CASE GracePoll
  <2>1. Clocks' BY <1>8, TimesAssumption DEF GracePoll, Clocks, Ownership, Pc, channel
  <2>2. Ownership' BY <1>8 DEF GracePoll, GroupGone, Ownership, Survives, Pc
  <2> QED BY <2>1, <2>2
<1>9. CASE GraceOver
  <2>1. Clocks' BY <1>9, TimesAssumption DEF GraceOver, Clocks, Ownership, Pc, channel
  <2>2. Ownership' BY <1>9 DEF GraceOver, Signalable, Ownership, Survives, Pc
  <2> QED BY <2>1, <2>2
<1>10. CASE Exit
  <2>1. Clocks' BY <1>10, TimesAssumption DEF Exit, Clocks, Ownership, Pc, channel
  <2>2. Ownership' BY <1>10 DEF Exit, Ownership, Survives, Pc
  <2> QED BY <2>1, <2>2
<1> QED BY <1>1, <1>2, <1>3, <1>4, <1>5, <1>6, <1>7, <1>8, <1>9, <1>10 DEF Supervise

\* A tick: nobody waits beyond MaxStall but for the child's exit.
LEMMA TickIInv == ASSUME IInv, Tick PROVE IInv'
<1>1. /\ UNCHANGED <<leader, members, killed, pc>>
      /\ Due => idle < MaxStall
      /\ idle' = IF Due THEN idle + 1 ELSE idle
  BY DEF Tick, group, program
<1>2. Horizon \in Nat BY TimesAssumption DEF Horizon
<1>3. /\ since' = (IF Watching /\ since < Horizon THEN since + 1 ELSE since)
      /\ unseen' = (IF Watching /\ leader = "zombie" /\ unseen < Horizon THEN unseen + 1 ELSE unseen)
      /\ inGrace' \in {inGrace, inGrace + 1}
  BY DEF Tick, Aged
<1>4. Clocks'
  BY <1>1, <1>2, <1>3, TimesAssumption DEF IInv, Clocks, Ownership, Due, Watching
<1>5. Ownership' BY <1>1 DEF IInv, Ownership, Survives
<1> QED BY <1>4, <1>5 DEF IInv

\* The group's own moves: nobody joins a group that is empty or was sent SIGKILL.
LEMMA GroupIInv == ASSUME IInv, GroupMoves PROVE IInv'
<1>1. UNCHANGED <<pc, since, inGrace, idle, unseen>> BY DEF GroupMoves, program, clock
<1>2. Clocks'
  BY <1>1 DEF GroupMoves, GroupStep, LeaderExits, MemberExits, MemberJoins, IInv, Clocks
<1>3. Ownership'
  BY <1>1 DEF GroupMoves, GroupStep, LeaderExits, MemberExits, MemberJoins, IInv, Ownership,
              Survives
<1> QED BY <1>2, <1>3 DEF IInv

\* Every step keeps the invariant.
LEMMA NextIInv == IInv /\ [Next]_vars => IInv'
<1> SUFFICES ASSUME IInv, [Next]_vars PROVE IInv'
  OBVIOUS
<1>1. CASE UNCHANGED <<leader, members, killed, pc, since, inGrace, idle, unseen>>
  BY <1>1 DEF IInv, Clocks, Ownership, Survives
<1>2. ASSUME NEW b \in Bytes, Arrives(b) PROVE IInv'
  BY <1>1, <1>2 DEF Arrives, group, program, clock
<1>3. CASE Signal \/ Closes \/ Terminated \/ UNCHANGED vars
  BY <1>1, <1>3 DEF Signal, Closes, Terminated, vars, group, program, clock
<1> QED BY <1>2, <1>3, SuperviseIInv, TickIInv, GroupIInv DEF Next

\* The invariant holds throughout.
THEOREM Invariance == Spec => []IInv
BY InitIInv, NextIInv, PTL DEF Spec

\* However the supervisor ends, its group is empty or was sent SIGKILL.
THEOREM StopsItsGroup == Spec => []GroupStopped
<1>1. IInv => GroupStopped BY DEF IInv, Ownership, GroupStopped
<1> QED BY <1>1, Invariance, PTL

\* The child never outlives its lease by more than the two delays of a turn.
THEOREM EnforcesLease == Spec => []LeaseEnforced
<1>1. IInv => LeaseEnforced
  BY TimesAssumption DEF IInv, Clocks, LeaseEnforced, Watching
<1> QED BY <1>1, Invariance, PTL

\* The child's exit is seen within two delays, whatever the channel does.
THEOREM SeesExit == Spec => []ExitSeenPromptly
<1>1. IInv => ExitSeenPromptly
  BY TimesAssumption DEF IInv, Clocks, ExitSeenPromptly, Watching
<1> QED BY <1>1, Invariance, PTL

(***************************************************************************)
(* Numbers, frames and lines.                                              *)
(***************************************************************************)
\* A nonempty set of naturals has a least element.
LEMMA Least == ASSUME NEW T \in SUBSET Nat, T # {} PROVE \E m \in T : \A k \in T : m <= k
<1>1. IsWellFoundedOn(OpToRel(<, Nat), Nat) BY NatLessThanWellFounded
<1>2. \E x \in T : \A y \in T : ~(<<y, x>> \in OpToRel(<, Nat)) BY <1>1, WFMin
<1>3. \A x, y \in Nat : <<x, y>> \in OpToRel(<, Nat) <=> x < y BY DEF OpToRel
<1>4. PICK m \in T : \A y \in T : ~(<<y, m>> \in OpToRel(<, Nat)) BY <1>2
<1>5. ASSUME NEW k \in T PROVE m <= k
  <2>1. ~(k < m) BY <1>3, <1>4, <1>5
  <2> QED BY <2>1
<1> QED BY <1>5

\* A bounded set of naturals that is not empty has a largest element.
LEMMA Greatest ==
  ASSUME NEW n \in Nat, NEW T \in SUBSET (0..n), T # {}
  PROVE  \E m \in T : \A k \in T : m >= k
<1> DEFINE U == {n - k : k \in T}
<1>1. U \in SUBSET Nat /\ U # {}
  <2>1. \A k \in T : k \in Nat /\ k <= n /\ n - k \in Nat OBVIOUS
  <2> QED BY <2>1
<1>2. PICK u \in U : \A v \in U : u <= v BY <1>1, Least
<1>3. PICK m \in T : u = n - m BY <1>2
<1>4. ASSUME NEW k \in T PROVE m >= k
  <2>1. n - k \in U BY <1>4
  <2>2. n - m <= n - k BY <1>2, <1>3, <2>1
  <2> QED BY <1>3, <1>4, <2>2
<1> QED BY <1>4

\* The largest element of a set of numbers, if there is one.
LEMMA MaxIs == ASSUME NEW S \in SUBSET Nat, NEW m \in S, \A y \in S : m >= y PROVE Max(S) = m
<1>1. Max(S) \in S /\ \A y \in S : Max(S) >= y BY DEF Max
<1>2. Max(S) \in Nat /\ m \in Nat BY <1>1
<1>3. Max(S) >= m /\ m >= Max(S) BY <1>1
<1> QED BY <1>2, <1>3

\* The largest element of a bounded set is one of its elements.
LEMMA MaxOfBounded ==
  ASSUME NEW n \in Nat, NEW S \in SUBSET (0..n), S # {}
  PROVE  Max(S) \in S /\ \A y \in S : Max(S) >= y
<1>1. PICK m \in S : \A y \in S : m >= y BY Greatest
<1>2. S \in SUBSET Nat OBVIOUS
<1>3. Max(S) = m BY <1>1, <1>2, MaxIs
<1> QED BY <1>1, <1>3

\* The two ways to say that every line of a stream is the frame.
LEMMA OfFramesIs == \A s : OfFrames(s) <=> \A i \in 1..Len(s) : s[i] = Newline => EndsFrame(s, i)
BY DEF OfFrames, EndsFrame

\* What the frame is made of.
LEMMA FrameIs ==
  /\ Frame \in Seq(Bytes) /\ Len(Frame) \in Nat \ {0} /\ Frame[Len(Frame)] = Newline
  /\ \A i \in 1..Len(Frame) : Frame[i] = Newline => i = Len(Frame)
BY FrameAssumption

\* The line that a newline ends is the frame exactly if that newline ends a frame.
LEMMA LineIsFrame ==
  ASSUME NEW s \in Seq(Bytes), NEW i \in Newlines(s)
  PROVE  LineAt(s, i) = Frame <=> EndsFrame(s, i)
<1> DEFINE L == Len(Frame)
           S == {0} \cup {j \in Newlines(s) : j < i}
           p == Max(S)
<1>1. i \in 1..Len(s) /\ s[i] = Newline /\ Len(s) \in Nat BY DEF Newlines
<1>2. S \in SUBSET (0..Len(s)) /\ S # {} BY <1>1 DEF Newlines
<1>3. p \in S /\ \A y \in S : p >= y BY <1>1, <1>2, MaxOfBounded
<1>4. p \in Nat /\ p < i /\ (p = 0 \/ (p \in 1..Len(s) /\ s[p] = Newline)) BY <1>1, <1>3 DEF Newlines
<1>5. LineAt(s, i) = SubSeq(s, p + 1, i) BY DEF LineAt
<1>6. /\ SubSeq(s, p + 1, i) \in Seq(Bytes) /\ Len(SubSeq(s, p + 1, i)) = i - p
      /\ \A j \in 1..(i - p) : SubSeq(s, p + 1, i)[j] = s[p + j]
  <2> HIDE DEF p
  <2> QED BY <1>1, <1>4
<1>7. ASSUME LineAt(s, i) = Frame PROVE EndsFrame(s, i)
  <2> HIDE DEF p
  <2>1. i - p = L BY <1>5, <1>6, <1>7
  <2>2. p = i - L BY <1>1, <1>4, <2>1, FrameIs
  <2>3. \A j \in 1..L : s[p + j] = Frame[j] BY <1>5, <1>6, <1>7, <2>1
  <2>4. i >= L /\ (i = L \/ s[i - L] = Newline) BY <1>1, <1>4, <2>2, FrameIs
  <2> QED BY <2>2, <2>3, <2>4 DEF EndsFrame
<1>8. ASSUME EndsFrame(s, i) PROVE LineAt(s, i) = Frame
  <2>1. /\ i >= L /\ \A j \in 1..L : s[i - L + j] = Frame[j]
        /\ i = L \/ s[i - L] = Newline
    BY <1>8 DEF EndsFrame
  <2>2. i - L \in S BY <1>1, <2>1, FrameIs DEF Newlines
  <2>3. p >= i - L BY <1>3, <2>2
  <2> HIDE DEF p
  <2>4. ASSUME p > i - L PROVE FALSE
    <3>1. p # 0 BY <1>1, <2>1, <2>4, FrameIs
    <3>2. p - (i - L) \in 1..L /\ p - (i - L) # L BY <1>1, <1>4, <2>4, FrameIs
    <3>3. i - L + (p - (i - L)) = p BY <1>1, <1>4, FrameIs
    <3>4. Frame[p - (i - L)] = Newline BY <1>4, <2>1, <3>1, <3>2, <3>3
    <3> QED BY <3>2, <3>4, FrameIs
  <2>5. p = i - L BY <1>1, <1>4, <2>3, <2>4, FrameIs
  <2>6. Len(SubSeq(s, p + 1, i)) = L BY <1>1, <1>6, <2>5, FrameIs
  <2>7. i - p = L BY <1>1, <2>5, FrameIs
  <2>8. \A j \in 1..L : SubSeq(s, p + 1, i)[j] = Frame[j] BY <1>6, <2>1, <2>5, <2>7
  <2> QED BY <1>5, <1>6, <2>6, <2>8, FrameIs, SeqEqual
<1> QED BY <1>7, <1>8

\* The lines of s are all frames exactly if none is bad.
LEMMA NoBadLines == ASSUME NEW s \in Seq(Bytes) PROVE BadLines(s) = {} <=> OfFrames(s)
<1>1. Newlines(s) = {i \in 1..Len(s) : s[i] = Newline} BY DEF Newlines
<1>2. \A i \in Newlines(s) : LineAt(s, i) = Frame <=> EndsFrame(s, i) BY LineIsFrame
<1>3. BadLines(s) = {} <=> \A i \in Newlines(s) : EndsFrame(s, i) BY <1>2 DEF BadLines
<1> QED BY <1>1, <1>3, OfFramesIs

\* Without a bad line, s is whole frames followed by the rest, which has no newline.
LEMMA RestIs ==
  ASSUME NEW s \in Seq(Bytes), BadLines(s) = {}
  PROVE  \E m \in 0..Len(s) :
           /\ Rest(s) = SubSeq(s, m + 1, Len(s)) /\ Framed(SubSeq(s, 1, m))
           /\ \A i \in Newlines(s) : i <= m
<1> DEFINE S == {0} \cup Newlines(s)
           m == Max(S)
           F == SubSeq(s, 1, m)
<1>1. Len(s) \in Nat /\ Newlines(s) = {i \in 1..Len(s) : s[i] = Newline} BY DEF Newlines
<1>2. S \in SUBSET (0..Len(s)) /\ S # {} BY <1>1
<1>3. m \in S /\ \A y \in S : m >= y BY <1>1, <1>2, MaxOfBounded
<1>4. Rest(s) = SubSeq(s, m + 1, Len(s)) BY DEF Rest
<1>5. m \in 0..Len(s) /\ (m # 0 => s[m] = Newline) /\ \A i \in Newlines(s) : i <= m
  <2>1. m \in 0..Len(s) BY <1>2, <1>3
  <2>2. m # 0 => m \in Newlines(s) BY <1>3
  <2> HIDE DEF m
  <2>3. \A i \in Newlines(s) : i <= m /\ i # 0 BY <1>1, <1>2, <1>3, <2>1
  <2>4. m # 0 => s[m] = Newline BY <1>1, <2>2
  <2> QED BY <2>1, <2>3, <2>4
<1> HIDE DEF m
<1>6. F \in Seq(Bytes) /\ Len(F) = m /\ \A i \in 1..m : F[i] = s[i]
  BY <1>1, <1>5
<1>7. OfFrames(F)
  <2>1. ASSUME NEW i \in 1..m, F[i] = Newline PROVE EndsFrame(F, i)
    <3>1. i \in 1..Len(s) /\ s[i] = Newline BY <1>1, <1>5, <1>6, <2>1
    <3>2. EndsFrame(s, i) BY <3>1, NoBadLines, OfFramesIs
    <3>3. \A j \in 1..Len(Frame) : i >= Len(Frame) => i - Len(Frame) + j \in 1..m BY <1>5, FrameIs
    <3>4. i = Len(Frame) \/ (i > Len(Frame) => i - Len(Frame) \in 1..m) BY <1>5, FrameIs
    <3>5. i >= Len(Frame) /\ \A j \in 1..Len(Frame) : F[i - Len(Frame) + j] = Frame[j]
      BY <1>6, <3>2, <3>3 DEF EndsFrame
    <3>6. i = Len(Frame) \/ F[i - Len(Frame)] = Newline
      BY <1>5, <1>6, <3>2, <3>4, <3>5, FrameIs DEF EndsFrame
    <3> QED BY <3>5, <3>6 DEF EndsFrame
  <2> QED BY <1>6, <2>1, OfFramesIs
<1>8. F # <<>> => F[Len(F)] = Newline BY <1>5, <1>6
<1>9. Framed(F) BY <1>6, <1>7, <1>8 DEF Framed
<1> QED BY <1>4, <1>5, <1>9

\* After whole frames, a stream is of frames exactly if what follows them is.
LEMMA AfterFrames ==
  ASSUME NEW d, Framed(d), NEW s \in Seq(Bytes)
  PROVE  OfFrames(d \o s) <=> OfFrames(s)
<1> DEFINE L == Len(Frame)
           n == Len(d)
           t == d \o s
<1>1. /\ t \in Seq(Bytes) /\ n \in Nat /\ Len(s) \in Nat /\ Len(t) = n + Len(s)
      /\ \A i \in 1..n : t[i] = d[i]
      /\ \A i \in 1..Len(s) : t[n + i] = s[i]
  BY DEF Framed
<1>2. n = 0 \/ (n \in 1..n /\ t[n] = Newline) BY <1>1 DEF Framed
<1> HIDE DEF t
<1>3. ASSUME NEW i \in 1..n, t[i] = Newline PROVE EndsFrame(t, i)
  <2>1. EndsFrame(d, i) BY <1>1, <1>3, OfFramesIs DEF Framed
  <2>2. i >= L /\ (\A j \in 1..L : i - L + j \in 1..n) /\ (i = L \/ i - L \in 1..n)
    BY <1>1, <2>1, FrameIs DEF EndsFrame
  <2> QED BY <1>1, <2>1, <2>2 DEF EndsFrame
<1>4. ASSUME NEW i \in 1..Len(s), s[i] = Newline PROVE EndsFrame(t, n + i) <=> EndsFrame(s, i)
  <2>1. CASE i < L
    <3>1. ~EndsFrame(s, i) BY <1>1, <2>1, FrameIs DEF EndsFrame
    <3>2. ASSUME EndsFrame(t, n + i) PROVE FALSE
      <4>1. n + i >= L /\ \A j \in 1..L : t[n + i - L + j] = Frame[j] BY <3>2 DEF EndsFrame
      <4>2. n \in 1..n /\ t[n] = Newline BY <1>1, <1>2, <2>1, <4>1, FrameIs
      <4> HIDE DEF n, L
      <4>3. L - i \in 1..L /\ L - i # L /\ n + i - L + (L - i) = n
        <5>1. L \in Nat /\ n \in Nat /\ i \in Nat /\ 1 <= i /\ i < L BY <1>1, <1>4, <2>1, FrameIs DEF L
        <5> QED BY <5>1
      <4>4. Frame[L - i] = Newline BY <4>1, <4>2, <4>3
      <4> QED BY <4>3, <4>4, FrameIs DEF L
    <3> QED BY <3>1, <3>2
  <2>2. CASE i = L
    <3>1. n + i - L = n /\ \A j \in 1..L : n + i - L + j = n + j BY <1>1, <2>2, FrameIs
    <3>2. n + i >= L /\ (n + i = L \/ t[n + i - L] = Newline) BY <1>1, <1>2, <2>2, <3>1, FrameIs
    <3>3. \A j \in 1..L : t[n + i - L + j] = s[i - L + j]
      <4>1. \A j \in 1..L : i - L + j = j /\ j \in 1..Len(s) BY <1>1, <2>2, FrameIs
      <4> QED BY <1>1, <3>1, <4>1
    <3> QED BY <2>2, <3>2, <3>3, FrameIs DEF EndsFrame
  <2>3. CASE i > L
    <3>1. /\ n + i >= L /\ n + i # L /\ i # L /\ i >= L
      BY <1>1, <2>3, FrameIs
    <3>2. i - L \in 1..Len(s) /\ n + i - L = n + (i - L) BY <1>1, <2>3, FrameIs
    <3>3. \A j \in 1..L : i - L + j \in 1..Len(s) /\ n + i - L + j = n + (i - L + j)
      BY <1>1, <2>3, FrameIs
    <3>4. t[n + i - L] = s[i - L] BY <1>1, <3>2
    <3>5. \A j \in 1..L : t[n + i - L + j] = s[i - L + j] BY <1>1, <3>3
    <3> QED BY <3>1, <3>4, <3>5 DEF EndsFrame
  <2> QED BY <1>1, <2>1, <2>2, <2>3, FrameIs
<1>5. ASSUME OfFrames(t) PROVE OfFrames(s)
  <2>1. ASSUME NEW i \in 1..Len(s), s[i] = Newline PROVE EndsFrame(s, i)
    <3>1. n + i \in 1..Len(t) /\ t[n + i] = Newline BY <1>1, <2>1
    <3>2. EndsFrame(t, n + i) BY <1>5, <3>1, OfFramesIs
    <3> QED BY <1>4, <2>1, <3>2
  <2> QED BY <2>1, OfFramesIs
<1>6. ASSUME OfFrames(s) PROVE OfFrames(t)
  <2>1. ASSUME NEW i \in 1..Len(t), t[i] = Newline PROVE EndsFrame(t, i)
    <3>1. CASE i <= n BY <1>1, <1>3, <2>1, <3>1
    <3>2. CASE i > n
      <4>1. i - n \in 1..Len(s) /\ n + (i - n) = i BY <1>1, <3>2
      <4>2. s[i - n] = Newline BY <1>1, <2>1, <4>1
      <4>3. EndsFrame(s, i - n) BY <1>6, <4>1, <4>2, OfFramesIs
      <4> QED BY <1>4, <4>1, <4>2, <4>3
    <3> QED BY <1>1, <3>1, <3>2
  <2> QED BY <2>1, OfFramesIs
<1> QED BY <1>5, <1>6 DEF t

\* Frames after frames are frames.
LEMMA FramesAfterFrames ==
  ASSUME NEW d, Framed(d), NEW f, Framed(f) PROVE Framed(d \o f)
<1>1. d \in Seq(Bytes) /\ f \in Seq(Bytes) BY DEF Framed
<1>2. d \o f \in Seq(Bytes) /\ OfFrames(d \o f) BY <1>1, AfterFrames DEF Framed
<1>3. d \o f # <<>> => (d \o f)[Len(d \o f)] = Newline
  <2>1. CASE f = <<>> BY <1>1, <2>1 DEF Framed
  <2>2. CASE f # <<>>
    <3>1. Len(f) \in 1..Len(f) /\ Len(d \o f) = Len(d) + Len(f) BY <1>1, <2>2
    <3>2. (d \o f)[Len(d) + Len(f)] = f[Len(f)] BY <1>1, <3>1
    <3> QED BY <2>2, <3>1, <3>2 DEF Framed
  <2> QED BY <2>1, <2>2
<1> QED BY <1>2, <1>3 DEF Framed

(***************************************************************************)
(* The verdict on the heartbeats.                                          *)
(***************************************************************************)
\* The states of StreamInit satisfy the invariant.
LEMMA StreamInitIInv == StreamInit => StreamIInv
<1> SUFFICES ASSUME StreamInit PROVE StreamIInv
  OBVIOUS
<1>1. consumed = <<>> /\ pending = <<>> /\ stdin = <<>> /\ status = 0 /\ stopping = FALSE
  BY DEF StreamInit, Init
<1>2. 0 \in 0..Len(consumed) /\ SubSeq(consumed, 1, 0) = <<>> BY <1>1
<1>3. Framed(<<>>) BY DEF Framed, OfFrames
<1>4. Newlines(<<>>) = {} /\ ~Overlong(<<>>) BY FrameIs DEF Newlines, Overlong
<1>5. Parsed(<<>>) BY <1>1, <1>3, <1>4 DEF Parsed
<1>6. \E n \in 0..Len(consumed) : Parsed(SubSeq(consumed, 1, n)) BY <1>2, <1>5
<1>7. /\ stopping \in BOOLEAN
      /\ status # 70
  <2>1. stopping = FALSE /\ status = 0 BY <1>1
  <2>2. FALSE \in BOOLEAN /\ 0 # 70 OBVIOUS
  <2> QED BY <2>1, <2>2
<1>8. stdin \in Seq(Bytes) BY <1>1
<1> QED BY <1>6, <1>7, <1>8 DEF StreamIInv

\* A sequence is a prefix of its concatenation with another.
LEMMA PrefixOfConcat ==
  ASSUME NEW d \in Seq(Bytes), NEW p \in Seq(Bytes)
  PROVE  Len(d) \in 0..Len(d \o p) /\ SubSeq(d \o p, 1, Len(d)) = d
<1> DEFINE t == d \o p
<1>1. /\ t \in Seq(Bytes) /\ Len(t) = Len(d) + Len(p) /\ Len(d) \in Nat /\ Len(p) \in Nat
      /\ \A i \in 1..Len(d) : t[i] = d[i]
  OBVIOUS
<1> HIDE DEF t
<1>2. /\ SubSeq(t, 1, Len(d)) \in Seq(Bytes) /\ Len(SubSeq(t, 1, Len(d))) = Len(d)
      /\ \A i \in 1..Len(d) : SubSeq(t, 1, Len(d))[i] = d[i]
  BY <1>1
<1>3. SubSeq(t, 1, Len(d)) = d BY <1>2, SeqEqual
<1> QED BY <1>1, <1>3 DEF t

\* What is parsed so far is well formed.
LEMMA ParsedIsWellFormed ==
  ASSUME NEW d, Parsed(d) PROVE WellFormed(consumed)
<1> DEFINE L == Len(Frame)
<1>1. Framed(d) /\ d \in Seq(Bytes) /\ pending \in Seq(Bytes) /\ consumed = d \o pending
  BY DEF Parsed, Framed
<1>2. OfFrames(pending) BY DEF Parsed, Newlines, OfFrames
<1>3. OfFrames(consumed) BY <1>1, <1>2, AfterFrames
<1>4. /\ Len(consumed) = Len(d) + Len(pending) /\ Len(d) \in Nat /\ Len(pending) \in Nat
      /\ \A i \in 1..Len(d) : consumed[i] = d[i]
      /\ Len(pending) < L
  BY <1>1, FrameIs DEF Parsed, Overlong
<1>5. Len(consumed) < L \/ \E i \in (Len(consumed) - L + 1)..Len(consumed) : consumed[i] = Newline
  <2>1. CASE d = <<>> BY <1>4, <2>1
  <2>2. CASE d # <<>>
    <3>1. Len(d) \in 1..Len(d) /\ d[Len(d)] = Newline BY <1>1, <1>4, <2>2 DEF Framed
    <3>2. Len(d) \in (Len(consumed) - L + 1)..Len(consumed) BY <1>4, FrameIs
    <3> QED BY <1>4, <3>1, <3>2
  <2> QED BY <2>1, <2>2
<1> QED BY <1>3, <1>5 DEF WellFormed

\* One read: without a bad or overlong line more is parsed, with one the stream is
\* not well formed.
LEMMA OneRead ==
  ASSUME NEW d, Framed(d), NEW s \in Seq(Bytes)
  PROVE  IF BadLines(s) # {} \/ Overlong(Rest(s))
           THEN ~WellFormed(d \o s)
           ELSE /\ Rest(s) \in Seq(Bytes) /\ Newlines(Rest(s)) = {}
                /\ \E f : Framed(f) /\ d \o s = f \o Rest(s)
<1> DEFINE L == Len(Frame)
<1>1. CASE BadLines(s) # {}
  <2>1. ~OfFrames(d \o s) BY <1>1, NoBadLines, AfterFrames
  <2> QED BY <1>1, <2>1 DEF WellFormed
<1>2. CASE BadLines(s) = {}
  <2>1. PICK m \in 0..Len(s) :
           /\ Rest(s) = SubSeq(s, m + 1, Len(s)) /\ Framed(SubSeq(s, 1, m))
           /\ \A i \in Newlines(s) : i <= m
    BY <1>2, RestIs
  <2> DEFINE f == SubSeq(s, 1, m)
             r == SubSeq(s, m + 1, Len(s))
  <2>2. /\ r \in Seq(Bytes) /\ Len(r) = Len(s) - m /\ f \in Seq(Bytes) /\ Len(f) = m
        /\ \A i \in 1..(Len(s) - m) : r[i] = s[m + i]
        /\ \A i \in 1..m : f[i] = s[i]
        /\ Len(s) \in Nat /\ m \in Nat /\ m <= Len(s)
    OBVIOUS
  <2>9. Rest(s) = r /\ Framed(f) BY <2>1
  <2> HIDE DEF f, r
  <2>3. s = f \o r
    <3>1. f \o r \in Seq(Bytes) /\ Len(f \o r) = Len(s)
      <4>1. f \in Seq(Bytes) /\ r \in Seq(Bytes) BY <2>2
      <4>2. f \o r \in Seq(Bytes) BY <4>1
      <4>3. Len(f \o r) = Len(f) + Len(r) BY <4>1
      <4> QED BY <2>2, <4>2, <4>3
    <3>2. ASSUME NEW i \in 1..Len(s) PROVE (f \o r)[i] = s[i]
      <4>1. CASE i <= m BY <2>2, <4>1
      <4>2. CASE i > m
        <5>1. i - m \in 1..Len(r) /\ m + (i - m) = i BY <2>2, <4>2
        <5>2. (f \o r)[m + (i - m)] = r[i - m] BY <2>2, <5>1
        <5> QED BY <2>2, <5>1, <5>2
      <4> QED BY <2>2, <4>1, <4>2
    <3> QED BY <3>1, <3>2, SeqEqual
  <2>4. ASSUME NEW i \in 1..Len(r), r[i] = Newline PROVE FALSE
    <3>1. /\ m + i \in 1..Len(s)
          /\ s[m + i] = Newline
      <4>1. i \in 1..(Len(s) - m) /\ r[i] = s[m + i] BY <2>2, <2>4
      <4>2. m + i \in 1..Len(s) BY <2>2, <4>1
      <4> QED BY <2>4, <4>1, <4>2
    <3>2. m + i \in Newlines(s) BY <3>1 DEF Newlines
    <3> QED BY <2>1, <2>2, <2>4, <3>2
  <2>5. d \in Seq(Bytes) /\ Len(d) \in Nat BY DEF Framed
  <2>6. CASE Overlong(r)
    <3>1. Len(r) >= L BY <2>6 DEF Overlong
    <3>2. /\ Len(d \o s) = Len(d) + Len(s)
          /\ \A i \in 1..Len(s) : (d \o s)[Len(d) + i] = s[i]
      BY <2>5
    <3>3. ASSUME NEW i \in (Len(d \o s) - L + 1)..Len(d \o s), (d \o s)[i] = Newline PROVE FALSE
      <4> DEFINE k == i - Len(d) - m
      <4>1. k \in 1..Len(r) /\ i = Len(d) + (m + k) /\ m + k \in 1..Len(s)
        BY <2>2, <2>5, <3>1, <3>2, FrameIs
      <4>2. s[m + k] = Newline BY <3>2, <3>3, <4>1
      <4>3. r[k] = Newline BY <2>2, <4>1, <4>2
      <4> QED BY <2>4, <4>1, <4>3
    <3>4. Len(d \o s) >= L BY <2>2, <2>5, <3>1, <3>2, FrameIs
    <3>5. ~WellFormed(d \o s) BY <2>2, <2>5, <3>2, <3>3, <3>4, FrameIs DEF WellFormed
    <3> QED BY <2>9, <2>6, <3>5
  <2>7. CASE ~Overlong(r)
    <3>1. Newlines(r) = {} BY <2>2, <2>4 DEF Newlines
    <3>2. Framed(d \o f) BY <2>9, FramesAfterFrames
    <3>3. d \o s = (d \o f) \o r
      <4>1. (d \o f) \o r = d \o (f \o r) BY <2>2, <2>5, ConcatAssociative
      <4> QED BY <2>3, <4>1
    <3> QED BY <1>2, <2>9, <2>2, <2>7, <3>1, <3>2, <3>3
  <2> QED BY <2>6, <2>7
<1> QED BY <1>1, <1>2

\* A read.
LEMMA ReadStreamIInv ==
  ASSUME StreamIInv, ReadsBytes, consumed' = consumed \o stdin PROVE StreamIInv'
<1> DEFINE s == pending \o stdin
           bad == BadLines(s) # {} \/ Overlong(Rest(s))
<1>1. /\ stdin \in Seq(Bytes) /\ stopping \in BOOLEAN
      /\ pc = "select" /\ stdin' = <<>> /\ pending' = Rest(s)
      /\ stopping' = (stopping \/ BadLines(s) # {})
      /\ status' = IF bad THEN 70 ELSE status
      /\ pc' = IF Overlong(Rest(s)) THEN "leave" ELSE "loop"
  BY DEF StreamIInv, ReadsBytes, Goto
<1>2. status # 70 BY <1>1 DEF StreamIInv
<1>3. PICK d : Parsed(d) BY <1>2 DEF StreamIInv
<1>4. Framed(d) /\ d \in Seq(Bytes) /\ pending \in Seq(Bytes) /\ consumed = d \o pending
  BY <1>3 DEF Parsed, Framed
<1>5. s \in Seq(Bytes) BY <1>1, <1>4
<1>6. consumed' = d \o s BY <1>1, <1>4, ConcatAssociative
<1> HIDE DEF s
<1>7. stdin' \in Seq(Bytes) /\ stopping' \in BOOLEAN BY <1>1
<1>9. CASE bad
  <2>1. ~WellFormed(d \o s) BY <1>4, <1>5, <1>9, OneRead
  <2>2. status' = 70 /\ ~WellFormed(consumed)' BY <1>1, <1>6, <1>9, <2>1
  <2>3. pc' \notin {"spawn", "select"} BY <1>1
  <2>4. pc' = "loop" => stopping' BY <1>1, <1>9
  <2> QED BY <1>7, <2>2, <2>3, <2>4 DEF StreamIInv
<1>10. CASE ~bad
  <2>1. PICK f : Framed(f) /\ d \o s = f \o Rest(s) BY <1>4, <1>5, <1>10, OneRead
  <2>2. Rest(s) \in Seq(Bytes) /\ Newlines(Rest(s)) = {} BY <1>4, <1>5, <1>10, OneRead
  <2>3. Parsed(f)' BY <1>1, <1>6, <1>10, <2>1, <2>2 DEF Parsed
  <2>4. f \in Seq(Bytes) /\ pending' \in Seq(Bytes) /\ consumed' = f \o pending'
    BY <1>1, <1>6, <2>1, <2>2 DEF Framed
  <2>5. Len(f) \in 0..Len(consumed') /\ SubSeq(consumed', 1, Len(f)) = f
    BY <2>4, PrefixOfConcat
  <2>6. (\E n \in 0..Len(consumed) : Parsed(SubSeq(consumed, 1, n)))' BY <2>3, <2>5
  <2> QED BY <1>1, <1>2, <1>7, <1>10, <2>6 DEF StreamIInv
<1> QED BY <1>9, <1>10

\* Steps that neither read nor judge a line.
LEMMA OtherStreamIInv ==
  ASSUME StreamIInv, UNCHANGED <<consumed, pending>>, stdin' \in Seq(Bytes), stopping' \in BOOLEAN,
         stopping => stopping',
         status # 70 => status' # 70, status = 70 => status' = 70,
         status = 70 => /\ pc' \notin {"spawn", "select"}
                        /\ pc' = "loop" => pc = "loop"
  PROVE  StreamIInv'
BY DEF StreamIInv, Parsed, WellFormed, OfFrames, Overlong, Newlines

\* Every step keeps the invariant.
LEMMA StreamNextIInv == StreamIInv /\ [StreamNext]_<<vars, consumed>> => StreamIInv'
<1> SUFFICES ASSUME StreamIInv, [StreamNext]_<<vars, consumed>> PROVE StreamIInv'
  OBVIOUS
<1>1. stdin \in Seq(Bytes) /\ stopping \in BOOLEAN
      /\ (status = 70 => pc \notin {"spawn", "select"} /\ (pc = "loop" => stopping))
  BY DEF StreamIInv
<1>2. CASE UNCHANGED <<vars, consumed>>
  BY <1>1, <1>2, OtherStreamIInv DEF vars, program, channel
<1>3. ASSUME StreamNext, ReadsBytes PROVE StreamIInv'
  <2>1. consumed' = consumed \o stdin BY <1>3 DEF StreamNext, ReadsBytes
  <2> QED BY <1>3, <2>1, ReadStreamIInv
<1>4. ASSUME StreamNext, Supervise, ~ReadsBytes PROVE StreamIInv'
  <2>1. UNCHANGED <<stdin, pending, stopping>>
    BY <1>4 DEF Supervise, Spawn, LoopTest, SelectTimesOut, ReadsEof, Leave, Terminate, GracePoll,
                GraceOver, Exit, channel
  <2>2. consumed' = consumed BY <1>4, <2>1 DEF StreamNext
  <2>3. CASE LoopTest
    <3>1. /\ pc = "loop" /\ pc' \in {"leave", "select"} /\ (stopping => pc' = "leave")
          /\ status' \in {status, 71} /\ (stopping => status' = status)
      BY <2>3 DEF LoopTest, Goto
    <3> QED BY <1>1, <2>1, <2>2, <3>1, OtherStreamIInv
  <2>4. CASE ~LoopTest
    <3>1. /\ status' = status
          /\ pc \in {"spawn", "select"} \/ pc' \notin {"spawn", "loop", "select"}
      BY <1>4, <2>4
         DEF Supervise, Spawn, SelectTimesOut, ReadsEof, Leave, Terminate, GracePoll,
             GraceOver, Exit, Goto
    <3> QED BY <1>1, <2>1, <2>2, <3>1, OtherStreamIInv
  <2> QED BY <2>3, <2>4
<1>5. ASSUME StreamNext, NEW b \in Bytes, Arrives(b) PROVE StreamIInv'
  <2>1. /\ stdin' = Append(stdin, b) /\ UNCHANGED <<pc, stopping, status, pending>>
    BY <1>5 DEF Arrives, program
  <2>2. stdin' \in Seq(Bytes) /\ stdin' # <<>> BY <1>1, <2>1
  <2>3. consumed' = consumed BY <1>5, <2>2 DEF StreamNext
  <2> QED BY <1>1, <2>1, <2>2, <2>3, OtherStreamIInv
<1>6. ASSUME StreamNext, Signal \/ Tick \/ GroupMoves \/ Terminated \/ Closes PROVE StreamIInv'
  <2>1. UNCHANGED <<pc, status, pending, stdin>> /\ stopping' \in {stopping, TRUE}
    BY <1>6 DEF Signal, Tick, GroupMoves, Terminated, Closes, vars, program, channel
  <2>2. consumed' = consumed BY <1>6, <2>1 DEF StreamNext
  <2>3. stopping' \in BOOLEAN /\ (stopping => stopping') BY <1>1, <2>1
  <2> QED BY <1>1, <2>1, <2>2, <2>3, OtherStreamIInv
<1> QED BY <1>2, <1>3, <1>4, <1>5, <1>6 DEF StreamNext, Next

\* The verdict on the heartbeats is that of a reader of the whole stream, however the
\* reads cut it.
THEOREM JudgesTheStream == StreamSpec => []VerdictMatchesStream
<1>1. StreamIInv => VerdictMatchesStream
  <2>1. ASSUME StreamIInv, status # 70 PROVE WellFormed(consumed)
    <3>1. PICK d : Parsed(d) BY <2>1 DEF StreamIInv
    <3> QED BY <3>1, ParsedIsWellFormed
  <2> QED BY <2>1 DEF StreamIInv, VerdictMatchesStream
<1> QED BY <1>1, StreamInitIInv, StreamNextIInv, PTL DEF StreamSpec
=============================================================================
