--------------------------- MODULE HeartbeatStream ---------------------------
(***************************************************************************)
(* RemoteSupervisor with the history of what it has read, so that its      *)
(* incremental parser can be compared with a verdict on the whole stream.  *)
(***************************************************************************)
EXTENDS RemoteSupervisor

VARIABLE consumed  \* history: all bytes read so far

StreamInit == Init /\ consumed = <<>>

StreamNext ==
  Next /\ consumed' = IF stdin # <<>> /\ stdin' = <<>> THEN consumed \o stdin ELSE consumed

StreamSpec == StreamInit /\ [][StreamNext]_<<vars, consumed>>

\* Every newline of s ends a frame, which begins s or follows a newline.
OfFrames(s) ==
  \A i \in 1..Len(s) : s[i] = Newline =>
    /\ i >= Len(Frame)
    /\ \A j \in 1..Len(Frame) : s[i - Len(Frame) + j] = Frame[j]
    /\ i = Len(Frame) \/ s[i - Len(Frame)] = Newline

\* What a reader of the whole stream accepts: frames, and at most the part of one
\* line that could still become a frame by its length.
WellFormed(s) ==
  /\ OfFrames(s)
  /\ Len(s) < Len(Frame) \/ \E i \in (Len(s) - Len(Frame) + 1)..Len(s) : s[i] = Newline

\* The supervisor's verdict on its heartbeats is that on the whole stream: it does
\* not depend on how the reads cut it.
VerdictMatchesStream == status = 70 <=> ~WellFormed(consumed)
=============================================================================
