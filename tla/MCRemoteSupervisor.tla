-------------------------- MODULE MCRemoteSupervisor --------------------------
(***************************************************************************)
(* RemoteSupervisor with a bounded stream of bytes.                        *)
(***************************************************************************)
EXTENDS HeartbeatStream

CONSTANT MaxBytes  \* length of the stream

MCBytes == {"h", "x", "n"}
MCFrame == <<"h", "h", "n">>

\* The shortest frame, where only the order and the number of frames matters.
ShortBytes == {"x", "n"}
ShortFrame == <<"n">>

MCNext ==
  StreamNext /\ Len(consumed \o stdin) <= MaxBytes /\ Len(stdin') + Len(consumed) <= MaxBytes

MCSpec == StreamInit /\ [][MCNext]_<<vars, consumed>>

MCFairSpec == MCSpec /\ Fairness
=============================================================================
