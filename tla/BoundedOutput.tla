---------------------------- MODULE BoundedOutput ----------------------------
(***************************************************************************)
(* What the library keeps of an output that is read in chunks: BoundedTail *)
(* (bounded.py) its end, the head of OwnedRemoteProcess._drain its         *)
(* beginning, and _drain_bounded of the session probes its beginning with  *)
(* the verdict whether that was all.                                       *)
(*                                                                         *)
(* Bytes are numbered by their place in the output, so that what is kept   *)
(* says which bytes it kept.  The limit of a BoundedTail is a public       *)
(* attribute: the owner may assign it between two appends.                 *)
(***************************************************************************)
EXTENDS Integers, Sequences

CONSTANTS Limits,     \* limits the owner may assign, valid or not
          HeadLimit,  \* DEFAULT_HEAD_BYTES
          ProbeLimit, \* PROBE_OUTPUT_LIMIT
          MaxChunk,   \* bytes in one chunk
          MaxTotal    \* bound of the output's length

VARIABLES total,      \* length of the output so far
          since,      \* bytes of it that were cleared
          limit,      \* self.limit
          data,       \* self.data
          narrowest,  \* history: the smallest limit of an append since the last clear()
          head,       \* stdout_head
          captured,   \* _drain_bounded
          truncated

vars == <<total, since, limit, data, narrowest, head, captured, truncated>>

Bytes(from, to) == [i \in 1..(to - from) |-> from + i]

\* Python's s[-n:] and s[:n].
Last(s, n)  == IF n <= 0 \/ n >= Len(s) THEN s ELSE SubSeq(s, Len(s) - n + 1, Len(s))
First(s, n) == SubSeq(s, 1, IF n < Len(s) THEN n ELSE Len(s))

\* Both __post_init__ and append raise for a limit that is not positive.
Valid == limit > 0

Lesser(a, b) == IF a < b THEN a ELSE b

Init ==
  /\ limit \in Limits /\ limit > 0 /\ narrowest = MaxTotal
  /\ total = 0 /\ since = 0 /\ data = <<>> /\ head = <<>> /\ captured = <<>> /\ truncated = FALSE

TailAfter_Unjoined(chunk) == Last(chunk, limit)

\* BoundedTail.append of a valid limit.
TailAfter(chunk) ==
  IF Len(chunk) >= limit THEN Last(chunk, limit) ELSE Last(data \o chunk, limit)

\* What the head can still take.
Room == IF Len(head) < HeadLimit THEN HeadLimit - Len(head) ELSE 0

\* len(chunk) > remaining
Exceeds(chunk) == Len(chunk) > ProbeLimit - Len(captured)

\* A chunk arrives: the head, the tail and the probe's buffer take theirs.
Arrives ==
  /\ Valid
  /\ \E n \in 1..MaxChunk :
       LET chunk == Bytes(total, total + n) IN
         /\ total + n <= MaxTotal /\ total' = total + n
         /\ data' = TailAfter(chunk) /\ narrowest' = Lesser(narrowest, limit)
         /\ head' = head \o First(chunk, Room)
         /\ captured' = captured \o First(chunk, ProbeLimit - Len(captured))
         /\ truncated' = (truncated \/ Exceeds(chunk))
  /\ UNCHANGED <<since, limit>>

\* The owner assigns another limit; nothing is cut until the next append.
Resize ==
  /\ \E n \in Limits : limit' = n
  /\ UNCHANGED <<total, since, data, narrowest, head, captured, truncated>>

Clear ==
  /\ data' = <<>> /\ since' = total
  /\ narrowest' = MaxTotal
  /\ UNCHANGED <<total, limit, head, captured, truncated>>

Next == Arrives \/ Resize \/ Clear

Spec == Init /\ [][Next]_vars

(***************************************************************************)
(* Properties.                                                             *)
(***************************************************************************)
\* The tail is the end of what was appended since the last clear(), without a gap,
\* and at least as much of it as the smallest limit of an append since then.
TailIsEnd ==
  /\ data = Bytes(total - Len(data), total) /\ Len(data) <= total - since
  /\ Len(data) >= Lesser(total - since, narrowest)

\* The head is the beginning of the output, complete up to its bound.
HeadIsBeginning == head = Bytes(0, Lesser(total, HeadLimit))

\* A probe's output counts as truncated exactly if bytes of it were dropped.
TruncationIsExact ==
  captured = Bytes(0, Lesser(total, ProbeLimit)) /\ (truncated <=> total > ProbeLimit)
=============================================================================
