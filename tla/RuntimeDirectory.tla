--------------------------- MODULE RuntimeDirectory ---------------------------
(***************************************************************************)
(* The private directory of an OpenSSHMaster (connection.py): its base is  *)
(* selected, the directory is made, given up for one with a shorter path   *)
(* if the control path would not do, filled with wrappers and removed by   *)
(* the close.  Each call of the operating system is a step that may fail.  *)
(* OpenSSHMaster has all of this in the outcomes of one step.              *)
(*                                                                         *)
(* Paths are sequences of characters, because ssh expands % and ${} in a   *)
(* control path and the socket's address bounds its length.                *)
(***************************************************************************)
EXTENDS Integers, Sequences

CONSTANTS Letters,    \* the characters of paths, and what ssh may make of them
          Bases,      \* paths a caller or XDG_RUNTIME_DIR may name
          Temps,      \* paths tempfile.gettempdir() may return
          LongName,   \* "/<prefix>-<uid>-<random>/mux.sock"
          ShortName,  \* "/sw-<uid>-<random>/m"
          MaxLength,  \* MAX_CONTROL_PATH_BYTES
          SunPath,    \* what a socket's address can hold
          BindSuffix  \* what ssh appends while it binds

VARIABLES pc,        \* of _create_runtime, then of the owner
          base,      \* the base that was selected
          temp,      \* tempfile.gettempdir()
          existing,  \* private directories in the file system
          recorded,  \* self.runtime_dir
          control,   \* self.control_path
          wrapper,   \* the file of one wrapper name
          handed,    \* create_mux_wrapper has returned the path of that file
          spared     \* history: the close has left the directory

vars == <<pc, base, temp, existing, recorded, control, wrapper, handed, spared>>

Empty == <<>>

Init ==
  /\ pc = "select" /\ base = Empty /\ temp \in Temps /\ existing = {} /\ recorded = "none"
  /\ control = Empty /\ wrapper = "none" /\ handed = FALSE /\ spared = FALSE

Unusable(path) == Len(path) > MaxLength \/ \E i \in 1..(Len(path) - 1) : path[i] = "$" /\ path[i + 1] = "{"

\* The base is the caller's, the configured one if it is an existing directory of
\* this user, or the temporary one; without a writable one nothing is made.
SelectBase ==
  /\ pc = "select"
  /\ \/ base' \in Bases \cup {temp} /\ pc' = "make"
     \/ pc' = "failed" /\ base' = base
  /\ UNCHANGED <<temp, existing, recorded, control, wrapper, handed, spared>>

Make_RecordsAfterChmod(dir) ==
  /\ existing' = existing \cup {dir} /\ control' = Empty
  /\ \/ recorded' = dir /\ pc' = "check"
     \/ pc' = "failed" /\ UNCHANGED recorded

\* mkdtemp() and, once the directory is recorded, chmod().
Make(dir) ==
  /\ existing' = existing \cup {dir} /\ recorded' = dir /\ control' = Empty
  /\ pc' \in {"check", "failed"}

MakeFails == pc' = "failed" /\ UNCHANGED <<existing, recorded, control>>

MakeFirst ==
  /\ pc = "make" /\ (Make("first") \/ MakeFails)
  /\ UNCHANGED <<base, temp, wrapper, handed, spared>>

MakeSecond ==
  /\ pc = "shorten" /\ (Make("second") \/ MakeFails)
  /\ UNCHANGED <<base, temp, wrapper, handed, spared>>

ControlOf(dir) == IF dir = "first" THEN base \o LongName ELSE temp \o ShortName

Accept == pc = "check" /\ ~Unusable(ControlOf(recorded))

Settle ==
  /\ Accept /\ control' = ControlOf(recorded) /\ pc' = "ready"
  /\ UNCHANGED <<base, temp, existing, recorded, wrapper, handed, spared>>

\* The directory is of no use: the first is replaced, the second is the last.
GiveUp ==
  /\ pc = "check" /\ ~Accept
  /\ \/ existing' = existing \ {recorded} /\ pc' = IF recorded = "first" THEN "shorten" ELSE "failed"
     \/ UNCHANGED existing /\ pc' = "failed"
  /\ UNCHANGED <<base, temp, recorded, control, wrapper, handed, spared>>

\* A new file is written and flushed, or an error leaves what was written.
Write ==
  \/ wrapper' = "complete" /\ handed' = TRUE
  \/ wrapper' = "partial" /\ UNCHANGED handed

\* os.open with O_EXCL in a directory that is still there.
Exclusive == existing # {} /\ wrapper = "none"

CreateMuxWrapper ==
  /\ control # Empty /\ Exclusive /\ Write
  /\ UNCHANGED <<pc, base, temp, existing, recorded, control, spared>>

\* The end of _close: a directory of this user is removed; one that is gone or of
\* another owner is left, and an error of the removal is passed on.
Close ==
  /\ pc \in {"ready", "failed"} /\ pc' = "closed"
  /\ \/ existing' = existing \ {recorded} /\ wrapper' = "none" /\ UNCHANGED spared
     \/ /\ recorded \in existing /\ spared' = TRUE /\ UNCHANGED existing
        /\ wrapper' \in {wrapper, "none"}
  /\ handed' = (handed /\ wrapper' # "none") /\ UNCHANGED <<base, temp, recorded, control>>

Finished == pc = "closed" /\ UNCHANGED vars

Next == SelectBase \/ MakeFirst \/ MakeSecond \/ Settle \/ GiveUp \/ CreateMuxWrapper \/ Close \/ Finished

Spec == Init /\ [][Next]_vars

\* .replace("%", "%%")
Escaped[path \in Seq(Letters)] ==
  IF path = <<>> THEN path
  ELSE (IF path[1] = "%" THEN <<"%", "%">> ELSE <<path[1]>>) \o Escaped[Tail(path)]

\* What ssh makes of a -S argument: %% is a percent sign, every other %x and ${x}
\* becomes something else, here "?".
Expanded[text \in Seq(Letters)] ==
  IF Len(text) < 2 THEN text
  ELSE IF text[1] = "%" THEN <<IF text[2] = "%" THEN "%" ELSE "?">> \o Expanded[SubSeq(text, 3, Len(text))]
  ELSE IF text[1] = "$" /\ text[2] = "{" THEN <<"?">>
  ELSE <<text[1]>> \o Expanded[Tail(text)]

(***************************************************************************)
(* Properties.                                                             *)
(***************************************************************************)
\* Whichever call fails, a directory that exists is the one close() will look for:
\* none is left behind by the change to the shorter path, and after the close
\* there is one only if its removal failed or it is not this user's.
NothingForgotten == existing \subseteq {recorded} /\ (pc = "closed" /\ ~spared => existing = {})

\* ssh binds exactly the socket that _socket_exists() looks for: the path fits with
\* the suffix of the binding, and its expansion yields the path itself.
SocketIsWhereExpected ==
  control # Empty => /\ Len(control) + BindSuffix <= SunPath
                     /\ Expanded[Escaped[control]] = control
                     /\ control = ControlOf(recorded)

\* A wrapper that a caller was given stays complete as long as it is there, also
\* when another call asks for the same name and its write fails.
HandedIsComplete == handed => wrapper # "partial"
=============================================================================
