------------------------------ MODULE EventLoop ------------------------------
(***************************************************************************)
(* The asyncio event loop as the library's objects meet it.  A step of a   *)
(* task is the code between two awaits.  A task that can go on is appended *)
(* to the FIFO of ready callbacks and runs when it is the head; the        *)
(* outcome of its await is fixed when it is appended.  A cancellation is a *)
(* flag that the task acts upon when it next runs, as asyncio does for a   *)
(* task whose wake-up is already queued.                                   *)
(***************************************************************************)
EXTENDS Sequences, Naturals

VARIABLES ready,       \* the loop's queue of tasks to resume, with the await's outcome
          interrupted  \* a cancellation not yet acted upon, per task

Resume(t, o) == [task |-> t, outcome |-> o]
Queued(t)    == \E i \in DOMAIN ready : ready[i].task = t
Awaken(t, o) == ~Queued(t) /\ ready' = Append(ready, Resume(t, o))

\* Task t is the next to run and its await came to an outcome of O.
Resumes(t, O) ==
  ready # <<>> /\ Head(ready).task = t /\ Head(ready).outcome \in O

Runs(t, O) == Resumes(t, O) /\ ready' = Tail(ready)

Ack(t) == interrupted' = [interrupted EXCEPT ![t] = FALSE]
=============================================================================
