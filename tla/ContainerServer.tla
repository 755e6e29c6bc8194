--------------------------- MODULE ContainerServer ---------------------------
(***************************************************************************)
(* ContainerServer (tests_acceptance/container_server.py): one task enters *)
(* the context, uses the server and leaves.  Whatever it does is a call of *)
(* the container engine's command line, which can fail, time out or be     *)
(* cancelled with its caller; then the process is stopped, which takes a   *)
(* moment in which the engine may still do what it was asked for.          *)
(***************************************************************************)
CONSTANT EngineOutlivesCall  \* does the engine go on with a call whose process is gone?

VARIABLES pc,         \* the engine command that is awaited, or where else the task is
          call,       \* the process of that command
          asked,      \* a container was asked for, and its creation may still happen
          container,  \* the container of this server's name
          listening,  \* its log shows the host key and the listening server
          loopback,   \* its port is published on the loopback interface only
          attempted, created, \* self._attempted, self._created
          overdue,    \* the 15 seconds for the readiness are over
          cancelled, failing, \* the task was cancelled; an exception is on its way
          unremoved   \* history: the removal has failed or timed out

task   == <<pc, attempted, created, cancelled, failing, unremoved>>
engine == <<asked, container, listening, loopback>>
vars   == <<task, engine, call, overdue>>

Setup == {"info", "run", "port", "port log", "logs", "inspect"}

Init ==
  /\ pc = "info" /\ call = "running" /\ overdue = FALSE
  /\ asked = FALSE /\ container = "none" /\ listening = FALSE /\ loopback \in BOOLEAN
  /\ attempted = FALSE /\ created = FALSE /\ cancelled = FALSE /\ failing = FALSE /\ unremoved = FALSE

\* The next engine command.
Goes(command) == pc' = command /\ call' = "running"

Leave == pc' = "over" /\ call' = "none"

CloseRemoves_OnlyCreated == created

\* close(): removes by name, also if the creation was never confirmed.
CloseRemoves == attempted

Close == IF CloseRemoves THEN Goes("rm") ELSE Leave

\* The attempt is remembered before the first await of the creation.
InfoReturns ==
  /\ pc = "info" /\ Goes("run") /\ attempted' = TRUE /\ asked' = TRUE
  /\ UNCHANGED <<container, listening, loopback, created, overdue, cancelled, failing, unremoved>>

RunReturns ==
  /\ pc = "run" /\ container # "none" /\ Goes("port") /\ created' = TRUE
  /\ UNCHANGED <<engine, attempted, overdue, cancelled, failing, unremoved>>

\* Then the deadline is set.
PortReturns ==
  /\ pc = "port" /\ Goes(IF loopback THEN "logs" ELSE "port log") /\ overdue' = FALSE
  /\ UNCHANGED <<engine, attempted, created, cancelled, failing, unremoved>>

LogsReturn ==
  /\ pc = "logs"
  /\ IF listening THEN pc' = "body" /\ call' = "none" ELSE Goes("inspect")
  /\ UNCHANGED <<engine, attempted, created, overdue, cancelled, failing, unremoved>>

Waits == container = "running" /\ ~overdue

InspectReturns ==
  /\ pc = "inspect" /\ Waits /\ pc' = "sleep" /\ call' = "none"
  /\ UNCHANGED <<engine, attempted, created, overdue, cancelled, failing, unremoved>>

\* What a setup command reports is no reason to go on: the log is only fetched for
\* the error, the server is not ready in time, its key is refused.
SetupRefuses ==
  /\ \/ pc \in {"info", "port log"}
     \/ pc = "logs" /\ listening
     \/ pc = "inspect" /\ ~Waits
  /\ Close /\ failing' = TRUE
  /\ UNCHANGED <<engine, attempted, created, overdue, cancelled, unremoved>>

\* A command returns; a setup command may also exit with a status, which raises.
CallReturns ==
  /\ call = "running"
  /\ \/ InfoReturns \/ RunReturns \/ PortReturns \/ LogsReturn \/ InspectReturns \/ SetupRefuses
     \/ /\ pc \in Setup /\ Close /\ failing' = TRUE /\ asked' = FALSE
        /\ UNCHANGED <<container, listening, loopback, attempted, created, overdue, cancelled, unremoved>>

\* check=self._created: a failed removal counts if the creation was confirmed.
Checked == created

\* rm --force returns; what does not raise clears the attempt.
Removed ==
  /\ call = "running" /\ pc = "rm" /\ Leave
  /\ \/ container' = "none" /\ attempted' = FALSE /\ UNCHANGED <<failing, unremoved>>
     \/ /\ unremoved' = TRUE /\ attempted' = Checked /\ failing' = (failing \/ Checked)
        /\ UNCHANGED container
  /\ UNCHANGED <<asked, listening, loopback, created, overdue, cancelled>>

\* wait_for() after 30 seconds.
CallTimesOut ==
  /\ call = "running" /\ call' = "stopping" /\ failing' = TRUE
  /\ unremoved' = (unremoved \/ pc = "rm")
  /\ UNCHANGED <<engine, pc, attempted, created, overdue, cancelled>>

\* complete_task: the cleanup is not cancelled with its caller.
Interrupts == call = "running" /\ pc \in Setup

Cancel ==
  /\ pc # "over" /\ ~cancelled /\ cancelled' = TRUE
  /\ CASE Interrupts -> call' = "stopping" /\ failing' = TRUE /\ UNCHANGED pc
       [] pc \in {"sleep", "body"} -> Close /\ failing' = TRUE
       [] OTHER -> UNCHANGED <<pc, call, failing>>
  /\ UNCHANGED <<engine, attempted, created, overdue, unremoved>>

\* stop_group has ended the process.
CallStopped ==
  /\ call = "stopping"
  /\ IF pc = "rm" THEN Leave ELSE Close
  /\ asked' = (asked /\ EngineOutlivesCall)
  /\ UNCHANGED <<container, listening, loopback, attempted, created, overdue, cancelled, failing, unremoved>>

SleepEnds == pc = "sleep" /\ Goes("logs") /\ UNCHANGED <<engine, attempted, created, overdue, cancelled, failing, unremoved>>

\* The block of the async with ends, with or without an exception.
BodyEnds ==
  /\ pc = "body" /\ Close /\ failing' \in BOOLEAN
  /\ UNCHANGED <<engine, attempted, created, overdue, cancelled, unremoved>>

Deadline == ~overdue /\ pc \in {"logs", "inspect", "sleep"} /\ overdue' = TRUE /\ UNCHANGED <<task, engine, call>>

\* The engine creates what it was asked for, while somebody waits for it or not.
EngineCreates ==
  /\ asked /\ container = "none" /\ ((pc = "run" /\ call # "none") \/ EngineOutlivesCall)
  /\ container' = "running" /\ asked' = FALSE
  /\ UNCHANGED <<task, call, overdue, listening, loopback>>

ServerListens ==
  /\ container = "running" /\ ~listening /\ listening' = TRUE
  /\ UNCHANGED <<task, call, overdue, asked, container, loopback>>

ServerExits ==
  /\ container = "running" /\ container' = "exited"
  /\ UNCHANGED <<task, call, overdue, asked, listening, loopback>>

Finished == pc = "over" /\ UNCHANGED vars

Next ==
  \/ CallReturns \/ Removed \/ CallTimesOut \/ Cancel \/ CallStopped \/ SleepEnds \/ BodyEnds
  \/ Deadline \/ EngineCreates \/ ServerListens \/ ServerExits \/ Finished

\* A call that does not return times out, a process that is signalled ends, and the
\* block comes to its end.
Advances == CallTimesOut \/ CallStopped \/ SleepEnds \/ BodyEnds

Spec == Init /\ [][Next]_vars /\ WF_vars(Advances) /\ WF_vars(Deadline)

(***************************************************************************)
(* Properties.                                                             *)
(***************************************************************************)
\* However its startup fails and whenever it is cancelled, the task leaves a container
\* behind only if the engine has failed to remove it.
ContainerReclaimed == pc = "over" /\ container # "none" => unremoved

\* A container that its owner knows to exist is not left behind in silence.
FailedRemovalIsReported == pc = "over" /\ created /\ unremoved => failing

\* The server is used only once it was created, seen listening and reachable from
\* this host alone.
UsedWhenReady == pc = "body" => created /\ attempted /\ listening /\ loopback
=============================================================================
