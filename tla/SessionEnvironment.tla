-------------------------- MODULE SessionEnvironment --------------------------
(***************************************************************************)
(* resolve_session_environment (session_environment.py): the routing       *)
(* variables of the user's session that the inherited environment lacks    *)
(* are recovered with up to three probes, loginctl for the runtime         *)
(* directory, then systemctl with JSON output and, only if that exits with *)
(* a status, systemctl with the older line format.                         *)
(*                                                                         *)
(* A value is abstracted to where it comes from.  What a probe prints is   *)
(* abstracted to what the parsers tell apart, one entry per name.  The     *)
(* probes as processes are OwnedHelper.                                    *)
(***************************************************************************)
CONSTANTS Names,    \* SESSION_ENVIRONMENT_VARIABLES
          Runtime,  \* XDG_RUNTIME_DIR
          Bus,      \* DBUS_SESSION_BUS_ADDRESS
          Foreign   \* names that are not allowed

VARIABLES pc,         \* the probe that is awaited
          inherited,  \* base_environment: what each variable was before
          environment,
          probeEnv,   \* the environment of the systemctl probes
          asked,      \* the format that the arguments of systemctl ask for
          format,     \* json_output, as the format the output is parsed in
          printed     \* history: the output of the last probe that was parsed

vars == <<pc, inherited, environment, probeEnv, asked, format, printed>>

\* "text" has one usable value in either format; the others are the values that
\* one or both parsers skip: an empty one, one with NUL, one that is no string
\* in JSON, a $'...' quoted or an unbalanced one, one of several words.
Kinds == {"text", "empty", "nul", "number", "ansi", "unbalanced", "words"}
Unusable == [json |-> {"empty", "nul", "number"}, plain |-> {"empty", "nul", "ansi", "unbalanced", "words"}]

\* What a runtime path turns out to be; the last three need the file system.
Paths == {"owned", "truncated", "undecodable", "lines", "blank", "relative", "missing", "file", "foreign"}

\* _runtime_path: the resolved directory, or None.
RuntimePath(path) == path = "owned"

Nothing == [n \in {} |-> "text"]

\* An output: bounded and decodable or not, in one format, with its entries;
\* where names the directory that the value of Runtime, if it is there, stands for.
Output == [whole : BOOLEAN, format : {"json", "plain"},
           entries : UNION {[S -> Kinds] : S \in SUBSET (Names \cup Foreign)},
           where : Paths \ {"truncated"}]

NoOutput == [whole |-> FALSE, format |-> "json", entries |-> Nothing, where |-> "missing"]

Init ==
  /\ pc = "begin" /\ inherited \in [Names -> {"unset", "empty", "set"}]
  /\ environment = inherited /\ probeEnv = inherited
  /\ asked = "json" /\ format = "json" /\ printed = NoOutput

Present(n) == environment[n] \notin {"unset", "empty"}

\* The environment is complete, this is not Linux, or a program is missing: the
\* environment is returned as it is.
Return == pc' = "done" /\ UNCHANGED <<inherited, environment, probeEnv, asked, format, printed>>

Begin ==
  /\ pc = "begin"
  /\ \/ Return
     \/ /\ \E n \in Names : ~Present(n)
        /\ pc' = "loginctl" /\ UNCHANGED <<inherited, environment, probeEnv, asked, format, printed>>

\* loginctl reports the runtime directory; no result or a failure ends it all.
RuntimeProbed ==
  /\ pc = "loginctl"
  /\ \/ Return
     \/ /\ \E path \in Paths : RuntimePath(path)
        /\ probeEnv' = [environment EXCEPT ![Runtime] = "probe", ![Bus] = "probe"]
        /\ pc' = "systemctl" /\ UNCHANGED <<inherited, environment, asked, format, printed>>

FallBack_StillJson ==
  /\ pc = "systemctl" /\ asked = "json" /\ asked' = "plain"
  /\ UNCHANGED <<pc, inherited, environment, probeEnv, format, printed>>

\* Older versions of systemctl exit with a status; a probe without a result (not
\* started, timed out) does not count as one.
FallBack ==
  /\ pc = "systemctl" /\ asked = "json" /\ asked' = "plain" /\ format' = "plain"
  /\ UNCHANGED <<pc, inherited, environment, probeEnv, printed>>

ProbeFails == pc = "systemctl" /\ Return

\* _parse_systemd_environment: the names with a usable value.
Parsed(output) ==
  IF ~output.whole \/ output.format # format THEN {}
  ELSE {n \in DOMAIN output.entries : n \in Names /\ output.entries[n] \notin Unusable[format]}

\* A recovered runtime directory is validated like the reported one.
Recovered(output) ==
  Parsed(output) \ (IF RuntimePath(output.where) THEN {} ELSE {Runtime})

\* Only what is missing or empty is filled in.
Fill(names) ==
  [n \in Names |-> IF ~Present(n) /\ n \in names THEN "recovered" ELSE environment[n]]

ProbeSucceeds ==
  /\ pc = "systemctl" /\ pc' = "done"
  /\ \E output \in Output :
       /\ output.format = asked /\ printed' = output
       /\ environment' = Fill(Recovered(output))
  /\ UNCHANGED <<inherited, probeEnv, asked, format>>

Finished == pc = "done" /\ UNCHANGED vars

Next == Begin \/ RuntimeProbed \/ FallBack \/ ProbeFails \/ ProbeSucceeds \/ Finished

Spec == Init /\ [][Next]_vars

(***************************************************************************)
(* Properties.                                                             *)
(***************************************************************************)
\* A value the application inherited is never replaced, whichever probe reports
\* another one and although the probes themselves run with another one.
InheritedKept == \A n \in Names : inherited[n] = "set" => environment[n] = "set"

\* A runtime directory is handed to ssh only if it is inherited or is an existing
\* directory of this user.
RuntimeIsOwned == environment[Runtime] = "recovered" => RuntimePath(printed.where)

\* Exactly what a complete output has a usable value for is recovered, in the
\* format it was asked for, also after the fallback; without one nothing changes.
RecoversWhatIsPrinted ==
  LET usable == {n \in DOMAIN printed.entries \cap Names :
                   printed.entries[n] \notin Unusable[printed.format]}
  IN  pc = "done" =>
        {n \in Names : environment[n] = "recovered"} =
          {n \in Names : /\ inherited[n] # "set" /\ printed.whole /\ n \in usable
                         /\ n = Runtime => printed.where = "owned"}
=============================================================================
