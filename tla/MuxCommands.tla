----------------------------- MODULE MuxCommands -----------------------------
(***************************************************************************)
(* The ssh command lines of connection.py and what ssh makes of them: the  *)
(* master's, the transport that consumers complete, in a wrapper or as a   *)
(* string, the command of a channel, and the control operations.           *)
(*                                                                         *)
(* ssh takes the first value it sees for an option, from the command line, *)
(* then from the user's configuration; but some of its flags assign, and   *)
(* so undo what stands before them.  A command line is a sequence of       *)
(* options and the words that follow; a consumer appends both kinds to the *)
(* transport, and the configuration is the user's, who relies on it for    *)
(* the master.                                                             *)
(***************************************************************************)
EXTENDS Integers, Sequences, SequencesExt

CONSTANTS Appended,      \* options and flags that a consumer may append
          MaxAppended,   \* how many
          Configured,    \* options that the user's configuration may set
          MaxConfigured, \* how many
          Destinations, Programs

VARIABLES connection, \* [mode, destination] of the ConnectionSpec
          form,       \* which command line is run
          extra,      \* what its caller appends or names
          config,     \* what the configuration sets
          masterUp,   \* does the master answer on its socket?
          otherUp     \* does another master of the user answer on another one?

vars == <<connection, form, extra, config, masterUp, otherUp>>

Forms == {"master", "transport", "command", "control"}

\* One option for each group that is set and looked at together: "Isolation" is
\* SSH_ISOLATION_OPTIONS, "Authentication" the five methods.
\* -l and -p are options: ssh keeps the first.
Set(key, value) == [key |-> key, value |-> value, as |-> "option"]

Flag(key, value) == [key |-> key, value |-> value, as |-> "flag"]

\* What a flag may assign: -S the path; -M; -A, -X, -Y and the like, -W and -f what is
\* isolated; -K a method.  None assigns the other keys; -J is refused after a ProxyCommand.
FlagKeys == {"ControlPath", "ControlMaster", "Isolation", "Authentication"}

SSH_ISOLATION_OPTIONS == <<Set("Isolation", "on")>>

ssh_options == IF connection.mode = "direct" THEN <<Set("User", "spec"), Set("Port", "spec")>> ELSE <<>>

Line(options, words) == [options |-> options, words |-> words]

master_argv ==
  Line(<<Flag("ControlMaster", "yes"), Flag("ControlPath", "own"), Set("ControlMaster", "yes"),
         Set("ControlPersist", "no")>>
         \o SSH_ISOLATION_OPTIONS \o <<Set("ConnectTimeout", "settings"), Set("ServerAlive", "settings")>>
         \o ssh_options,
       <<"--", connection.destination>>)

mux_transport_options_Fallback ==
  <<Flag("ControlPath", "own"), Set("ControlMaster", "no"), Set("ControlPersist", "no"),
    Set("BatchMode", "yes"), Set("Prompts", "none")>>
    \o SSH_ISOLATION_OPTIONS
    \o <<Set("StdinNull", "no"), Set("Authentication", "off")>> \o ssh_options

\* mux_transport_argv: no destination and no command.
mux_transport_options ==
  <<Flag("ControlPath", "own"), Set("ControlMaster", "no"), Set("ControlPersist", "no"),
    Set("BatchMode", "yes"), Set("Prompts", "none")>>
    \o SSH_ISOLATION_OPTIONS
    \o <<Set("ProxyCommand", "false"), Set("StdinNull", "no"), Set("Authentication", "off")>>
    \o ssh_options

command_argv(program) ==
  Line(<<Set("SessionType", "default")>> \o mux_transport_options,
       <<"--", connection.destination, program>>)

\* The wrapper's last line, and the strings for rsync -e: the consumer's options,
\* its destination and its command follow the transport.
wrapper_argv(consumer) ==
  Line(mux_transport_options \o consumer.options, <<consumer.destination, consumer.program>>)

\* _control_operation
control_argv ==
  Line(mux_transport_options \o <<Set("Operation", "check")>>, <<"--", connection.destination>>)

Init ==
  /\ connection \in [mode : {"alias", "direct"}, destination : Destinations]
  /\ form \in Forms /\ config \in SeqOf(Configured, MaxConfigured)
  /\ masterUp \in BOOLEAN /\ otherUp \in BOOLEAN
  /\ extra \in [options : IF form = "transport" THEN SeqOf(Appended, MaxAppended) ELSE {<<>>},
                destination : Destinations, program : Programs]

\* The configuration may be edited and masters may end between two commands.
Next ==
  /\ \/ config' \in SeqOf(Configured, MaxConfigured) /\ UNCHANGED <<masterUp, otherUp>>
     \/ masterUp' = ~masterUp /\ UNCHANGED <<config, otherUp>>
     \/ otherUp' = ~otherUp /\ UNCHANGED <<config, masterUp>>
  /\ UNCHANGED <<connection, form, extra>>

Spec == Init /\ [][Next]_vars

CommandLine ==
  CASE form = "master"    -> master_argv
    [] form = "transport" -> wrapper_argv(extra)
    [] form = "command"   -> command_argv(extra.program)
    [] form = "control"   -> control_argv

(***************************************************************************)
(* What ssh makes of a command line.                                       *)
(***************************************************************************)
\* Without a terminator a word that looks like an option is one.
Terminated == CommandLine.words[1] = "--"
Words == IF Terminated THEN Tail(CommandLine.words)
         ELSE SelectSeq(CommandLine.words, LAMBDA w : w # "-option")

Seen == CommandLine.options \o config

Defaults == [ControlPath |-> "none", ControlMaster |-> "no", ControlPersist |-> "no", Isolation |-> "off",
             ProxyCommand |-> "none", Authentication |-> "on", BatchMode |-> "no", Prompts |-> "three",
             SessionType |-> "default", Operation |-> "none", User |-> "login", Port |-> "default"]

\* A key's last flag, or else its first option.
Effective(key) ==
  LET places == {i \in 1..Len(Seen) : Seen[i].key = key}
      flags  == {i \in places : Seen[i].as = "flag"}
  IN  IF flags # {} THEN Seen[CHOOSE i \in flags : \A j \in flags : j <= i].value
      ELSE IF places # {} THEN Seen[CHOOSE i \in places : \A j \in places : i <= j].value
      ELSE Defaults[key]

\* An ssh that is to be a master itself asks none.
Answered ==
  /\ Effective("ControlMaster") # "yes"
  /\ \/ Effective("ControlPath") = "own" /\ masterUp
     \/ Effective("ControlPath") = "other" /\ otherUp

\* Served by a master if one answers on the control path.  Otherwise ssh connects by
\* itself, over the proxy command if there is one, unless it was to ask the master.
Reaches ==
  IF Answered THEN IF Effective("ControlPath") = "own" THEN "master" ELSE "other"
  ELSE IF Effective("ProxyCommand") = "false"
          \/ (Effective("ControlMaster") # "yes" /\ Effective("Operation") # "none")
  THEN "nobody" ELSE "network"

(***************************************************************************)
(* Properties.  A consumer is trusted with the flags that it appends: each *)
(* undoes what it names.  Nothing else that a consumer appends or the user *)
(* configures undoes anything.                                             *)
(***************************************************************************)
\* The consumer has appended a flag that assigns the key.
Overrides(key) ==
  \E i \in DOMAIN extra.options : extra.options[i].as = "flag" /\ extra.options[i].key = key

\* No consumer, with whatever flags, and no configuration turns a secondary command into
\* a connection of its own, which nothing but the proxy command prevents when the master
\* is gone.  It asks another master, or offers itself as one, only by its flag for that.
NoFallback ==
  form # "master" => /\ Reaches # "network"
                     /\ Reaches = "other" => Overrides("ControlPath")
                     /\ Effective("ControlMaster") = "no" \/ Overrides("ControlMaster")
                     /\ Effective("ControlPersist") = "no"

\* Even if it were to reach a server it would not prompt, nor offer an identity unless
\* a flag enables the method.
NoSecondAuthentication ==
  form # "master" => /\ Effective("BatchMode") = "yes" /\ Effective("Prompts") = "none"
                     /\ Effective("Authentication") = "off" \/ Overrides("Authentication")

\* No configuration and no option of a consumer adds a forwarding, a tunnel, a local
\* command or a remote command to anything that ssh does for the connection; only a
\* consumer's flag for it does.
Isolated == Effective("Isolation") = "on" \/ Overrides("Isolation")

\* The master stays in the foreground as the owner of its socket, so that its exit
\* status is the master's, and goes where the connection says.
MasterIsTheConnection ==
  form = "master" =>
    /\ Effective("ControlPath") = "own" /\ Effective("ControlMaster") = "yes"
    /\ Effective("ControlPersist") = "no" /\ Words = <<connection.destination>>
    /\ connection.mode = "direct" => Effective("User") = "spec" /\ Effective("Port") = "spec"

\* A channel's command is the program it was given, run as a command at the exact
\* destination, whatever the program looks like and the configuration says.
CommandIsExact ==
  form = "command" => Words = <<connection.destination, extra.program>>
                      /\ Effective("SessionType") = "default"
=============================================================================
