----------------------------- MODULE MCConnection -----------------------------
(***************************************************************************)
(* Connection on small inputs.  A behaviour concerns one of its parts, the *)
(* others stay in an initial state.  Masters and configuration begin in    *)
(* one and change in steps; the words that a consumer adds after the       *)
(* transport are its own and are fixed.                                    *)
(***************************************************************************)
EXTENDS Connection, SequencesExt

VARIABLE part  \* which one moves

\* All texts of up to three characters, and ports that are none.
MCTexts == SeqOf(Characters, 3)
MCUsers == SeqOf(Characters, 1)
MCPorts == {<<"None">>, <<"2">>, <<"2", "2">>, <<"0">>, <<"True">>}

\* Every option and every flag that would undo what the library sets.  Two appended
\* ones and one configured are enough: each key is looked at by itself, of a key's
\* options the first counts and of its flags the last.
Option(key, value) == [key |-> key, value |-> value, as |-> "option"]
Assign(key, value) == [key |-> key, value |-> value, as |-> "flag"]

MCFlags ==
  {Assign("ControlPath", "other"), Assign("ControlPath", "own"), Assign("ControlMaster", "yes"),
   Assign("Isolation", "off"), Assign("Authentication", "on")}

MCOptions ==
  {Option("ControlPath", "other"), Option("ControlMaster", "auto"), Option("ControlPersist", "yes"),
   Option("Isolation", "off"), Option("ProxyCommand", "jump"), Option("Authentication", "on"),
   Option("BatchMode", "no"), Option("User", "other")}
MCAppended == MCOptions \cup MCFlags
MCConfigured == MCOptions \cup {Option("SessionType", "none")}

\* All short paths over the characters that matter.  Lengths are scaled down: a base
\* of two characters fits with the long name, one of four with the short name.
MCLetters == {"d", "%", "$", "{", "?", "/", "m", "u", "w", "h"}
MCBases == SeqOf({"d", "%", "$", "{"}, 3) \ {<<>>}
MCTemps == {<<"d">>, <<"%", "h">>, <<"$", "{", "d">>, <<"d", "%", "d", "d">>, <<"d", "d", "d", "d", "d">>}
MCLongName  == <<"/", "%", "d", "/", "m", "u">>
MCShortName == <<"/", "w", "/", "m">>

MCInit ==
  /\ config = <<>> /\ masterUp = TRUE /\ otherUp = FALSE
  /\ AllInit
  /\ part \in {"authority", "commands", "directory", "session", "output"}
  /\ part # "commands" => /\ connection = [mode |-> "alias", destination |-> "host"] /\ form = "master"
                          /\ extra = [options |-> <<>>, destination |-> "host", program |-> "program"]
  /\ form = "transport" => extra.destination = "other" /\ extra.program = "program"
  /\ part # "directory" => temp = <<"d">>
  /\ part # "session" => \A n \in DOMAIN inherited : inherited[n] = "unset"
  /\ part # "output" => limit = 1

MCNext ==
  /\ UNCHANGED part
  /\ \/ part = "authority" /\ ConstructionStep
     \/ part = "commands" /\ CommandStep
     \/ part = "directory" /\ DirectoryStep
     \/ part = "session" /\ SessionStep
     \/ part = "output" /\ OutputStep

MCSpec == MCInit /\ [][MCNext]_<<allVars, part>>
=============================================================================
