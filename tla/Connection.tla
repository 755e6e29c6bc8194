------------------------------ MODULE Connection ------------------------------
(***************************************************************************)
(* The sequential parts of a connection: what is accepted as a connection  *)
(* and rendered, the ssh command lines, the private directory, the         *)
(* session's environment and the bounded outputs.  They share no state, so *)
(* each step is a step of one of them.                                     *)
(***************************************************************************)
EXTENDS Integers, Sequences

CONSTANTS
  Texts, Users, Ports,                                            \* Authority
  Appended, MaxAppended, Configured, MaxConfigured,               \* MuxCommands
  Destinations, Programs,
  Letters, Bases, Temps, LongName, ShortName,                     \* RuntimeDirectory
  MaxLength, SunPath, BindSuffix,
  Names, Runtime, Bus, Foreign,                                   \* SessionEnvironment
  Limits, HeadLimit, ProbeLimit, MaxChunk, MaxTotal               \* BoundedOutput

\* The characters of an authority: one of each class.
Characters == {"2", "-", "+", ":", "%", "@", " "}

ASSUME AuthorityAssumption == Texts \cup Users \subseteq Seq(Characters)
ASSUME CommandAssumption == MaxAppended \in Nat /\ MaxConfigured \in Nat
ASSUME DirectoryAssumption ==
  /\ {"%", "$", "{", "?"} \subseteq Letters
  /\ Bases \cup Temps \subseteq Seq(Letters) \ {<<>>}
  /\ LongName \in Seq(Letters) /\ ShortName \in Seq(Letters)
  /\ MaxLength \in Nat /\ BindSuffix \in Nat /\ SunPath \in Nat
  /\ MaxLength + BindSuffix <= SunPath
ASSUME SessionAssumption == Runtime \in Names
ASSUME OutputAssumption ==
  /\ Limits \subseteq Int
  /\ HeadLimit \in Nat /\ ProbeLimit \in Nat /\ MaxChunk \in Nat /\ MaxTotal \in Nat

VARIABLES
  spec, outcome,                                             \* Authority
  connection, form, extra, config, masterUp, otherUp,        \* MuxCommands
  dirPc, base, temp, existing, recorded, control, wrapper, handed, spared,  \* RuntimeDirectory
  envPc, inherited, environment, probeEnv, asked, format, printed,          \* SessionEnvironment
  total, since, limit, data, narrowest, head, captured, truncated           \* BoundedOutput

Authorities == INSTANCE Authority
Commands    == INSTANCE MuxCommands
Directory   == INSTANCE RuntimeDirectory WITH pc <- dirPc
Session     == INSTANCE SessionEnvironment WITH pc <- envPc
Output      == INSTANCE BoundedOutput

\* The configuration has no flags, and a flag assigns no other key.
ASSUME FlagAssumption ==
  /\ \A o \in Appended : o.as = "flag" => o.key \in Commands!FlagKeys
  /\ \A o \in Configured : o.as # "flag"

authorityVars == <<spec, outcome>>
commandVars   == <<connection, form, extra, config, masterUp, otherUp>>
directoryVars == <<dirPc, base, temp, existing, recorded, control, wrapper, handed, spared>>
sessionVars   == <<envPc, inherited, environment, probeEnv, asked, format, printed>>
outputVars    == <<total, since, limit, data, narrowest, head, captured, truncated>>

allVars == <<authorityVars, commandVars, directoryVars, sessionVars, outputVars>>

AllInit ==
  Authorities!Init /\ Commands!Init /\ Directory!Init /\ Session!Init /\ Output!Init

ConstructionStep ==
  Authorities!Next /\ UNCHANGED <<commandVars, directoryVars, sessionVars, outputVars>>

CommandStep ==
  Commands!Next /\ UNCHANGED <<authorityVars, directoryVars, sessionVars, outputVars>>

DirectoryStep ==
  Directory!Next /\ UNCHANGED <<authorityVars, commandVars, sessionVars, outputVars>>

SessionStep ==
  Session!Next /\ UNCHANGED <<authorityVars, commandVars, directoryVars, outputVars>>

OutputStep ==
  Output!Next /\ UNCHANGED <<authorityVars, commandVars, directoryVars, sessionVars>>

AllNext == ConstructionStep \/ CommandStep \/ DirectoryStep \/ SessionStep \/ OutputStep

AllSpec == AllInit /\ [][AllNext]_allVars

(***************************************************************************)
(* Properties.                                                             *)
(***************************************************************************)
\* What names an accepted connection cannot be taken for another one or for an
\* option: not its cache key, not its words on a command line, not its rsync target,
\* not its sanitized text.
NamesAreExact ==
  /\ Authorities!CacheKeyIsIdentity /\ Authorities!NoTokenIsAnOption
  /\ Authorities!RsyncFindsDestination /\ Authorities!DisplayIsUnambiguous

\* Whatever a consumer appends and the user has configured, a secondary command never
\* connects by itself; only a consumer's own flags make it ask another master, offer an
\* identity or forward; and master and channels go where the connection says.
CommandsKeepToTheMaster ==
  /\ Commands!NoFallback /\ Commands!NoSecondAuthentication /\ Commands!Isolated
  /\ Commands!MasterIsTheConnection /\ Commands!CommandIsExact

\* Whichever call fails, no directory is forgotten, the socket is where it is looked
\* for, and a wrapper that was handed out is complete.
DirectoryIsOwned ==
  Directory!NothingForgotten /\ Directory!SocketIsWhereExpected /\ Directory!HandedIsComplete

\* The session's environment is recovered exactly as it was printed, and never in
\* place of what is inherited.
EnvironmentIsRecovered ==
  Session!InheritedKept /\ Session!RuntimeIsOwned /\ Session!RecoversWhatIsPrinted

\* What is kept of an output is its very beginning or its very end, and nothing is
\* dropped without being noted.
OutputIsKept == Output!TailIsEnd /\ Output!HeadIsBeginning /\ Output!TruncationIsExact
=============================================================================
