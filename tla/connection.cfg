CONSTANTS
  Texts <- MCTexts
  Users <- MCUsers
  Ports <- MCPorts
  Appended <- MCAppended
  MaxAppended = 2
  Configured <- MCConfigured
  MaxConfigured = 1
  Destinations = {"host", "other"}
  Programs = {"program", "-option"}
  Letters <- MCLetters
  Bases <- MCBases
  Temps <- MCTemps
  LongName <- MCLongName
  ShortName <- MCShortName
  MaxLength = 8
  SunPath = 11
  BindSuffix = 3
  Names = {"XDG_RUNTIME_DIR", "DBUS_SESSION_BUS_ADDRESS"}
  Runtime = "XDG_RUNTIME_DIR"
  Bus = "DBUS_SESSION_BUS_ADDRESS"
  Foreign = {"LD_PRELOAD"}
  Limits = {0, 1, 2, 3, 5}
  HeadLimit = 4
  ProbeLimit = 5
  MaxChunk = 4
  MaxTotal = 9
SPECIFICATION MCSpec
INVARIANTS
  NamesAreExact
  CommandsKeepToTheMaster
  DirectoryIsOwned
  EnvironmentIsRecovered
  OutputIsKept
