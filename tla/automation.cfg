CONSTANTS
  MaxPushes = 3
  MaxVersion = 2
  MaxReruns = 1
  Contents = {"built", "changed"}
  MaxLines = 3
  MaxItems = 2
  MaxBody = 5
  Texts <- MCTexts
  Changelogs <- MCChangelogs
  MaxBodyPushes = 2
  MaxEdits = 1
  EngineOutlivesCall = FALSE
SPECIFICATION MCSpec
INVARIANTS
  PublishedIsComplete
  OneBuildPerVersion
  InterruptedRunResumes
PROPERTIES
  InventoriesAreExact
  ServerIsReclaimed
  BodyIsAuthors
