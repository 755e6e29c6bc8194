------------------------------ MODULE Automation ------------------------------
(***************************************************************************)
(* What runs around the library: the release workflow, the inventories it  *)
(* relies on, the pull request's changelog section and the container of    *)
(* the acceptance tests.  They share no state, so each step is a step of   *)
(* one of them.                                                            *)
(***************************************************************************)
EXTENDS ReleasePublication, Sequences

CONSTANTS
  Contents, MaxLines, MaxItems,                   \* ReleaseFiles
  MaxBody, Texts, Changelogs, MaxBodyPushes, MaxEdits,  \* PullRequestBody
  EngineOutlivesCall                              \* ContainerServer

ASSUME InventoryAssumption == Contents \cap {"malformed", "invalid", "gone"} = {}
ASSUME PullRequestAssumption ==
  /\ Texts \subseteq Seq(STRING) /\ Changelogs \subseteq Seq([bullet : BOOLEAN, text : Seq(STRING)])
  /\ MaxBody \in Nat /\ MaxBodyPushes \in Nat /\ MaxEdits \in Nat

VARIABLES
  directory, lines, metadata, verdict,                              \* ReleaseFiles
  body, authored, changelogs, run, waiting, outcome, raced, edits,  \* PullRequestBody
  pc, call, asked, container, listening, loopback, attempted, created,
  overdue, cancelled, failing, unremoved                            \* ContainerServer

Inventories == INSTANCE ReleaseFiles
PullRequest == INSTANCE PullRequestBody WITH MaxPushes <- MaxBodyPushes
Acceptance  == INSTANCE ContainerServer

inventoryVars   == <<directory, lines, metadata, verdict>>
pullRequestVars == <<body, authored, changelogs, run, waiting, outcome, raced, edits>>
acceptanceVars  == <<pc, call, asked, container, listening, loopback, attempted, created,
                     overdue, cancelled, failing, unremoved>>

allVars == <<vars, inventoryVars, pullRequestVars, acceptanceVars>>

AllInit == Init /\ Inventories!Init /\ PullRequest!Init /\ Acceptance!Init

ReleaseStep     == Next /\ UNCHANGED <<inventoryVars, pullRequestVars, acceptanceVars>>
InventoryStep   == Inventories!Next /\ UNCHANGED <<vars, pullRequestVars, acceptanceVars>>
PullRequestStep == PullRequest!Next /\ UNCHANGED <<vars, inventoryVars, acceptanceVars>>
AcceptanceStep  == Acceptance!Next /\ UNCHANGED <<vars, inventoryVars, pullRequestVars>>

AllNext == ReleaseStep \/ InventoryStep \/ PullRequestStep \/ AcceptanceStep

AllSpec == AllInit /\ [][AllNext]_allVars

(***************************************************************************)
(* Properties.                                                             *)
(***************************************************************************)
\* The checksum file and PyPI's list are accepted exactly if they describe the two
\* distributions, and what was written is what will be read.
InventoriesAreExact ==
  Inventories!ChecksumsAreExact /\ Inventories!PyPIIsExact /\ []Inventories!WrittenIsAccepted
=============================================================================
