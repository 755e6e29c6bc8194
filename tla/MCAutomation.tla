----------------------------- MODULE MCAutomation -----------------------------
(***************************************************************************)
(* Automation with small inputs.  A behaviour concerns one part; the       *)
(* others stay in an initial state.                                        *)
(***************************************************************************)
EXTENDS Automation, SequencesExt

VARIABLE part  \* which one moves

\* All bodies of up to three tokens.
MCTexts == SeqOf({"start", "end", "a"}, 3)

\* No section, one without a bullet, two that differ, and one with a marker in it.
MCChangelogs ==
  SeqOf({[bullet |-> FALSE, text |-> <<"empty">>]}
          \cup {[bullet |-> TRUE, text |-> t] : t \in {<<"one">>, <<"two">>, <<"one", "end">>}}, 1)

MCInit ==
  /\ AllInit /\ part \in {"release", "files", "body", "container"}
  /\ part # "release" => \A c \in Commits : version[c] = 1 /\ bytes[c] = 1
  /\ part # "files" => directory = [n \in Inventories!Expected |-> "built"]
  /\ part # "body" => body = <<>>
  /\ part # "container" => loopback

MCNext ==
  /\ UNCHANGED part
  /\ \/ part = "release" /\ ReleaseStep
     \/ part = "files" /\ InventoryStep
     \/ part = "body" /\ PullRequestStep
     \/ part = "container" /\ AcceptanceStep

\* What the two parts with waiting tasks assume, each for its own behaviours.
Fairness ==
  /\ WF_pullRequestVars(part = "body" /\ PullRequest!Advances)
  /\ WF_acceptanceVars(part = "container" /\ Acceptance!Advances)
  /\ WF_acceptanceVars(part = "container" /\ Acceptance!Deadline)

MCSpec == MCInit /\ [][MCNext]_<<allVars, part>> /\ Fairness

(***************************************************************************)
(* Properties.                                                             *)
(***************************************************************************)
\* However its startup fails and whenever it is cancelled, the server is used only when
\* it is ready, and its block ends, also with an engine that hangs, and leaves no
\* container behind, but for a removal that has failed, and of that it says so if it
\* knew of the container.
ServerIsReclaimed ==
  /\ [](Acceptance!ContainerReclaimed /\ Acceptance!FailedRemovalIsReported /\ Acceptance!UsedWhenReady)
  /\ <>(part = "container" => pc = "over")

\* What the author wrote around the managed block stays, a second run for the same
\* changelog finds nothing to do, no run writes markers that later runs refuse, and
\* the last push is the one that arrives.
BodyIsAuthors ==
  /\ [](PullRequest!ManualTextKept /\ PullRequest!RunsSettle)
  /\ PullRequest!MarkersStayInOrder /\ PullRequest!LastPushArrives
=============================================================================
