--------------------------- MODULE PullRequestBody ---------------------------
(***************************************************************************)
(* The changelog section that pr-body.yml and pr_body.py keep in the body  *)
(* of a pull request: a run reads the changelog of its commit and the      *)
(* body, builds the new body, compares the body with the one it has read,  *)
(* and updates it.  Meanwhile the author pushes and edits the body.        *)
(*                                                                         *)
(* A text is a sequence of tokens: the two markers, and pieces of text     *)
(* that are never blank; line ends and blank lines are left out.           *)
(***************************************************************************)
EXTENDS Integers, Sequences, FiniteSets

CONSTANTS MaxBody,             \* MAX_PR_BODY_BYTES, in tokens
          Texts,               \* what the author may write: Seq(STRING)
          Changelogs,          \* and push: the level-two sections [bullet, text] of CHANGELOG.md
          MaxPushes, MaxEdits  \* bounds of the pushes and edits

VARIABLES body,        \* of the pull request
          authored,    \* history: what the author wrote last
          changelogs,  \* the changelog of each pushed commit
          run,         \* the run in progress
          waiting,     \* the commit whose run waits for that one to stop, or 0
          outcome,     \* of the last run that ended
          raced,       \* history: an edit came between the comparison and the update
          edits

vars == <<body, authored, changelogs, run, waiting, outcome, raced, edits>>

NoRun == [commit |-> 0, step |-> "none", cancelled |-> FALSE, previous |-> <<>>, updated |-> <<>>]

RunOf(c) == [NoRun EXCEPT !.commit = c, !.step = "read"]

Init ==
  /\ body \in Texts /\ authored = body /\ changelogs = <<>> /\ run = NoRun
  /\ waiting = 0 /\ outcome = "none" /\ raced = FALSE /\ edits = 0

(***************************************************************************)
(* pr_body.py.                                                             *)
(***************************************************************************)
Refused == <<"refused">>

Places(text, token) == {i \in DOMAIN text : text[i] = token}

Count(text, token) == Cardinality(Places(text, token))

\* The least of some positions, 0 if there is none.
First(places) == IF places = {} THEN 0 ELSE CHOOSE i \in places : \A j \in places : i <= j

Index(text, token) == First(Places(text, token))

\* latest_changelog_section: the first section with a bullet, without a marker in it.
LatestSection(changelog) ==
  LET i == First({j \in DOMAIN changelog : changelog[j].bullet})
  IN  IF i = 0 \/ Count(changelog[i].text, "start") + Count(changelog[i].text, "end") > 0
      THEN Refused ELSE changelog[i].text

WellMarked(text) ==
  /\ Count(text, "start") = Count(text, "end") /\ Count(text, "start") <= 1
  /\ Index(text, "start") <= Index(text, "end")

\* The text before and after the managed block; all of it if there is none.
Before(text) == IF Index(text, "start") = 0 THEN text ELSE SubSeq(text, 1, Index(text, "start") - 1)
After(text)  == IF Index(text, "end") = 0 THEN <<>> ELSE SubSeq(text, Index(text, "end") + 1, Len(text))

Block(section) == <<"start">> \o section \o <<"end">>

\* updated_body: the managed block is replaced, or appended if there is none.
UpdatedBody(existing, section) ==
  LET updated == Before(existing) \o Block(section) \o After(existing)
  IN  IF ~WellMarked(existing) \/ Len(updated) > MaxBody THEN Refused ELSE updated

(***************************************************************************)
(* The author and the concurrency group of the pull request.               *)
(***************************************************************************)
Idle == run.step = "none"

\* A push cancels the run in progress; its own run waits until that has stopped.
Push ==
  /\ Len(changelogs) < MaxPushes
  /\ \E changelog \in Changelogs : changelogs' = Append(changelogs, changelog)
  /\ IF Idle THEN run' = RunOf(Len(changelogs')) /\ UNCHANGED waiting
     ELSE run' = [run EXCEPT !.cancelled = TRUE] /\ waiting' = Len(changelogs')
  /\ UNCHANGED <<body, authored, outcome, raced, edits>>

Edit ==
  /\ edits < MaxEdits /\ edits' = edits + 1 /\ body' \in Texts \ {body} /\ authored' = body'
  /\ raced' = (raced \/ run.step = "update")
  /\ UNCHANGED <<changelogs, run, waiting, outcome>>

\* The run is over, and the one that waits begins.
RunEnds(result) ==
  waiting' = 0 /\ outcome' = result /\ run' = IF waiting = 0 THEN NoRun ELSE RunOf(waiting)

Continues(next) == run' = next /\ UNCHANGED <<waiting, outcome>>

(***************************************************************************)
(* The steps of a run.  A cancelled run stops at any of them, and so does  *)
(* one that finds GitHub unavailable.                                      *)
(***************************************************************************)
Stops ==
  /\ ~Idle /\ RunEnds("stopped")
  /\ UNCHANGED <<body, authored, changelogs, raced, edits>>

Read ==
  /\ run.step = "read" /\ Continues([run EXCEPT !.previous = body, !.step = "build"])
  /\ UNCHANGED <<body, authored, changelogs, raced, edits>>

Build ==
  /\ run.step = "build"
  /\ LET section == LatestSection(changelogs[run.commit])
         updated == IF section = Refused \/ Len(run.previous) > MaxBody THEN Refused
                    ELSE UpdatedBody(run.previous, section)
     IN  IF updated = Refused THEN RunEnds("refused")
         ELSE Continues([run EXCEPT !.updated = updated, !.step = "compare"])
  /\ UNCHANGED <<body, authored, changelogs, raced, edits>>

Unchanged_Skipped(previous) == TRUE

Unchanged(previous) == body = previous

Compare ==
  /\ run.step = "compare"
  /\ IF ~Unchanged(run.previous) THEN RunEnds("refused")
     ELSE IF body = run.updated THEN RunEnds("matches")
     ELSE Continues([run EXCEPT !.step = "update"])
  /\ UNCHANGED <<body, authored, changelogs, raced, edits>>

Update ==
  /\ run.step = "update" /\ body' = run.updated /\ RunEnds("updated")
  /\ UNCHANGED <<authored, changelogs, raced, edits>>

Finished == Idle /\ UNCHANGED vars

Next == Push \/ Edit \/ Stops \/ Read \/ Build \/ Compare \/ Update \/ Finished

\* A run goes on or stops.
Advances == Stops \/ Read \/ Build \/ Compare \/ Update

Spec == Init /\ [][Next]_vars /\ WF_vars(Advances)

(***************************************************************************)
(* Properties.                                                             *)
(***************************************************************************)
ManualTextIsAuthors ==
  body = authored \/ (Before(body) = Before(authored) /\ After(body) = After(authored))

\* The text outside the block is the author's, before and after it, whatever the
\* author writes and whenever; an edit that hits the moment between comparison and
\* update is the exception.
ManualTextKept == raced \/ ManualTextIsAuthors

\* A body whose markers are in order stays so: no changelog makes a run write a body
\* that later runs refuse.
MarkersStayInOrder == [][Update /\ WellMarked(run.previous) => WellMarked(body')]_vars

\* A second run for the same changelog finds nothing to do.
RunsSettle ==
  \A c \in 1..Len(changelogs) :
    LET section == LatestSection(changelogs[c])  once == UpdatedBody(body, section)
    IN  section # Refused /\ once # Refused => UpdatedBody(once, section) = once

\* Every push has its run, although pushes cancel runs: after the last push, and with
\* the author no longer editing, its section is in the body or its run was refused or
\* stopped, and no run of an earlier push writes after that.
LastPushArrives ==
  (Len(changelogs) = MaxPushes /\ edits = MaxEdits /\ ~Idle) ~>
     [](/\ Idle
        /\ \/ outcome \in {"refused", "stopped"}
           \/ Len(changelogs) > 0 /\ UpdatedBody(body, LatestSection(changelogs[Len(changelogs)])) = body)
=============================================================================
