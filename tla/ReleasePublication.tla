-------------------------- MODULE ReleasePublication --------------------------
(***************************************************************************)
(* The release workflow (release.yml) from the push to the published       *)
(* release: pushes and re-runs pass one at a time through the concurrency  *)
(* group, inspect PyPI and GitHub, pass the version check of the CI gate   *)
(* (ci.yml, version.py), upload to PyPI, verify what is there              *)
(* (verify_pypi_release.py), and create, complete and publish the draft.   *)
(* Every step may fail or be cut off, and re-runs use old inspections.     *)
(*                                                                         *)
(* A commit is its number on main.  Bytes are named by the first commit    *)
(* that builds them: builds are reproducible, and a change outside the     *)
(* distributions builds the same.  Titles, notes, sizes and hashes stand   *)
(* and fall with the commit and the bytes.                                 *)
(***************************************************************************)
EXTENDS Integers

CONSTANTS MaxPushes, MaxVersion,
          MaxReruns   \* bound of the re-runs

ASSUME BoundsAssumption == MaxPushes \in Nat \ {0} /\ MaxVersion \in Nat \ {0} /\ MaxReruns \in Nat

Commits  == 1..MaxPushes
Versions == 1..MaxVersion
Files    == {1, 2}        \* wheel and sdist, in the order of their upload
Assets   == {1, 2, 3}     \* and the checksums

VARIABLES version, bytes, \* .version and the build of each commit
          pushed,         \* commits on main
          runs,           \* the workflow run of each commit
          pending,        \* the run that waits in the concurrency group, or 0
          pypi,           \* for each version the bytes of its files, 0 for none
          release, tag,   \* for each version its GitHub release and the tag's commit
          latest,         \* what getLatestRelease returns
          reruns

input  == <<version, bytes>>
github == <<release, tag, latest>>
vars   == <<input, pushed, runs, pending, pypi, github, reruns>>

NoRelease == [state |-> "none", target |-> 0, assets |-> [a \in Assets |-> 0], broken |-> FALSE]
NoRun == [state |-> "none", step |-> "inspect", toPyPI |-> FALSE, toGitHub |-> FALSE]

Init ==
  /\ version \in [Commits -> Versions]
  /\ bytes \in {b \in [Commits -> Commits] :
                  \A c \in Commits : b[c] <= c /\ b[b[c]] = b[c] /\ version[b[c]] = version[c]}
  /\ pushed = 0 /\ runs = [c \in Commits |-> NoRun] /\ pending = 0
  /\ pypi = [v \in Versions |-> [f \in Files |-> 0]]
  /\ release = [v \in Versions |-> NoRelease] /\ tag = [v \in Versions |-> 0]
  /\ latest = 0 /\ reruns = 0

Complete(v)  == \A f \in Files : pypi[v][f] # 0
Partial(v)   == ~Complete(v) /\ \E f \in Files : pypi[v][f] # 0
Published(v) == release[v].state = "published"

(***************************************************************************)
(* The concurrency group: one run at a time and one that waits; a newer    *)
(* one that has to wait replaces it.                                       *)
(***************************************************************************)
Busy == \E c \in Commits : runs[c].state = "running"

Enters(c, run) ==
  IF Busy
  THEN /\ pending' = c
       /\ runs' = [d \in Commits |-> IF d = c THEN [run EXCEPT !.state = "waiting"]
                                     ELSE IF d = pending THEN [runs[d] EXCEPT !.state = "superseded"]
                                     ELSE runs[d]]
  ELSE pending' = pending /\ runs' = [runs EXCEPT ![c] = [run EXCEPT !.state = "running"]]

Push ==
  /\ pushed < MaxPushes /\ pushed' = pushed + 1 /\ Enters(pushed + 1, NoRun)
  /\ UNCHANGED <<input, pypi, github, reruns>>

\* "Re-run all jobs" starts over; "Re-run failed jobs" keeps the outputs of those
\* that succeeded and starts with the first step of the job that failed.
JobOf(step) == IF step \in {"draft", "assets", "publish", "confirm"} THEN "verify" ELSE step

ReRun(c) ==
  /\ runs[c].state \in {"failed", "superseded"} /\ reruns < MaxReruns /\ reruns' = reruns + 1
  /\ \/ Enters(c, NoRun)
     \/ runs[c].state = "failed" /\ Enters(c, [runs[c] EXCEPT !.step = JobOf(@)])
  /\ UNCHANGED <<input, pushed, pypi, github>>

\* The run of c ends, and the one that waits begins.
Ends(c, outcome) ==
  /\ pending' = 0
  /\ runs' = [d \in Commits |-> IF d = c THEN [runs[c] EXCEPT !.state = outcome]
                                ELSE IF d = pending THEN [runs[d] EXCEPT !.state = "running"] ELSE runs[d]]

Continues(c, step) == pending' = pending /\ runs' = [runs EXCEPT ![c].step = step]

At(c, step) == runs[c].state = "running" /\ runs[c].step = step

\* A check refuses, a service is unavailable, a time-out or the end of the runner.
Fails(c) ==
  /\ runs[c].state = "running" /\ Ends(c, "failed")
  /\ UNCHANGED <<input, pushed, pypi, github, reruns>>

(***************************************************************************)
(* The steps of a run, for the version v of its commit c.                  *)
(***************************************************************************)
ReleaseCommit(c, v) == IF Published(v) THEN tag[v] ELSE c

DraftIsOwn_None(c, v) == release[v].state = "none"

\* Name, notes and target of an existing release are those of its source commit.
DraftIsOwn(c, v) == release[v].state # "none" => release[v].target = ReleaseCommit(c, v)

\* What the inspection accepts; everything else throws.
Consistent(c, v) ==
  /\ ~Published(v) => tag[v] \in {0, c} /\ (release[v].state = "none" => tag[v] = 0)
  /\ Published(v) => tag[v] # 0
  /\ version[ReleaseCommit(c, v)] = v /\ DraftIsOwn(c, v) /\ ~release[v].broken /\ ~Partial(v)
  /\ \A f \in Files : release[v].assets[f] # 0 /\ Complete(v) => release[v].assets[f] = pypi[v][f]
  /\ release[v].assets[3] # 0 => \A f \in Files : release[v].assets[f] = release[v].assets[3]
  /\ Published(v) => Complete(v) /\ \A a \in Assets : release[v].assets[a] # 0

Inspect(c) ==
  LET v == version[c] IN
    /\ At(c, "inspect") /\ Consistent(c, v)
    /\ IF Complete(v) /\ Published(v) THEN Ends(c, "done")
       ELSE /\ pending' = pending
            /\ runs' = [runs EXCEPT ![c] = [@ EXCEPT !.step = "gate", !.toPyPI = ~Complete(v),
                                                     !.toGitHub = ~Published(v)]]
    /\ UNCHANGED <<input, pushed, pypi, github, reruns>>

\* version.py check with the arguments of ci.yml: against the version before the
\* push, or, if that is the same and unpublished, against the latest release.
Increments(c) ==
  LET base == IF c = 1 THEN 0 ELSE version[c - 1]
  IN  IF version[c] # base THEN version[c] > base
      ELSE Published(version[c]) \/ version[c] > latest

Gate(c) ==
  /\ At(c, "gate") /\ Increments(c) /\ Continues(c, IF runs[c].toPyPI THEN "upload" ELSE "verify")
  /\ UNCHANGED <<input, pushed, pypi, github, reruns>>

UploadAccepted_Skips(v, f, b) == TRUE

\* PyPI never replaces a file; of the same bytes again it may take notice or not.
UploadAccepted(v, f, b) == pypi[v][f] \in {0, b}

\* The files of the version are uploaded one after the other.
Upload(c) ==
  LET v == version[c]  b == bytes[c] IN
    /\ At(c, "upload")
    /\ \/ \E f \in Files :
            /\ \A g \in Files : g < f => pypi[v][g] # 0 /\ UploadAccepted(v, g, b)
            /\ pypi[v][f] = 0 /\ pypi' = [pypi EXCEPT ![v][f] = b] /\ UNCHANGED <<runs, pending>>
       \/ /\ \A f \in Files : pypi[v][f] # 0 /\ UploadAccepted(v, f, b)
          /\ Continues(c, "verify") /\ UNCHANGED pypi
    /\ UNCHANGED <<input, pushed, github, reruns>>

Matches_Inventory(c, v) == Complete(v)

\* verify_pypi_release.py: the same names, types, sizes and hashes, none missing.
Matches(c, v) == \A f \in Files : pypi[v][f] = bytes[c]

Verify(c) ==
  /\ At(c, "verify") /\ runs[c].toGitHub /\ Matches(c, version[c]) /\ Continues(c, "draft")
  /\ UNCHANGED <<input, pushed, pypi, github, reruns>>

\* An exact draft is taken over, a missing one is created.
Draft(c) ==
  LET v == version[c] IN
    /\ At(c, "draft") /\ tag[v] \in {0, c} /\ Continues(c, "assets")
    /\ \/ release[v].state = "draft" /\ release[v].target = c /\ UNCHANGED release
       \/ /\ release[v].state = "none" /\ tag[v] = 0
          /\ release' = [release EXCEPT ![v].state = "draft", ![v].target = c]
    /\ UNCHANGED <<input, pushed, pypi, tag, latest, reruns>>

\* Every asset that is there must be the one to be uploaded; the missing ones follow
\* in order, and one may be cut off half-way.
UploadAsset(c) ==
  LET v == version[c]  assets == release[version[c]].assets IN
    /\ At(c, "assets") /\ ~release[v].broken /\ \A a \in Assets : assets[a] \in {0, bytes[c]}
    /\ \/ \E a \in Assets :
            /\ assets[a] = 0 /\ \A b \in Assets : b < a => assets[b] # 0
            /\ \/ release' = [release EXCEPT ![v].assets[a] = bytes[c]] /\ UNCHANGED <<runs, pending>>
               \/ release' = [release EXCEPT ![v].broken = TRUE] /\ Ends(c, "failed")
       \/ (\A a \in Assets : assets[a] # 0) /\ Continues(c, "publish") /\ UNCHANGED release
    /\ UNCHANGED <<input, pushed, pypi, tag, latest, reruns>>

\* The draft becomes the release, and GitHub makes the tag.
Publish(c) ==
  LET v == version[c] IN
    /\ At(c, "publish") /\ (\A a \in Assets : release[v].assets[a] = bytes[c])
    /\ release' = [release EXCEPT ![v].state = "published", ![v].target = c]
    /\ tag' = [tag EXCEPT ![v] = IF @ = 0 THEN c ELSE @] /\ latest' = v /\ Continues(c, "confirm")
    /\ UNCHANGED <<input, pushed, pypi, reruns>>

Confirm(c) ==
  /\ At(c, "confirm") /\ tag[version[c]] = c /\ Ends(c, "done")
  /\ UNCHANGED <<input, pushed, pypi, github, reruns>>

Finished == pushed = MaxPushes /\ ~Busy /\ UNCHANGED vars

Next ==
  \/ Push \/ Finished
  \/ \E c \in Commits : \/ ReRun(c) \/ Fails(c) \/ Inspect(c) \/ Gate(c) \/ Upload(c) \/ Verify(c)
                        \/ Draft(c) \/ UploadAsset(c) \/ Publish(c) \/ Confirm(c)

Spec == Init /\ [][Next]_vars

(***************************************************************************)
(* Properties.                                                             *)
(***************************************************************************)
\* A published release is complete: its tag names a commit of that version, and the
\* assets and the files on PyPI are all that commit's build.
PublishedIsComplete ==
  \A v \in Versions : Published(v) =>
    /\ tag[v] \in Commits /\ version[tag[v]] = v /\ release[v].target = tag[v]
    /\ \A f \in Files : pypi[v][f] = bytes[tag[v]]
    /\ \A a \in Assets : release[v].assets[a] = bytes[tag[v]]

\* What PyPI and GitHub show of a version, finished or not, is of one build, however
\* many commits of that version were pushed and run again in whichever order.
OneBuildPerVersion ==
  \A v \in Versions :
    \A x, y \in ({pypi[v][f] : f \in Files} \cup {release[v].assets[a] : a \in Assets}) \ {0} : x = y

\* What an interrupted run leaves does not keep a new run of the same commit from
\* finishing, unless it was cut off in the middle of an upload or another commit
\* has the same version.
InterruptedRunResumes ==
  \A c \in Commits :
    LET v == version[c] IN
      /\ c <= pushed /\ runs[c].state = "failed" /\ ~Partial(v) /\ ~release[v].broken
      /\ \A d \in 1..pushed : version[d] = v => d = c
      => /\ Consistent(c, v)
         /\ Complete(v) /\ ~Published(v) =>
              Matches(c, v) /\ \A a \in Assets : release[v].assets[a] \in {0, bytes[c]}
=============================================================================
