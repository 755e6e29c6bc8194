--------------------------- MODULE Automation_proofs ---------------------------
(***************************************************************************)
(* What runs around the library, for any number of pushes, versions,       *)
(* re-runs, files, entries and edits, and wherever runs are cut off.       *)
(*                                                                         *)
(* The release workflow.  That a release is complete is not inductive:     *)
(* Publish looks at the assets only.  Group says that runs exclude each    *)
(* other and that the one that waits will start in front of "draft"; so    *)
(* what Verify has seen on PyPI and Draft of the tag still holds when      *)
(* Publish acts (Late).  Exact says that bytes on GitHub are those that    *)
(* PyPI has, Origin that what a commit left anywhere is of its version.    *)
(*                                                                         *)
(* The inventories.  A dictionary that is read entry by entry holds, after *)
(* each, exactly the good ones (DictionaryIs), so the two that are read    *)
(* are right if the files and the lines are what Filed says.               *)
(*                                                                         *)
(* The managed section.  A block put between texts without markers is      *)
(* found again where it was put (BlockIsFound), so the body a run builds   *)
(* keeps what it has read around the block, and Managed says that this is  *)
(* the author's text until an edit comes in between.                       *)
(*                                                                         *)
(* The acceptance container.  Known says what the task knows at each       *)
(* place, Claimed that whatever exists has somebody who will remove it.    *)
(***************************************************************************)
EXTENDS Automation, FiniteSetTheorems, SequenceTheorems, WellFoundedInduction, TLAPS

(***************************************************************************)
(* The parts.                                                              *)
(***************************************************************************)
\* A step of the composition is, for each part, a step of it or none.
LEMMA StepOfEach ==
  ASSUME [AllNext]_allVars
  PROVE  /\ Inventories!Next \/ UNCHANGED inventoryVars
         /\ PullRequest!Next \/ UNCHANGED pullRequestVars
         /\ Acceptance!Next \/ UNCHANGED acceptanceVars
BY DEF AllNext, ReleaseStep, InventoryStep, PullRequestStep, AcceptanceStep, allVars

\* A set of naturals has a least one.
LEMMA Least == ASSUME NEW T \in SUBSET Nat, T # {} PROVE \E m \in T : \A k \in T : m <= k
<1>1. IsWellFoundedOn(OpToRel(<, Nat), Nat) BY NatLessThanWellFounded
<1>2. \E x \in T : \A y \in T : ~(<<y, x>> \in OpToRel(<, Nat)) BY <1>1, WFMin
<1>3. \A x, y \in Nat : <<x, y>> \in OpToRel(<, Nat) <=> x < y BY DEF OpToRel
<1>4. PICK m \in T : \A y \in T : ~(<<y, m>> \in OpToRel(<, Nat)) BY <1>2
<1>5. ASSUME NEW k \in T PROVE m <= k
  <2>1. ~(k < m) BY <1>3, <1>4, <1>5
  <2> QED BY <2>1
<1> QED BY <1>5

\* Induction over a set of naturals.
LEMMA Induct == ASSUME NEW T \in SUBSET Nat, 0 \in T, \A n \in T : n + 1 \in T PROVE T = Nat
<1>1. SUFFICES ASSUME Nat \ T # {} PROVE FALSE OBVIOUS
<1>2. PICK m \in Nat \ T : \A k \in Nat \ T : m <= k BY <1>1, Least
<1>3. m # 0 /\ m - 1 \in Nat BY <1>2
<1>4. m - 1 \in T BY <1>2, <1>3
<1> QED BY <1>2, <1>3, <1>4

(***************************************************************************)
(* The release workflow.                                                   *)
(***************************************************************************)
States == {"none", "waiting", "running", "failed", "superseded", "done"}
Early  == {"inspect", "gate", "upload", "verify"}
Steps  == Early \cup {"draft", "assets", "publish", "confirm"}
Run    == [state : States, step : Steps, toPyPI : BOOLEAN, toGitHub : BOOLEAN]
Bytes  == 0..MaxPushes
Release == [state : {"none", "draft", "published"}, target : Bytes,
            assets : [Assets -> Bytes], broken : BOOLEAN]

TypeOK ==
  /\ version \in [Commits -> Versions] /\ bytes \in [Commits -> Commits] /\ pushed \in 0..MaxPushes
  /\ runs \in [Commits -> Run] /\ pypi \in [Versions -> [Files -> Bytes]]
  /\ release \in [Versions -> Release] /\ tag \in [Versions -> Bytes]

Running(c) == runs[c].state = "running"

Group ==
  /\ \A c, d \in Commits : Running(c) /\ Running(d) => c = d
  /\ \A c \in Commits : c = pending /\ ~Running(c) => runs[c].step \in Early

Late ==
  \A c \in Commits : Running(c) =>
    /\ runs[c].step \in {"draft", "assets", "publish"} => Matches(c, version[c])
    /\ runs[c].step \in {"assets", "publish"} => tag[version[c]] \in {0, c}

Exact ==
  \A v \in Versions :
    /\ pypi[v][2] # 0 => pypi[v][1] # 0
    /\ pypi[v][1] # 0 /\ pypi[v][2] # 0 => pypi[v][1] = pypi[v][2]
    /\ \A a \in Assets, f \in Files : release[v].assets[a] # 0 => pypi[v][f] = release[v].assets[a]

Unpushed == \A c \in Commits : c > pushed => runs[c].state = "none" /\ pending # c

IInv == TypeOK /\ Group /\ Unpushed /\ Late /\ Exact /\ PublishedIsComplete

\* Numbers of commits and of bytes.
LEMMA Numbers ==
  /\ MaxPushes \in Nat \ {0} /\ Commits \subseteq Bytes /\ 0 \notin Commits /\ 0 \in Bytes
  /\ \A n \in Bytes : n # 0 => n \in Commits
BY BoundsAssumption DEF Commits, Bytes

(***************************************************************************)
(* The concurrency group.                                                  *)
(***************************************************************************)
\* A run in another state.
LEMMA RunIn ==
  ASSUME NEW job \in Run, NEW s \in States
  PROVE  /\ [job EXCEPT !.state = s] \in Run
         /\ [job EXCEPT !.state = s].state = s /\ [job EXCEPT !.state = s].step = job.step
BY DEF Run

\* A run that enters the group, and one that ends, keep Group, and no run that goes on
\* is past "verify" unless it was.
LEMMA GroupKept ==
  ASSUME TypeOK, Group, NEW c \in Commits,
         \/ ~Running(c) /\ \E job \in Run : job.step \in Early /\ Enters(c, job)
         \/ Running(c) /\ \E result \in {"failed", "done"} : Ends(c, result)
  PROVE  /\ runs' \in [Commits -> Run] /\ Group'
         /\ \A d \in Commits : runs'[d].state = "running" /\ runs'[d].step \notin Early
              => Running(d) /\ runs'[d].step = runs[d].step
         /\ \A d \in Commits : d # c /\ d # pending => runs'[d] = runs[d]
         /\ pending' \in {pending, c, 0}
<1>1. ASSUME NEW job \in Run, job.step \in Early, Enters(c, job), ~Running(c), Busy
      PROVE  /\ pending' = c /\ runs'[c] = [job EXCEPT !.state = "waiting"]
             /\ \A d \in Commits : d # c => runs'[d] \in {runs[d], [runs[d] EXCEPT !.state = "superseded"]}
                                              /\ (d # pending => runs'[d] = runs[d])
             /\ runs' \in [Commits -> Run]
  <2>1. pending' = c /\ runs' = [d \in Commits |-> IF d = c THEN [job EXCEPT !.state = "waiting"]
                           ELSE IF d = pending THEN [runs[d] EXCEPT !.state = "superseded"] ELSE runs[d]]
    BY <1>1 DEF Enters
  <2>2. {"waiting", "superseded"} \subseteq States /\ \A d \in Commits : runs[d] \in Run
    BY DEF States, TypeOK
  <2>3. \A d \in Commits : runs'[d] \in Run
    BY <1>1, <2>1, <2>2, RunIn
  <2>4. QED  BY <2>1, <2>3
<1>2. ASSUME NEW job \in Run, job.step \in Early, Enters(c, job), ~Running(c), ~Busy
      PROVE  /\ pending' = pending /\ runs'[c] = [job EXCEPT !.state = "running"]
             /\ \A d \in Commits : d # c => runs'[d] = runs[d]
             /\ runs' \in [Commits -> Run]
  <2>1. pending' = pending /\ runs' = [runs EXCEPT ![c] = [job EXCEPT !.state = "running"]]
    BY <1>2 DEF Enters
  <2>2. [job EXCEPT !.state = "running"] \in Run
    BY RunIn DEF States
  <2>3. QED  BY <2>1, <2>2 DEF TypeOK
<1>3. ASSUME NEW result \in {"failed", "done"}, Ends(c, result), Running(c)
      PROVE  /\ pending' = 0 /\ runs'[c] = [runs[c] EXCEPT !.state = result]
             /\ \A d \in Commits : d # c =>
                  \/ runs'[d] = runs[d]
                  \/ d = pending /\ runs'[d] = [runs[d] EXCEPT !.state = "running"]
             /\ runs' \in [Commits -> Run]
  <2>1. pending' = 0 /\ runs' = [d \in Commits |-> IF d = c THEN [runs[c] EXCEPT !.state = result]
                           ELSE IF d = pending THEN [runs[d] EXCEPT !.state = "running"] ELSE runs[d]]
    BY <1>3 DEF Ends
  <2>2. {"failed", "done", "running"} \subseteq States /\ \A d \in Commits : runs[d] \in Run
    BY DEF States, TypeOK
  <2>3. \A d \in Commits : runs'[d] \in Run
    BY <1>3, <2>1, <2>2, RunIn
  <2>4. QED  BY <2>1, <2>3
<1>4. CASE ~Running(c) /\ Busy
  <2>1. PICK job \in Run : job.step \in Early /\ Enters(c, job)
    BY <1>4
  <2>2. \A d \in Commits : d # c => runs[d] \in Run
    BY DEF TypeOK
  <2>3. /\ runs'[c].state = "waiting" /\ runs'[c].step \in Early
        /\ \A d \in Commits : d # c => runs'[d].state \in {runs[d].state, "superseded"}
                                       /\ runs'[d].step = runs[d].step
    BY <1>1, <1>4, <2>1, <2>2 DEF Run
  <2>4. /\ runs' \in [Commits -> Run] /\ pending' = c
        /\ \A d \in Commits : d # c /\ d # pending => runs'[d] = runs[d]
    BY <1>1, <1>4, <2>1
  <2>5. QED  BY <2>3, <2>4 DEF Group, Running
<1>5. CASE ~Running(c) /\ ~Busy
  <2>1. PICK job \in Run : job.step \in Early /\ Enters(c, job)
    BY <1>5
  <2>2. /\ runs'[c].state = "running" /\ runs'[c].step \in Early
        /\ \A d \in Commits : d # c => runs'[d] = runs[d] /\ ~Running(d)
    BY <1>2, <1>5, <2>1 DEF Run, Busy, Running
  <2>3. runs' \in [Commits -> Run] /\ pending' = pending
    BY <1>2, <1>5, <2>1
  <2>4. QED  BY <2>2, <2>3 DEF Group, Running
<1>6. CASE Running(c)
  <2>1. PICK result \in {"failed", "done"} : Ends(c, result)
    BY <1>6
  <2>2. pending' = 0 /\ runs' \in [Commits -> Run] /\ runs'[c].state \in {"failed", "done"}
    BY <1>3, <1>6, <2>1 DEF TypeOK, Run
  <2>3. ASSUME NEW d \in Commits, runs'[d].state = "running"
        PROVE  d = pending /\ runs'[d].step \in Early
    <3>1. d # c /\ ~Running(d)
      BY <1>6, <2>2, <2>3 DEF Group
    <3>2. d = pending /\ runs'[d] = [runs[d] EXCEPT !.state = "running"]
      BY <1>3, <1>6, <2>1, <2>3, <3>1 DEF Running
    <3>3. QED  BY <3>1, <3>2 DEF Group, TypeOK, Run
  <2>4. \A d \in Commits : d # c /\ d # pending => runs'[d] = runs[d]
    BY <1>3, <1>6, <2>1
  <2>5. QED  BY <2>2, <2>3, <2>4, Numbers DEF Group, Running
<1>7. QED  BY <1>4, <1>5, <1>6

\* A step that only moves runs that way keeps the invariant.
LEMMA GroupMoves ==
  ASSUME IInv, NEW c \in Commits, UNCHANGED <<input, pypi, github>>,
         pushed' \in 0..MaxPushes, pushed <= pushed', c <= pushed',
         \/ ~Running(c) /\ \E job \in Run : job.step \in Early /\ Enters(c, job)
         \/ Running(c) /\ \E result \in {"failed", "done"} : Ends(c, result)
  PROVE  IInv'
<1> USE DEF input, github
<1>1. /\ runs' \in [Commits -> Run] /\ Group'
      /\ \A d \in Commits : runs'[d].state = "running" /\ runs'[d].step \notin Early
           => Running(d) /\ runs'[d].step = runs[d].step
      /\ \A d \in Commits : d # c /\ d # pending => runs'[d] = runs[d]
      /\ pending' \in {pending, c, 0}
  BY GroupKept DEF IInv
<1>2. TypeOK'
  BY <1>1 DEF IInv, TypeOK
<1>3. Late'
  BY <1>1 DEF IInv, Late, Running, Matches, Early
<1>4. Exact' /\ PublishedIsComplete'
  BY DEF IInv, Exact, PublishedIsComplete, Published
<1>5. ASSUME NEW d \in Commits, d > pushed'
      PROVE  runs'[d].state = "none" /\ pending' # d
  <2>0. pushed \in Int /\ pushed' \in Int /\ c \in Int /\ d \in Int
    BY Numbers DEF IInv, TypeOK, Commits
  <2>1. d > pushed /\ d # c /\ d # 0
    <3>1. d > pushed'
      BY <1>5
    <3>2. d > pushed /\ d # c
      BY <2>0, <3>1
    <3>3. QED  BY <3>2, Numbers
  <2>2. runs[d].state = "none" /\ pending # d
    BY <2>1 DEF IInv, Unpushed
  <2>3. QED  BY <1>1, <2>1, <2>2
<1>6. QED  BY <1>1, <1>2, <1>3, <1>4, <1>5 DEF IInv, Unpushed

\* A run that goes on: the group, and what its next step relies on.
LEMMA RunKept ==
  ASSUME TypeOK, Group, Unpushed, NEW c \in Commits, Running(c), UNCHANGED <<input, pushed>>,
         pending' = pending, NEW job \in Run, job.state = "running", runs' = [runs EXCEPT ![c] = job],
         job.step \in {"draft", "assets", "publish"} => \A f \in Files : pypi'[version[c]][f] = bytes[c],
         job.step \in {"assets", "publish"} => tag'[version[c]] \in {0, c}
  PROVE  runs' \in [Commits -> Run] /\ Group' /\ Unpushed' /\ Late'
<1>1. runs' \in [Commits -> Run] /\ runs'[c] = job /\ \A d \in Commits : d # c => runs'[d] = runs[d]
  BY DEF TypeOK
<1>2. Group' /\ \A d \in Commits : runs'[d].state = "running" => d = c
  BY <1>1 DEF Group, Running
<1>3. Unpushed'
  BY <1>1 DEF Unpushed, Running
<1>4. Late'
  BY <1>1, <1>2 DEF Late, Running, Matches, input
<1>5. QED  BY <1>1, <1>2, <1>3, <1>4

\* In particular one that goes on to its next step.
LEMMA NextStep ==
  ASSUME TypeOK, Group, Unpushed, NEW c \in Commits, Running(c), UNCHANGED <<input, pushed>>,
         NEW step \in Steps, Continues(c, step),
         step \in {"draft", "assets", "publish"} => \A f \in Files : pypi'[version[c]][f] = bytes[c],
         step \in {"assets", "publish"} => tag'[version[c]] \in {0, c}
  PROVE  runs' \in [Commits -> Run] /\ Group' /\ Unpushed' /\ Late'
<1> DEFINE job == [runs[c] EXCEPT !.step = step]
<1>1. runs[c] \in Run /\ runs[c].state = "running"
  BY DEF TypeOK, Running
<1>2. job \in Run /\ job.state = "running" /\ job.step = step
  BY <1>1 DEF Run
<1>3. runs' = [runs EXCEPT ![c] = job] /\ pending' = pending
  BY DEF Continues
<1> HIDE DEF job
<1>4. QED  BY <1>2, <1>3, RunKept

\* What is published is not touched where PyPI, the releases and the tags are not.
LEMMA DataKept ==
  ASSUME IInv, UNCHANGED <<input, pushed, pypi, github>>,
         runs' \in [Commits -> Run] /\ Group' /\ Unpushed' /\ Late'
  PROVE  IInv'
BY DEF IInv, TypeOK, Exact, PublishedIsComplete, Published, input, github

\* A file arrives on PyPI: its version had no release and nothing of another build.
LEMMA UploadStep ==
  ASSUME IInv, NEW c \in Commits, Upload(c)
  PROVE  IInv'
<1> USE DEF IInv, input, github
<1> DEFINE v == version[c]
           b == bytes[c]
<1>1. Running(c) /\ runs[c].step = "upload" /\ v \in Versions /\ b \in Bytes /\ b # 0
  BY Numbers DEF Upload, At, Running, TypeOK
<1>2. CASE Continues(c, "verify") /\ UNCHANGED pypi
  <2>1. runs' \in [Commits -> Run] /\ Group' /\ Unpushed' /\ Late'
    BY <1>1, <1>2, NextStep DEF Upload, Steps, Early
  <2>2. QED  BY <1>2, <2>1, DataKept DEF Upload
<1>3. ASSUME NEW f \in Files, \A g \in Files : g < f => pypi[v][g] # 0 /\ UploadAccepted(v, g, b),
             pypi[v][f] = 0, pypi' = [pypi EXCEPT ![v][f] = b], UNCHANGED <<runs, pending>>
      PROVE  IInv'
  <2>1. /\ pypi' \in [Versions -> [Files -> Bytes]] /\ pypi'[v][f] = b
        /\ \A g \in Files : g # f => pypi'[v][g] = pypi[v][g]
        /\ \A w \in Versions : w # v => pypi'[w] = pypi[w]
    BY <1>1, <1>3 DEF TypeOK
  <2>2. TypeOK' /\ Group' /\ Unpushed'
    BY <1>3, <2>1 DEF Upload, TypeOK, Group, Unpushed, Running
  <2>3. Late'
    BY <1>1, <1>3 DEF Upload, Late, Group, Running
  <2>4. f = 2 => pypi[v][1] = b
    BY <1>3 DEF UploadAccepted, Files
  <2>5. f = 1 => pypi[v][2] = 0
    BY <1>1, <1>3 DEF Exact
  <2>6. \A a \in Assets : release[v].assets[a] = 0
    BY <1>1, <1>3 DEF Exact
  <2>7. Exact'
    <3> SUFFICES ASSUME NEW w \in Versions
                 PROVE  /\ pypi'[w][2] # 0 => pypi'[w][1] # 0
                        /\ pypi'[w][1] # 0 /\ pypi'[w][2] # 0 => pypi'[w][1] = pypi'[w][2]
                        /\ \A a \in Assets, g \in Files :
                             release[w].assets[a] # 0 => pypi'[w][g] = release[w].assets[a]
      BY DEF Exact, Upload
    <3>1. CASE w # v
      BY <2>1, <3>1 DEF Exact
    <3>2. CASE w = v
      <4>1. f \in {1, 2} /\ 1 \in Files /\ 2 \in Files
        BY DEF Files
      <4>2. QED  BY <1>1, <2>1, <2>4, <2>5, <2>6, <3>2, <4>1
    <3>3. QED  BY <3>1, <3>2
  <2>8. PublishedIsComplete'
    <3> SUFFICES ASSUME NEW w \in Versions, Published(w)
                 PROVE  pypi'[w] = pypi[w]
      BY DEF PublishedIsComplete, Published, Upload
    <3>1. w # v
      <4>1. release[w].assets[1] = bytes[tag[w]] /\ bytes[tag[w]] \in Commits
        BY DEF PublishedIsComplete, Assets, TypeOK
      <4>2. QED  BY <2>6, <4>1, Numbers DEF Assets
    <3>2. QED  BY <2>1, <3>1
  <2>9. QED  BY <2>2, <2>3, <2>7, <2>8
<1>4. QED  BY <1>2, <1>3 DEF Upload

\* A change of an unpublished release that keeps its assets on what PyPI has.
LEMMA ReleaseKept ==
  ASSUME IInv, NEW v \in Versions, NEW r \in Release, release' = [release EXCEPT ![v] = r],
         UNCHANGED <<input, pushed, pypi>>, \A w \in Versions : w # v => tag'[w] = tag[w],
         tag' \in [Versions -> Bytes],
         \A a \in Assets, f \in Files : r.assets[a] # 0 => pypi[v][f] = r.assets[a],
         r.state = "published" =>
           /\ tag'[v] \in Commits /\ version[tag'[v]] = v /\ r.target = tag'[v]
           /\ \A f \in Files : pypi[v][f] = bytes[tag'[v]]
           /\ \A a \in Assets : r.assets[a] = bytes[tag'[v]],
         runs' \in [Commits -> Run] /\ Group' /\ Unpushed' /\ Late'
  PROVE  IInv'
<1> USE DEF IInv, input
<1>1. /\ release' \in [Versions -> Release] /\ release'[v] = r
      /\ \A w \in Versions : w # v => release'[w] = release[w]
  BY DEF TypeOK
<1>2. TypeOK'
  BY <1>1 DEF TypeOK
<1>3. Exact'
  BY <1>1 DEF Exact
<1>4. PublishedIsComplete'
  <2> SUFFICES ASSUME NEW w \in Versions, release'[w].state = "published"
               PROVE  /\ tag'[w] \in Commits /\ version[tag'[w]] = w /\ release'[w].target = tag'[w]
                      /\ \A f \in Files : pypi[w][f] = bytes[tag'[w]]
                      /\ \A a \in Assets : release'[w].assets[a] = bytes[tag'[w]]
    BY DEF PublishedIsComplete, Published
  <2>1. CASE w = v
    BY <1>1, <2>1
  <2>2. CASE w # v
    <3>1. release'[w] = release[w] /\ tag'[w] = tag[w] /\ Published(w)
      BY <1>1, <2>2 DEF Published
    <3>2. QED  BY <3>1 DEF PublishedIsComplete
  <2>3. QED  BY <2>1, <2>2
<1>5. QED  BY <1>2, <1>3, <1>4

\* The steps of a run keep the invariant.
LEMMA RunStep ==
  ASSUME IInv, NEW c \in Commits,
         \/ Fails(c) \/ Inspect(c) \/ Gate(c) \/ Verify(c) \/ Draft(c) \/ UploadAsset(c)
         \/ Publish(c) \/ Confirm(c)
  PROVE  IInv'
<1> USE DEF input, github
<1> DEFINE v == version[c]
<1>0. /\ Running(c) /\ TypeOK /\ Group /\ Unpushed /\ Late /\ v \in Versions /\ runs[c] \in Run
      /\ c \in Bytes /\ pushed \in 0..MaxPushes /\ c <= pushed
  <2>1. Running(c) /\ TypeOK /\ Group /\ Unpushed /\ Late
    BY DEF IInv, Fails, Inspect, Gate, Verify, Draft, UploadAsset, Publish, Confirm, At, Running
  <2>2. v \in Versions /\ runs[c] \in Run /\ c \in Bytes /\ pushed \in 0..MaxPushes
    BY <2>1, Numbers DEF TypeOK
  <2>3. ~(c > pushed)
    BY <2>1 DEF Unpushed, Running
  <2>4. QED  BY <2>1, <2>2, <2>3, Numbers DEF Bytes
<1>1. CASE Fails(c)
  BY <1>0, <1>1, GroupMoves DEF Fails
<1>2. CASE Inspect(c)
  <2>1. CASE Ends(c, "done")
    BY <1>0, <1>2, <2>1, GroupMoves DEF Inspect
  <2>2. CASE pending' = pending /\ runs' = [runs EXCEPT ![c] = [@ EXCEPT !.step = "gate", !.toPyPI = ~Complete(v),
                                                       !.toGitHub = ~Published(v)]]
    <3> DEFINE job == [runs[c] EXCEPT !.step = "gate", !.toPyPI = ~Complete(v), !.toGitHub = ~Published(v)]
    <3>1. job \in Run /\ job.state = "running" /\ job.step = "gate"
      BY <1>0 DEF Run, Running, Steps, Early, Complete, Published
    <3>2. runs' = [runs EXCEPT ![c] = job]
      BY <2>2
    <3> HIDE DEF job
    <3>3. runs' \in [Commits -> Run] /\ Group' /\ Unpushed' /\ Late'
      BY <1>0, <1>2, <2>2, <3>1, <3>2, RunKept DEF Inspect
    <3>4. QED  BY <1>2, <3>3, DataKept DEF Inspect
  <2>3. QED  BY <1>2, <2>1, <2>2 DEF Inspect
<1>3. CASE Gate(c)
  <2>1. runs' \in [Commits -> Run] /\ Group' /\ Unpushed' /\ Late'
    BY <1>0, <1>3, NextStep DEF Gate, Steps, Early
  <2>2. QED  BY <1>3, <2>1, DataKept DEF Gate
<1>4. CASE Verify(c)
  <2>1. runs' \in [Commits -> Run] /\ Group' /\ Unpushed' /\ Late'
    BY <1>0, <1>4, NextStep DEF Verify, Steps, Matches
  <2>2. QED  BY <1>4, <2>1, DataKept DEF Verify
<1>5. CASE Draft(c)
  <2>1. \A f \in Files : pypi[v][f] = bytes[c]
    BY <1>0, <1>5 DEF Draft, At, Late, Matches, Running
  <2>2. runs' \in [Commits -> Run] /\ Group' /\ Unpushed' /\ Late'
    BY <1>0, <1>5, <2>1, NextStep DEF Draft, Steps
  <2>3. CASE UNCHANGED release
    BY <1>5, <2>2, <2>3, DataKept DEF Draft
  <2>4. CASE release[v].state = "none" /\ release' = [release EXCEPT ![v].state = "draft", ![v].target = c]
    <3> DEFINE r == [release[v] EXCEPT !.state = "draft", !.target = c]
    <3>1. release[v] \in Release
      BY <1>0 DEF TypeOK
    <3>2. r \in Release /\ r.state = "draft" /\ r.assets = release[v].assets
      BY <1>0, <3>1 DEF Release
    <3>3. release' = [release EXCEPT ![v] = r]
      BY <1>0, <2>4 DEF TypeOK
    <3>4. \A a \in Assets, f \in Files : r.assets[a] # 0 => pypi[v][f] = r.assets[a]
      BY <1>0, <3>2 DEF IInv, Exact
    <3> HIDE DEF r
    <3>5. QED  BY <1>0, <1>5, <2>2, <3>2, <3>3, <3>4, ReleaseKept DEF Draft, TypeOK
  <2>5. QED  BY <1>5, <2>3, <2>4 DEF Draft
<1>6. CASE UploadAsset(c)
  <2>1. (\A f \in Files : pypi[v][f] = bytes[c]) /\ tag[v] \in {0, c}
    BY <1>0, <1>6 DEF UploadAsset, At, Late, Matches, Running
  <2>2. CASE Continues(c, "publish") /\ UNCHANGED release
    <3>1. runs' \in [Commits -> Run] /\ Group' /\ Unpushed' /\ Late'
      BY <1>0, <1>6, <2>1, <2>2, NextStep DEF UploadAsset, Steps
    <3>2. QED  BY <1>6, <2>2, <3>1, DataKept DEF UploadAsset
  <2>3. ASSUME NEW a \in Assets, release[v].assets[a] = 0  PROVE release[v].state # "published"
    BY <1>0, <2>3, Numbers DEF IInv, PublishedIsComplete, Published, TypeOK
  <2>4. ASSUME NEW a \in Assets, release[v].assets[a] = 0,
               release' = [release EXCEPT ![v].assets[a] = bytes[c]], UNCHANGED <<runs, pending>>
        PROVE  IInv'
    <3> DEFINE r == [release[v] EXCEPT !.assets[a] = bytes[c]]
    <3>1. release[v] \in Release /\ bytes[c] \in Bytes
      BY <1>0, Numbers DEF TypeOK
    <3>2. /\ r \in Release /\ r.state # "published" /\ r.assets[a] = bytes[c]
          /\ \A b \in Assets : b # a => r.assets[b] = release[v].assets[b]
      BY <2>3, <2>4, <3>1 DEF Release
    <3>3. release' = [release EXCEPT ![v] = r]
      BY <1>0, <2>4 DEF TypeOK
    <3>4. \A b \in Assets, f \in Files : r.assets[b] # 0 => pypi[v][f] = r.assets[b]
      BY <1>0, <2>1, <3>2 DEF IInv, Exact
    <3>5. runs' \in [Commits -> Run] /\ Group' /\ Unpushed' /\ Late'
      BY <1>0, <1>6, <2>4 DEF UploadAsset, TypeOK, Group, Unpushed, Late, Running, Matches
    <3> HIDE DEF r
    <3>6. QED  BY <1>0, <1>6, <3>2, <3>3, <3>4, <3>5, ReleaseKept DEF UploadAsset, TypeOK
  <2>5. ASSUME NEW a \in Assets, release[v].assets[a] = 0,
               release' = [release EXCEPT ![v].broken = TRUE], Ends(c, "failed")
        PROVE  IInv'
    <3> DEFINE r == [release[v] EXCEPT !.broken = TRUE]
    <3>1. release[v] \in Release
      BY <1>0 DEF TypeOK
    <3>2. r \in Release /\ r.state # "published" /\ r.assets = release[v].assets
      BY <2>3, <2>5, <3>1 DEF Release
    <3>3. release' = [release EXCEPT ![v] = r]
      BY <1>0, <2>5 DEF TypeOK
    <3>4. \A b \in Assets, f \in Files : r.assets[b] # 0 => pypi[v][f] = r.assets[b]
      BY <1>0, <3>2 DEF IInv, Exact
    <3>5. /\ runs' \in [Commits -> Run] /\ Group'
          /\ \A d \in Commits : runs'[d].state = "running" /\ runs'[d].step \notin Early
               => Running(d) /\ runs'[d].step = runs[d].step
          /\ \A d \in Commits : d # c /\ d # pending => runs'[d] = runs[d]
          /\ pending' \in {pending, c, 0}
      BY <1>0, <2>5, GroupKept
    <3>6. Late'
      BY <1>0, <1>6, <3>5 DEF UploadAsset, Late, Running, Matches, Early
    <3>7. ASSUME NEW d \in Commits, d > pushed  PROVE runs'[d].state = "none" /\ pending' # d
      BY <1>0, <3>5, <3>7, Numbers DEF Unpushed, Running
    <3>8. Unpushed'
      BY <1>6, <3>7 DEF UploadAsset, Unpushed
    <3> HIDE DEF r
    <3>9. QED  BY <1>0, <1>6, <3>2, <3>3, <3>4, <3>5, <3>6, <3>8, ReleaseKept DEF UploadAsset, TypeOK
  <2>6. QED  BY <1>6, <2>2, <2>4, <2>5 DEF UploadAsset
<1>7. CASE Publish(c)
  <2>1. (\A f \in Files : pypi[v][f] = bytes[c]) /\ tag[v] \in {0, c}
    BY <1>0, <1>7 DEF Publish, At, Late, Matches, Running
  <2>2. tag'[v] = c /\ tag' \in [Versions -> Bytes] /\ \A w \in Versions : w # v => tag'[w] = tag[w]
    BY <1>0, <1>7, <2>1 DEF Publish, TypeOK
  <2> DEFINE r == [release[v] EXCEPT !.state = "published", !.target = c]
  <2>3. release[v] \in Release
    BY <1>0 DEF TypeOK
  <2>4. /\ r \in Release /\ r.target = c /\ r.assets = release[v].assets
    BY <1>0, <2>3 DEF Release
  <2>5. release' = [release EXCEPT ![v] = r] /\ \A a \in Assets : r.assets[a] = bytes[c]
    BY <1>0, <1>7, <2>4 DEF Publish, TypeOK
  <2>6. runs' \in [Commits -> Run] /\ Group' /\ Unpushed' /\ Late'
    BY <1>0, <1>7, NextStep DEF Publish, Steps
  <2>7. tag'[v] = c /\ version[c] = v /\ (\A f \in Files : pypi[v][f] = bytes[tag'[v]])
    BY <2>1, <2>2
  <2>8. \A a \in Assets : r.assets[a] = bytes[tag'[v]]
    BY <2>2, <2>5
  <2>9. \A a \in Assets, f \in Files : r.assets[a] # 0 => pypi[v][f] = r.assets[a]
    BY <2>1, <2>5
  <2>10. UNCHANGED <<input, pushed, pypi>>
    BY <1>7 DEF Publish
  <2>11. IInv /\ v \in Versions /\ r \in Release /\ release' = [release EXCEPT ![v] = r]
         /\ r.target = tag'[v] /\ tag'[v] \in Commits
    BY <1>0, <2>2, <2>4, <2>5
  <2> HIDE DEF r, v
  <2>12. QED  BY <2>2, <2>6, <2>7, <2>8, <2>9, <2>10, <2>11, ReleaseKept
<1>8. CASE Confirm(c)
  BY <1>0, <1>8, GroupMoves DEF Confirm
<1>9. QED  BY <1>1, <1>2, <1>3, <1>4, <1>5, <1>6, <1>7, <1>8

\* A push and a re-run keep the invariant: their run starts in front of "draft".
LEMMA EntersStep ==
  ASSUME IInv, Push \/ \E c \in Commits : ReRun(c)
  PROVE  IInv'
<1>1. CASE Push
  <2>1. pushed + 1 \in Commits /\ pushed' = pushed + 1 /\ pushed \in 0..MaxPushes
    BY <1>1, Numbers DEF Push, IInv, TypeOK, Commits
  <2>2. ~Running(pushed + 1)
    BY <2>1, Numbers DEF IInv, Unpushed, Running, Commits
  <2>3. NoRun \in Run /\ NoRun.step \in Early
    BY DEF NoRun, Run, States, Steps, Early
  <2>4. pushed' \in 0..MaxPushes /\ pushed <= pushed' /\ pushed + 1 <= pushed'
    BY <2>1, Numbers DEF Commits
  <2>5. QED  BY <1>1, <2>1, <2>2, <2>3, <2>4, GroupMoves DEF Push
<1>2. ASSUME NEW c \in Commits, ReRun(c)  PROVE IInv'
  <2>1. ~Running(c) /\ runs[c].state # "none" /\ runs[c] \in Run
    BY <1>2 DEF ReRun, Running, IInv, TypeOK
  <2>2. c <= pushed /\ pushed \in 0..MaxPushes /\ pushed <= pushed
    BY <2>1, Numbers DEF IInv, TypeOK, Unpushed, Commits
  <2>3. NoRun \in Run /\ NoRun.step \in Early
    BY DEF NoRun, Run, States, Steps, Early
  <2> DEFINE job == [runs[c] EXCEPT !.step = JobOf(@)]
  <2>4. job \in Run /\ job.step \in Early
    BY <2>1 DEF Run, JobOf, Steps, Early
  <2>5. Enters(c, NoRun) \/ Enters(c, job)
    BY <1>2 DEF ReRun
  <2> HIDE DEF job
  <2>6. QED  BY <1>2, <2>1, <2>2, <2>3, <2>4, <2>5, GroupMoves DEF ReRun
<1>3. QED  BY <1>1, <1>2

\* IInv is inductive.
THEOREM Invariance == Spec => []IInv
<1>1. Init => IInv
  <2> SUFFICES ASSUME Init  PROVE IInv
    OBVIOUS
  <2>1. NoRun \in Run /\ NoRun.state = "none" /\ NoRun.step = "inspect"
    BY DEF NoRun, Run, States, Steps, Early
  <2>2. /\ NoRelease \in Release /\ NoRelease.state = "none" /\ \A a \in Assets : NoRelease.assets[a] = 0
    BY Numbers DEF NoRelease, Release
  <2>3. TypeOK
    BY <2>1, <2>2, Numbers DEF Init, TypeOK
  <2>4. Group /\ Unpushed /\ Late
    BY <2>1, Numbers DEF Init, Group, Unpushed, Late, Running
  <2>5. Exact /\ PublishedIsComplete
    BY <2>2 DEF Init, Exact, PublishedIsComplete, Published, Files
  <2>6. QED  BY <2>3, <2>4, <2>5 DEF IInv
<1>2. IInv /\ [Next]_vars => IInv'
  <2>1. ASSUME IInv, UNCHANGED vars  PROVE IInv'
    BY <2>1 DEF vars, input, github, IInv, TypeOK, Group, Unpushed, Late, Exact, PublishedIsComplete,
                Running, Matches, Published
  <2>2. ASSUME IInv, Next  PROVE IInv'
    BY <2>1, <2>2, EntersStep, RunStep, UploadStep DEF Next, Finished
  <2>3. QED  BY <2>1, <2>2
<1>3. QED  BY <1>1, <1>2, PTL DEF Spec

(***************************************************************************)
(* The properties.                                                         *)
(***************************************************************************)
\* A published release is complete and of one commit (release.yml): its tag names a
\* commit of that version, and its assets and the files on PyPI are that commit's build.
THEOREM PublishesComplete == Spec => []PublishedIsComplete
<1>1. IInv => PublishedIsComplete
  BY DEF IInv
<1>2. QED  BY <1>1, Invariance, PTL

\* Builds of a version never mix on PyPI and GitHub, whatever is pushed and run again
\* (release.yml, verify_pypi_release.py).
THEOREM OneBuild == Spec => []OneBuildPerVersion
<1>1. IInv => OneBuildPerVersion
  BY DEF IInv, Exact, OneBuildPerVersion, Files
<1>2. QED  BY <1>1, Invariance, PTL

(***************************************************************************)
(* What an interrupted run leaves.                                         *)
(***************************************************************************)
\* Whatever is there of a version stems from commits of that version that were
\* pushed, assets are there in their order, and the tag comes with the release.
Origin ==
  \A v \in Versions :
    /\ tag[v] # 0 => Published(v)
    /\ release[v].state # "none" => release[v].target \in 1..pushed /\ version[release[v].target] = v
    /\ \A f \in Files : pypi[v][f] # 0 =>
         \E d \in 1..pushed : version[d] = v /\ pypi[v][f] = bytes[d]
    /\ \A a, b \in Assets : a < b /\ release[v].assets[b] # 0 => release[v].assets[a] # 0

\* A commit whose run takes a step was pushed.
LEMMA RunsOfPushed ==
  ASSUME IInv, NEW c \in Commits, runs[c].state # "none"
  PROVE  c \in 1..pushed /\ pushed \in 0..MaxPushes /\ version[c] \in Versions
         /\ bytes[c] \in Commits /\ bytes[c] # 0
<1>1. ~(c > pushed) BY DEF IInv, Unpushed
<1> QED BY <1>1, Numbers DEF IInv, TypeOK, Commits

\* A push adds to the commits, and most steps touch neither PyPI nor GitHub.
LEMMA OriginKept ==
  ASSUME IInv, Origin, pushed' \in 0..MaxPushes, pushed <= pushed',
         UNCHANGED <<input, pypi, github>>
  PROVE  Origin'
<1>1. 1..pushed \subseteq 1..pushed' BY Numbers DEF IInv, TypeOK
<1> QED BY <1>1 DEF Origin, Published, input, github

\* What the steps that touch PyPI or GitHub leave is of the commit whose run it is.
LEMMA OriginStep ==
  ASSUME IInv, Origin, NEW c \in Commits,
         Upload(c) \/ Draft(c) \/ UploadAsset(c) \/ Publish(c)
  PROVE  Origin'
<1> USE DEF input, github
<1> DEFINE v == version[c]
           b == bytes[c]
<1>1. runs[c].state # "none" BY DEF Upload, Draft, UploadAsset, Publish, At
<1>2. /\ c \in 1..pushed /\ pushed \in 0..MaxPushes /\ v \in Versions /\ b \in Commits /\ b # 0
      /\ UNCHANGED <<input, pushed>> /\ TypeOK /\ c \in Bytes
  BY <1>1, RunsOfPushed, Numbers DEF IInv, Upload, Draft, UploadAsset, Publish
<1>3. CASE UNCHANGED <<pypi, github>> BY <1>2, <1>3, OriginKept DEF IInv, TypeOK
<1>4. ASSUME NEW f \in Files, pypi' = [pypi EXCEPT ![v][f] = b], UNCHANGED github PROVE Origin'
  <2>1. \A w \in Versions, g \in Files : pypi'[w][g] = pypi[w][g] \/ (w = v /\ pypi'[w][g] = b)
    BY <1>2, <1>4 DEF TypeOK
  <2>2. ASSUME NEW w \in Versions, NEW g \in Files, pypi'[w][g] # 0
        PROVE  \E d \in 1..pushed : version[d] = w /\ pypi'[w][g] = bytes[d]
    <3>1. CASE pypi'[w][g] = pypi[w][g] BY <2>2, <3>1 DEF Origin
    <3>2. CASE w = v /\ pypi'[w][g] = b BY <1>2, <3>2
    <3> QED BY <2>1, <3>1, <3>2
  <2> QED BY <1>2, <1>4, <2>2 DEF Origin, Published
<1>5. ASSUME NEW r \in Release, release' = [release EXCEPT ![v] = r], UNCHANGED pypi,
             tag' = tag \/ (r.state = "published" /\ \A w \in Versions : w # v => tag'[w] = tag[w]),
             release[v].state = "published" => r.state = "published",
             r.target = c \/ (r.target = release[v].target /\ r.state = release[v].state),
             \A x, y \in Assets : x < y /\ r.assets[y] # 0 => r.assets[x] # 0
      PROVE  Origin'
  <2>1. /\ release'[v] = r /\ \A w \in Versions : w # v => release'[w] = release[w]
    BY <1>2, <1>5 DEF TypeOK
  <2>2. ASSUME NEW w \in Versions
        PROVE  /\ tag'[w] # 0 => release'[w].state = "published"
               /\ release'[w].state # "none" =>
                    release'[w].target \in 1..pushed /\ version[release'[w].target] = w
               /\ \A f \in Files : pypi[w][f] # 0 =>
                    \E d \in 1..pushed : version[d] = w /\ pypi[w][f] = bytes[d]
               /\ \A x, y \in Assets : x < y /\ release'[w].assets[y] # 0 => release'[w].assets[x] # 0
    <3>1. CASE w # v BY <1>5, <2>1, <3>1 DEF Origin, Published
    <3>2. CASE w = v
      <4>1. tag'[v] # 0 => r.state = "published" BY <1>2, <1>5 DEF Origin, Published
      <4>2. r.state # "none" => r.target \in 1..pushed /\ version[r.target] = v
        BY <1>2, <1>5 DEF Origin
      <4>3. \A f \in Files : pypi[v][f] # 0 =>
              \E d \in 1..pushed : version[d] = v /\ pypi[v][f] = bytes[d]
        BY <1>2 DEF Origin
      <4> QED BY <1>5, <2>1, <3>2, <4>1, <4>2, <4>3
    <3> QED BY <3>1, <3>2
  <2> QED BY <1>2, <1>5, <2>2 DEF Origin, Published
<1>6. release[v] \in Release BY <1>2 DEF TypeOK
<1>7. \A x, y \in Assets : x < y /\ release[v].assets[y] # 0 => release[v].assets[x] # 0
  BY <1>2 DEF Origin
<1>8. CASE Upload(c) BY <1>3, <1>4, <1>8 DEF Upload
<1>9. CASE Draft(c)
  <2>1. CASE UNCHANGED release BY <1>3, <1>9, <2>1 DEF Draft
  <2>2. CASE release[v].state = "none" /\ release' = [release EXCEPT ![v].state = "draft", ![v].target = c]
    <3> DEFINE r == [release[v] EXCEPT !.state = "draft", !.target = c]
    <3>1. r \in Release /\ r.target = c /\ r.assets = release[v].assets BY <1>2, <1>6 DEF Release
    <3>2. release' = [release EXCEPT ![v] = r] BY <1>2, <2>2 DEF TypeOK
    <3>3. UNCHANGED pypi /\ UNCHANGED tag BY <1>9 DEF Draft
    <3>4. release[v].state = "published" => r.state = "published" BY <2>2
    <3>5. \A x, y \in Assets : x < y /\ r.assets[y] # 0 => r.assets[x] # 0 BY <1>7, <3>1
    <3> HIDE DEF r
    <3> QED BY <1>5, <3>1, <3>2, <3>3, <3>4, <3>5
  <2> QED BY <1>9, <2>1, <2>2 DEF Draft
<1>10. CASE UploadAsset(c)
  <2>0. UNCHANGED <<pypi, tag, latest>> BY <1>10 DEF UploadAsset
  <2>1. CASE UNCHANGED release BY <1>3, <2>0, <2>1
  <2>2. ASSUME NEW a \in Assets, release[v].assets[a] = 0,
               \A x \in Assets : x < a => release[v].assets[x] # 0,
               release' = [release EXCEPT ![v].assets[a] = b]
        PROVE  Origin'
    <3> DEFINE r == [release[v] EXCEPT !.assets[a] = b]
    <3>1. /\ r \in Release /\ r.target = release[v].target /\ r.state = release[v].state
          /\ r.assets[a] = b /\ \A x \in Assets : x # a => r.assets[x] = release[v].assets[x]
      BY <1>2, <1>6, Numbers DEF Release
    <3>2. release' = [release EXCEPT ![v] = r] BY <1>2, <2>2 DEF TypeOK
    <3>3. \A x, y \in Assets : x < y /\ r.assets[y] # 0 => r.assets[x] # 0
      BY <1>2, <1>7, <2>2, <3>1
    <3> HIDE DEF r
    <3> QED BY <1>5, <2>0, <3>1, <3>2, <3>3
  <2>3. CASE release' = [release EXCEPT ![v].broken = TRUE]
    <3> DEFINE r == [release[v] EXCEPT !.broken = TRUE]
    <3>1. /\ r \in Release /\ r.target = release[v].target /\ r.state = release[v].state
          /\ r.assets = release[v].assets
      BY <1>6 DEF Release
    <3>2. release' = [release EXCEPT ![v] = r] BY <1>2, <2>3 DEF TypeOK
    <3>3. \A x, y \in Assets : x < y /\ r.assets[y] # 0 => r.assets[x] # 0 BY <1>7, <3>1
    <3>4. UNCHANGED pypi /\ UNCHANGED tag BY <2>0
    <3> HIDE DEF r
    <3> QED BY <1>5, <3>1, <3>2, <3>3, <3>4
  <2> QED BY <1>10, <2>1, <2>2, <2>3 DEF UploadAsset
<1>11. CASE Publish(c)
  <2> DEFINE r == [release[v] EXCEPT !.state = "published", !.target = c]
  <2>1. r \in Release /\ r.target = c /\ r.state = "published" /\ r.assets = release[v].assets
    BY <1>2, <1>6 DEF Release
  <2>2. release' = [release EXCEPT ![v] = r] BY <1>2, <1>11 DEF Publish, TypeOK
  <2>3. UNCHANGED pypi /\ \A w \in Versions : w # v => tag'[w] = tag[w]
    BY <1>2, <1>11 DEF Publish, TypeOK
  <2>4. \A x, y \in Assets : x < y /\ r.assets[y] # 0 => r.assets[x] # 0 BY <1>7, <2>1
  <2> HIDE DEF r
  <2> QED BY <1>5, <2>1, <2>2, <2>3, <2>4
<1> QED BY <1>8, <1>9, <1>10, <1>11

\* Origin is inductive.
LEMMA OriginNext == IInv /\ Origin /\ [Next]_vars => Origin'
<1> SUFFICES ASSUME IInv, Origin, [Next]_vars PROVE Origin'
  OBVIOUS
<1>1. pushed \in 0..MaxPushes /\ MaxPushes \in Nat BY Numbers DEF IInv, TypeOK
<1>2. CASE Push
  <2>1. pushed' \in 0..MaxPushes /\ pushed <= pushed' /\ UNCHANGED <<input, pypi, github>>
    BY <1>1, <1>2 DEF Push
  <2> QED BY <2>1, OriginKept
<1>3. ASSUME NEW c \in Commits,
             ReRun(c) \/ Fails(c) \/ Inspect(c) \/ Gate(c) \/ Verify(c) \/ Confirm(c)
      PROVE  Origin'
  <2>1. UNCHANGED <<pushed, input, pypi, github>>
    BY <1>3 DEF ReRun, Fails, Inspect, Gate, Verify, Confirm
  <2> QED BY <1>1, <2>1, OriginKept
<1>4. CASE UNCHANGED vars BY <1>1, <1>4, OriginKept DEF vars
<1> QED BY <1>2, <1>3, <1>4, OriginStep DEF Next, Finished

\* What an interrupted run leaves does not keep a new run of its commit from finishing
\* (the inspection of release.yml), unless it was cut off in the middle of an upload or
\* another commit has the same version.
THEOREM ResumesInterrupted == Spec => []InterruptedRunResumes
<1>1. Init => Origin
  BY DEF Init, Origin, NoRelease
<1>2. IInv /\ Origin => InterruptedRunResumes
  <2> SUFFICES ASSUME IInv, Origin, NEW c \in Commits, c <= pushed, ~Partial(version[c]),
                      ~release[version[c]].broken,
                      \A d \in 1..pushed : version[d] = version[c] => d = c
               PROVE  /\ Consistent(c, version[c])
                      /\ Complete(version[c]) /\ ~Published(version[c]) =>
                           /\ Matches(c, version[c])
                           /\ \A a \in Assets : release[version[c]].assets[a] \in {0, bytes[c]}
    BY DEF InterruptedRunResumes
  <2> DEFINE v == version[c]
  <2>1. v \in Versions /\ bytes[c] \in Commits /\ 0 \notin Commits
    BY Numbers DEF IInv, TypeOK
  <2>2. /\ tag[v] # 0 => Published(v)
        /\ release[v].state # "none" => release[v].target = c
        /\ \A f \in Files : pypi[v][f] # 0 => pypi[v][f] = bytes[c]
        /\ \A a, b \in Assets : a < b /\ release[v].assets[b] # 0 => release[v].assets[a] # 0
    BY <2>1 DEF Origin
  <2>3. Published(v) =>
          /\ tag[v] \in Commits /\ version[tag[v]] = v /\ release[v].target = tag[v]
          /\ bytes[tag[v]] \in Commits
          /\ \A f \in Files : pypi[v][f] = bytes[tag[v]]
          /\ \A a \in Assets : release[v].assets[a] = bytes[tag[v]]
    BY <2>1 DEF IInv, PublishedIsComplete, TypeOK
  <2>4. \A a \in Assets, f \in Files : release[v].assets[a] # 0 => pypi[v][f] = release[v].assets[a]
    BY <2>1 DEF IInv, Exact
  <2>5. /\ ~Published(v) => tag[v] \in {0, c} /\ (release[v].state = "none" => tag[v] = 0)
        /\ Published(v) => tag[v] # 0
    BY <2>1, <2>2, <2>3
  <2>6. version[ReleaseCommit(c, v)] = v /\ DraftIsOwn(c, v)
    BY <2>2, <2>3 DEF ReleaseCommit, DraftIsOwn
  <2>7. \A f \in Files : release[v].assets[f] # 0 /\ Complete(v) => release[v].assets[f] = pypi[v][f]
    BY <2>4 DEF Files, Assets
  <2>8. release[v].assets[3] # 0 => \A f \in Files : release[v].assets[f] = release[v].assets[3]
    <3>1. ASSUME NEW f \in Files, release[v].assets[3] # 0
          PROVE  release[v].assets[f] = release[v].assets[3]
      <4>1. f \in Assets /\ 3 \in Assets /\ f < 3 BY DEF Files, Assets
      <4>2. release[v].assets[f] # 0 BY <2>2, <3>1, <4>1
      <4> QED BY <2>4, <3>1, <4>1, <4>2
    <3> QED BY <3>1
  <2>9. Published(v) => Complete(v) /\ \A a \in Assets : release[v].assets[a] # 0
    BY <2>1, <2>3 DEF Complete
  <2>10. Consistent(c, v) BY <2>5, <2>6, <2>7, <2>8, <2>9 DEF Consistent
  <2>11. Complete(v) => Matches(c, v) BY <2>2 DEF Complete, Matches
  <2>12. Complete(v) => \A a \in Assets : release[v].assets[a] \in {0, bytes[c]}
    BY <2>2, <2>4 DEF Complete, Files
  <2> QED BY <2>10, <2>11, <2>12
<1> QED BY <1>1, <1>2, Invariance, OriginNext, PTL DEF Spec

(***************************************************************************)
(* The inventories of a release (ReleaseFiles).                            *)
(***************************************************************************)
\* What was parsed up to each line is what the definition says.
LEMMA ParsedToIs ==
  ASSUME Len(lines) \in Nat
  PROVE  Inventories!ParsedTo =
           [i \in 0..Len(lines) |-> IF i = 0 THEN Inventories!Nothing
                                    ELSE Inventories!Adds(Inventories!ParsedTo[i - 1], lines[i])]
<1> DEFINE Is(g, k) == g = [i \in 0..k |-> IF i = 0 THEN Inventories!Nothing
                                          ELSE Inventories!Adds(g[i - 1], lines[i])]
           T == {k \in Nat : \E g : Is(g, k)}
<1>1. 0 \in T
  <2> DEFINE first == [i \in 0..0 |-> Inventories!Nothing]
  <2>1. first = [i \in 0..0 |-> IF i = 0 THEN Inventories!Nothing
                                ELSE Inventories!Adds(first[i - 1], lines[i])]
    OBVIOUS
  <2> HIDE DEF first
  <2> QED BY <2>1
<1>2. ASSUME NEW k \in T PROVE k + 1 \in T
  <2>1. PICK g : Is(g, k) BY <1>2
  <2> DEFINE h == [i \in 0..(k + 1) |-> IF i = k + 1 THEN Inventories!Adds(g[k], lines[k + 1]) ELSE g[i]]
  <2>2. k \in Nat BY <1>2
  <2>3. \A i \in 0..k : h[i] = g[i] BY <2>2
  <2>4. ASSUME NEW i \in 0..(k + 1)
        PROVE h[i] = IF i = 0 THEN Inventories!Nothing ELSE Inventories!Adds(h[i - 1], lines[i])
    <3>1. CASE i = k + 1
      <4>1. h[i] = Inventories!Adds(g[k], lines[i]) /\ i - 1 = k /\ i # 0 BY <2>2, <3>1
      <4>2. h[i - 1] = g[k] BY <2>2, <2>3, <4>1
      <4> QED BY <4>1, <4>2
    <3>2. CASE i \in 0..k
      <4>1. g[i] = IF i = 0 THEN Inventories!Nothing ELSE Inventories!Adds(g[i - 1], lines[i])
        BY <2>1, <3>2
      <4>2. i # 0 => h[i - 1] = g[i - 1] BY <2>2, <2>3, <3>2
      <4> QED BY <2>3, <3>2, <4>1, <4>2
    <3> QED BY <2>2, <3>1, <3>2
  <2>5. h = [i \in 0..(k + 1) |-> h[i]] OBVIOUS
  <2> HIDE DEF h
  <2>6. Is(h, k + 1) BY <2>4, <2>5
  <2> HIDE DEF Is
  <2>7. \E d : Is(d, k + 1) BY <2>6
  <2> QED BY <2>2, <2>7
<1> HIDE DEF T
<1>3. T = Nat BY <1>1, <1>2, Induct DEF T
<1>4. \E g : Is(g, Len(lines)) BY <1>3 DEF T
<1>5. Inventories!ParsedTo = CHOOSE g : Is(g, Len(lines)) BY DEF Inventories!ParsedTo
<1> HIDE DEF Is
<1>6. Is(Inventories!ParsedTo, Len(lines)) BY <1>4, <1>5
<1> QED BY <1>6 DEF Is

\* An entry of a dictionary that is built one by one: p[i] is what is known after i of
\* them, each of which is good or not, and has a name and a value.
Builds(p, n, valid, good, name, value) ==
  /\ p[0] = [ok |-> valid, files |-> [x \in {} |-> "none"]]
  /\ \A i \in 1..n :
       p[i] = IF good[i] /\ name[i] \notin DOMAIN p[i - 1].files
              THEN [p[i - 1] EXCEPT !.files = Inventories!Put(@, name[i], value[i])]
              ELSE [p[i - 1] EXCEPT !.ok = FALSE]

\* The entries up to i are good and have different names.
Distinct(i, good, name) ==
  \A j \in 1..i : good[j] /\ \A k \in 1..(j - 1) : name[k] # name[j]

\* What the dictionary is then.
Holds(p, i, valid, good, name, value) ==
  /\ p[i] = [ok |-> p[i].ok, files |-> p[i].files]
  /\ p[i].files = [x \in DOMAIN p[i].files |-> p[i].files[x]]
  /\ p[i].ok \in BOOLEAN /\ (p[i].ok <=> valid /\ Distinct(i, good, name))
  /\ p[i].ok => /\ DOMAIN p[i].files = {name[j] : j \in 1..i}
                /\ \A j \in 1..i : p[i].files[name[j]] = value[j]

\* A dictionary is valid exactly if all its entries are good and have different names,
\* and then it has exactly those.
LEMMA DictionaryIs ==
  ASSUME NEW n \in Nat, NEW p, NEW valid \in BOOLEAN, NEW good \in [1..n -> BOOLEAN], NEW name, NEW value,
         Builds(p, n, valid, good, name, value)
  PROVE  Holds(p, n, valid, good, name, value)
<1> DEFINE T == {i \in Nat : i <= n => Holds(p, i, valid, good, name, value)}
<1>1. 0 \in T
  <2>1. p[0] = [ok |-> valid, files |-> [x \in {} |-> "none"]] BY DEF Builds
  <2>2. Distinct(0, good, name) BY DEF Distinct
  <2> QED BY <2>1, <2>2 DEF Holds
<1>2. ASSUME NEW i \in T PROVE i + 1 \in T
  <2> SUFFICES ASSUME i + 1 <= n PROVE Holds(p, i + 1, valid, good, name, value)
    OBVIOUS
  <2> DEFINE a == i + 1
             o == p[i].ok
             f == p[i].files
  <2>1. i \in Nat /\ a \in 1..n /\ a - 1 = i /\ Holds(p, i, valid, good, name, value) BY <1>2
  <2>2. p[i] = [ok |-> o, files |-> f] /\ o \in BOOLEAN BY <2>1 DEF Holds
  <2>3. p[a] = IF good[a] /\ name[a] \notin DOMAIN f
               THEN [p[i] EXCEPT !.files = Inventories!Put(@, name[a], value[a])]
               ELSE [p[i] EXCEPT !.ok = FALSE]
    BY <2>1 DEF Builds
  <2>4. Distinct(a, good, name) <=>
          Distinct(i, good, name) /\ good[a] /\ \A k \in 1..i : name[k] # name[a]
    BY <2>1 DEF Distinct
  <2>5. CASE good[a] /\ name[a] \notin DOMAIN f
    <3>1. p[a] = [ok |-> o, files |-> Inventories!Put(f, name[a], value[a])]
      BY <2>2, <2>3, <2>5
    <3>2. o => Distinct(a, good, name)
      BY <2>1, <2>4, <2>5 DEF Holds
    <3>3. Distinct(a, good, name) /\ valid => o BY <2>1, <2>4 DEF Holds
    <3>4. o => valid BY <2>1 DEF Holds
    <3>5. ASSUME o PROVE /\ DOMAIN p[a].files = {name[j] : j \in 1..a}
                         /\ \A j \in 1..a : p[a].files[name[j]] = value[j]
      <4>1. DOMAIN f = {name[j] : j \in 1..i} /\ \A j \in 1..i : f[name[j]] = value[j]
        BY <2>1, <3>5 DEF Holds
      <4>2. p[a].files = [x \in DOMAIN f \cup {name[a]} |-> IF x = name[a] THEN value[a] ELSE f[x]]
        BY <3>1 DEF Inventories!Put
      <4>3. 1..a = 1..i \cup {a} BY <2>1
      <4>4. DOMAIN p[a].files = {name[j] : j \in 1..a} BY <4>1, <4>2, <4>3
      <4>5. ASSUME NEW j \in 1..i PROVE p[a].files[name[j]] = value[j]
        <5>1. name[j] \in DOMAIN f BY <4>1
        <5>2. name[j] # name[a] BY <5>1, <2>5
        <5> QED BY <4>1, <4>2, <5>1, <5>2
      <4>6. p[a].files[name[a]] = value[a] BY <4>2
      <4> QED BY <4>3, <4>4, <4>5, <4>6
    <3>6. p[a].ok = o BY <3>1
    <3>7. p[a].files = [x \in DOMAIN p[a].files |-> p[a].files[x]] BY <3>1 DEF Inventories!Put
    <3> QED BY <3>1, <3>2, <3>3, <3>4, <3>5, <3>6, <3>7, <2>2 DEF Holds
  <2>6. CASE ~(good[a] /\ name[a] \notin DOMAIN f)
    <3>1. p[a] = [ok |-> FALSE, files |-> f] BY <2>2, <2>3, <2>6
    <3>2. ~(valid /\ Distinct(a, good, name))
      <4>1. SUFFICES ASSUME valid, Distinct(a, good, name) PROVE FALSE OBVIOUS
      <4>2. o BY <4>1, <2>1, <2>4 DEF Holds
      <4>3. DOMAIN f = {name[j] : j \in 1..i} BY <4>2, <2>1 DEF Holds
      <4> QED BY <4>1, <4>3, <2>4, <2>6
    <3>3. f = [x \in DOMAIN f |-> f[x]] BY <2>1 DEF Holds
    <3> QED BY <3>1, <3>2, <3>3 DEF Holds
  <2> QED BY <2>5, <2>6
<1> HIDE DEF T
<1>3. T = Nat BY <1>1, <1>2, Induct DEF T
<1>4. n \in T BY <1>3
<1> QED BY <1>4 DEF T

\* The same for what PyPI lists.
LEMMA PublishedIs ==
  ASSUME NEW urls, Len(urls) \in Nat
  PROVE  \E p : /\ Inventories!PublishedFiles(urls) = p[Len(urls)]
                /\ p = [i \in 0..Len(urls) |->
                         IF i = 0 THEN [Inventories!Nothing EXCEPT !.ok = (Len(urls) = 2)]
                         ELSE Inventories!Publishes(p[i - 1], urls[i])]
<1> DEFINE base == [Inventories!Nothing EXCEPT !.ok = (Len(urls) = 2)]
           Is(g, k) == g = [i \in 0..k |-> IF i = 0 THEN base ELSE Inventories!Publishes(g[i - 1], urls[i])]
           T == {k \in Nat : \E g : Is(g, k)}
<1> HIDE DEF base
<1>1. 0 \in T
  <2> DEFINE first == [i \in 0..0 |-> base]
  <2>1. first = [i \in 0..0 |-> IF i = 0 THEN base ELSE Inventories!Publishes(first[i - 1], urls[i])]
    OBVIOUS
  <2> HIDE DEF first
  <2> QED BY <2>1
<1>2. ASSUME NEW k \in T PROVE k + 1 \in T
  <2>1. PICK g : Is(g, k) BY <1>2
  <2> DEFINE h == [i \in 0..(k + 1) |-> IF i = k + 1 THEN Inventories!Publishes(g[k], urls[k + 1]) ELSE g[i]]
  <2>2. k \in Nat BY <1>2
  <2>3. \A i \in 0..k : h[i] = g[i] BY <2>2
  <2>4. ASSUME NEW i \in 0..(k + 1)
        PROVE h[i] = IF i = 0 THEN base ELSE Inventories!Publishes(h[i - 1], urls[i])
    <3>1. CASE i = k + 1
      <4>1. h[i] = Inventories!Publishes(g[k], urls[i]) /\ i - 1 = k /\ i # 0 BY <2>2, <3>1
      <4>2. h[i - 1] = g[k] BY <2>2, <2>3, <4>1
      <4> QED BY <4>1, <4>2
    <3>2. CASE i \in 0..k
      <4>1. g[i] = IF i = 0 THEN base ELSE Inventories!Publishes(g[i - 1], urls[i])
        BY <2>1, <3>2
      <4>2. i # 0 => h[i - 1] = g[i - 1] BY <2>2, <2>3, <3>2
      <4> QED BY <2>3, <3>2, <4>1, <4>2
    <3> QED BY <2>2, <3>1, <3>2
  <2>5. h = [i \in 0..(k + 1) |-> h[i]] OBVIOUS
  <2> HIDE DEF h
  <2>6. Is(h, k + 1) BY <2>4, <2>5
  <2> HIDE DEF Is
  <2>7. \E d : Is(d, k + 1) BY <2>6
  <2> QED BY <2>2, <2>7
<1> HIDE DEF T
<1>3. T = Nat BY <1>1, <1>2, Induct DEF T
<1>4. \E g : Is(g, Len(urls)) BY <1>3 DEF T
<1>5. Inventories!PublishedFiles(urls) = (CHOOSE g : Is(g, Len(urls)))[Len(urls)]
  BY DEF Inventories!PublishedFiles, base
<1> HIDE DEF Is
<1>6. Is(CHOOSE g : Is(g, Len(urls)), Len(urls)) BY <1>4
<1> QED BY <1>5, <1>6 DEF Is, base

\* The lines of a checksum file.
Entries == [digest : Contents \cup {"malformed"}, name : Inventories!Expected \cup {"other"}]

\* Files and lines are what they may be, and what was written is still there: the
\* inductive invariant.
Filed ==
  /\ DOMAIN directory \subseteq Inventories!Names
  /\ \A n \in Inventories!Expected : n \in DOMAIN directory => directory[n] \in Contents
  /\ lines \in Seq(Entries)
  /\ verdict = "written" =>
       /\ Inventories!Present = Inventories!Expected \cup {"sums"}
       /\ lines = <<Inventories!Line(directory["sdist"], "sdist"), Inventories!Line(directory["wheel"], "wheel")>>

\* The parsed checksums are what the lines say, if none is malformed or repeated.
LEMMA ParsedIs ==
  ASSUME lines \in Seq(Entries)
  PROVE  \E p : /\ Inventories!Parsed = p[Len(lines)]
                /\ Holds(p, Len(lines), TRUE, [j \in 1..Len(lines) |-> lines[j] # Inventories!Malformed],
                         [j \in 1..Len(lines) |-> lines[j].name], [j \in 1..Len(lines) |-> lines[j].digest])
<1> DEFINE n == Len(lines)
           p == Inventories!ParsedTo
           good == [j \in 1..n |-> lines[j] # Inventories!Malformed]
           name == [j \in 1..n |-> lines[j].name]
           value == [j \in 1..n |-> lines[j].digest]
<1>1. n \in Nat OBVIOUS
<1>2. p = [i \in 0..n |-> IF i = 0 THEN Inventories!Nothing ELSE Inventories!Adds(p[i - 1], lines[i])]
  BY <1>1, ParsedToIs
<1>3. good \in [1..n -> BOOLEAN] OBVIOUS
<1>4. p[0] = [ok |-> TRUE, files |-> [x \in {} |-> "none"]] BY <1>1, <1>2 DEF Inventories!Nothing
<1>5. ASSUME NEW i \in 1..n
      PROVE  p[i] = IF good[i] /\ name[i] \notin DOMAIN p[i - 1].files
                    THEN [p[i - 1] EXCEPT !.files = Inventories!Put(@, name[i], value[i])]
                    ELSE [p[i - 1] EXCEPT !.ok = FALSE]
  <2>1. p[i] = Inventories!Adds(p[i - 1], lines[i]) BY <1>1, <1>2
  <2>2. good[i] <=> lines[i] # Inventories!Malformed BY <1>1
  <2>3. name[i] = lines[i].name /\ value[i] = lines[i].digest BY <1>1
  <2> HIDE DEF p, good, name, value
  <2> QED BY <2>1, <2>2, <2>3 DEF Inventories!Adds
<1> HIDE DEF p, good, name, value
<1>6. Builds(p, n, TRUE, good, name, value) BY <1>4, <1>5 DEF Builds
<1>7. Holds(p, n, TRUE, good, name, value) BY <1>1, <1>3, <1>6, DictionaryIs
<1> QED BY <1>7 DEF Inventories!Parsed, p, good, name, value

\* A list of two entries of different names, both expected, has both of them.
LEMMA BothIn ==
  ASSUME NEW m \in Nat, NEW name,
         \A j \in 1..m : \A k \in 1..(j - 1) : name[k] # name[j]
  PROVE  {name[j] : j \in 1..m} = Inventories!Expected <=>
         m = 2 /\ \A n \in Inventories!Expected : \E i \in 1..2 : name[i] = n
<1> USE DEF Inventories!Expected
<1>1. ASSUME {name[j] : j \in 1..m} = Inventories!Expected PROVE m = 2
  <2>1. \A j \in 1..m : name[j] \in {"wheel", "sdist"} BY <1>1
  <2>2. ~(m >= 3)
    <3>1. SUFFICES ASSUME m >= 3 PROVE FALSE OBVIOUS
    <3>2. 1 \in 1..m /\ 2 \in 1..m /\ 3 \in 1..m BY <3>1
    <3>3. name[1] # name[2] /\ name[1] # name[3] /\ name[2] # name[3] BY <3>2
    <3> QED BY <2>1, <3>2, <3>3
  <2>3. PICK a \in 1..m : name[a] = "wheel" BY <1>1
  <2>4. PICK b \in 1..m : name[b] = "sdist" BY <1>1
  <2>5. a # b BY <2>3, <2>4
  <2> QED BY <2>2, <2>5
<1>2. ASSUME m = 2 PROVE {name[j] : j \in 1..m} = Inventories!Expected <=>
                         \A n \in Inventories!Expected : \E i \in 1..2 : name[i] = n
  <2>1. 1..m = {1, 2} BY <1>2
  <2>2. {name[j] : j \in 1..m} = {name[1], name[2]} BY <2>1
  <2>3. name[1] # name[2] BY <1>2
  <2> QED BY <2>1, <2>2, <2>3, <1>2
<1> QED BY <1>1, <1>2

\* verify() accepts exactly what it should.
LEMMA VerifyIsExact ==
  ASSUME Filed, Inventories!Verify
  PROVE  verdict' = "verified" <=>
           /\ Inventories!Present = Inventories!Expected \cup {"sums"} /\ Len(lines) = 2
           /\ \A n \in Inventories!Expected : \E i \in 1..2 : lines[i] = Inventories!Line(directory[n], n)
<1> DEFINE m == Len(lines)
           good == [j \in 1..m |-> lines[j] # Inventories!Malformed]
           name == [j \in 1..m |-> lines[j].name]
           value == [j \in 1..m |-> lines[j].digest]
<1>1. m \in Nat /\ lines \in Seq(Entries) BY DEF Filed
<1>2. PICK p : Inventories!Parsed = p[m] /\ Holds(p, m, TRUE, good, name, value) BY <1>1, ParsedIs
<1> DEFINE q == Inventories!Parsed
<1>3. verdict' = "verified" <=>
        /\ Inventories!Present = Inventories!Expected \cup {"sums"} /\ q.ok
        /\ DOMAIN q.files = Inventories!Expected
        /\ \A n \in Inventories!Expected : directory[n] = q.files[n]
  BY DEF Inventories!Verify
<1> HIDE DEF q
<1>4. /\ q.ok <=> Distinct(m, good, name)
      /\ q.ok => /\ DOMAIN q.files = {name[j] : j \in 1..m}
                 /\ \A j \in 1..m : q.files[name[j]] = value[j]
  BY <1>2 DEF Holds, q
<1>5. \A j \in 1..m : good[j] = (lines[j] # Inventories!Malformed) /\ name[j] = lines[j].name
                      /\ value[j] = lines[j].digest
  OBVIOUS
<1>6. \A j \in 1..m : lines[j] = Inventories!Line(lines[j].digest, lines[j].name)
  <2>1. SUFFICES ASSUME NEW j \in 1..m PROVE lines[j] = Inventories!Line(lines[j].digest, lines[j].name)
    OBVIOUS
  <2>2. lines[j] \in Entries BY <1>1
  <2> QED BY <2>2 DEF Entries, Inventories!Line
<1> HIDE DEF m, good, name, value
<1>7. ASSUME Inventories!Present = Inventories!Expected \cup {"sums"}, verdict' = "verified"
      PROVE  m = 2 /\ \A n \in Inventories!Expected : \E i \in 1..2 : lines[i] = Inventories!Line(directory[n], n)
  <2>1. Distinct(m, good, name) /\ {name[j] : j \in 1..m} = Inventories!Expected BY <1>3, <1>4, <1>7
  <2>2. m = 2 /\ \A n \in Inventories!Expected : \E i \in 1..2 : name[i] = n
    <3>1. \A j \in 1..m : \A k \in 1..(j - 1) : name[k] # name[j] BY <2>1 DEF Distinct
    <3> QED BY <1>1, <2>1, <3>1, BothIn
  <2>3. ASSUME NEW n \in Inventories!Expected PROVE \E i \in 1..2 : lines[i] = Inventories!Line(directory[n], n)
    <3>1. PICK i \in 1..2 : name[i] = n BY <2>2
    <3>2. i \in 1..m BY <2>2
    <3>3. value[i] = directory[n] BY <1>3, <1>4, <1>7, <3>1, <3>2
    <3> QED BY <1>5, <1>6, <3>1, <3>2, <3>3
  <2> QED BY <2>2, <2>3
<1>8. ASSUME Inventories!Present = Inventories!Expected \cup {"sums"}, m = 2,
             \A n \in Inventories!Expected : \E i \in 1..2 : lines[i] = Inventories!Line(directory[n], n)
      PROVE  verdict' = "verified"
  <2>1. \A n \in Inventories!Expected : directory[n] \in Contents
    BY <1>8 DEF Filed, Inventories!Present
  <2>2. PICK a \in 1..2 : lines[a] = Inventories!Line(directory["wheel"], "wheel")
    BY <1>8 DEF Inventories!Expected
  <2>3. PICK b \in 1..2 : lines[b] = Inventories!Line(directory["sdist"], "sdist")
    BY <1>8 DEF Inventories!Expected
  <2>4. /\ lines[a].name = "wheel" /\ lines[a].digest = directory["wheel"]
        /\ lines[b].name = "sdist" /\ lines[b].digest = directory["sdist"]
    BY <2>2, <2>3 DEF Inventories!Line
  <2>5. lines[a] # Inventories!Malformed /\ lines[b] # Inventories!Malformed
    <3>1. directory["wheel"] # "malformed" BY <2>1, InventoryAssumption DEF Inventories!Expected
    <3>2. Inventories!Malformed.digest = "malformed" /\ Inventories!Malformed.name = "wheel"
      BY DEF Inventories!Malformed, Inventories!Line
    <3> QED BY <2>4, <3>1, <3>2
  <2>6. a # b /\ {a, b} = {1, 2} /\ 1..m = {a, b} BY <2>4, <1>8
  <2>7. name[a] = "wheel" /\ name[b] = "sdist" /\ good[a] /\ good[b]
        /\ value[a] = directory["wheel"] /\ value[b] = directory["sdist"]
    BY <1>5, <2>4, <2>5, <2>6
  <2>8. Distinct(m, good, name)
    <3>1. \A j \in 1..m : good[j] BY <2>6, <2>7
    <3>2. \A j, k \in 1..m : j # k => name[j] # name[k] BY <2>6, <2>7
    <3>3. \A j \in 1..m : \A k \in 1..(j - 1) : k \in 1..m /\ j # k BY <1>8
    <3> QED BY <3>1, <3>2, <3>3 DEF Distinct
  <2>9. {name[j] : j \in 1..m} = Inventories!Expected
    <3>1. {name[j] : j \in 1..m} = {name[a], name[b]} BY <2>6
    <3> QED BY <3>1, <2>7 DEF Inventories!Expected
  <2>10. q.files["wheel"] = directory["wheel"] /\ q.files["sdist"] = directory["sdist"]
    BY <1>4, <2>6, <2>7, <2>8
  <2> QED BY <1>3, <1>4, <1>8, <2>8, <2>9, <2>10 DEF Inventories!Expected
<1> QED BY <1>3, <1>7, <1>8 DEF m

\* An entry of PyPI's list that counts.
Good(item) ==
  item.name \in Inventories!Expected /\ item.type = item.name /\ item.content # "invalid" /\ ~item.yanked

\* PyPI's list is read into a dictionary likewise, invalid if it has not two entries.
LEMMA PublishedHolds ==
  ASSUME NEW urls \in Seq(Inventories!Items)
  PROVE  \E p : /\ Inventories!PublishedFiles(urls) = p[Len(urls)]
                /\ Holds(p, Len(urls), Len(urls) = 2, [j \in 1..Len(urls) |-> Good(urls[j])],
                         [j \in 1..Len(urls) |-> urls[j].name], [j \in 1..Len(urls) |-> urls[j].content])
<1> DEFINE n == Len(urls)
           good == [j \in 1..n |-> Good(urls[j])]
           name == [j \in 1..n |-> urls[j].name]
           value == [j \in 1..n |-> urls[j].content]
<1>1. n \in Nat OBVIOUS
<1>2. PICK p : /\ Inventories!PublishedFiles(urls) = p[n]
               /\ p = [i \in 0..n |-> IF i = 0 THEN [Inventories!Nothing EXCEPT !.ok = (n = 2)]
                                      ELSE Inventories!Publishes(p[i - 1], urls[i])]
  BY <1>1, PublishedIs
<1>3. good \in [1..n -> BOOLEAN]
  <2>1. \A j \in 1..n : Good(urls[j]) \in BOOLEAN BY DEF Good
  <2> QED BY <2>1
<1>4. p[0] = [ok |-> (n = 2), files |-> [x \in {} |-> "none"]]
  <2>1. p[0] = [Inventories!Nothing EXCEPT !.ok = (n = 2)] BY <1>1, <1>2
  <2> QED BY <2>1 DEF Inventories!Nothing
<1>5. ASSUME NEW i \in 1..n
      PROVE  p[i] = IF good[i] /\ name[i] \notin DOMAIN p[i - 1].files
                    THEN [p[i - 1] EXCEPT !.files = Inventories!Put(@, name[i], value[i])]
                    ELSE [p[i - 1] EXCEPT !.ok = FALSE]
  <2>1. p[i] = Inventories!Publishes(p[i - 1], urls[i])
    <3>1. i \in 0..n /\ i # 0 BY <1>1
    <3> QED BY <1>2, <3>1
  <2>2. good[i] = Good(urls[i]) BY <1>1
  <2>3. name[i] = urls[i].name /\ value[i] = urls[i].content BY <1>1
  <2> HIDE DEF good, name, value
  <2> QED BY <2>1, <2>2, <2>3 DEF Inventories!Publishes, Good
<1>6. (n = 2) \in BOOLEAN OBVIOUS
<1> HIDE DEF good, name, value
<1>7. Builds(p, n, n = 2, good, name, value) BY <1>4, <1>5 DEF Builds
<1>8. Holds(p, n, n = 2, good, name, value) BY <1>1, <1>3, <1>6, <1>7, DictionaryIs
<1> QED BY <1>2, <1>8 DEF good, name, value

\* An item is good exactly if it is one of its name and content.
LEMMA GoodIs ==
  ASSUME NEW item \in Inventories!Items, NEW n, NEW c
  PROVE  Good(item) /\ item.name = n /\ item.content = c <=>
         n \in Inventories!Expected /\ c # "invalid" /\ item = Inventories!Item(n, c)
<1>1. \E a, b, d, e : item = [name |-> a, type |-> b, content |-> d, yanked |-> e] /\ e \in BOOLEAN
  <2>1. CASE item \in {Inventories!Item(a, d) : a \in Inventories!Expected \cup {"other"},
                                               d \in Contents \cup {"invalid"}}
    <3>1. PICK a, d : item = Inventories!Item(a, d) BY <2>1
    <3>2. item = [name |-> a, type |-> a, content |-> d, yanked |-> FALSE] BY <3>1 DEF Inventories!Item
    <3> QED BY <3>2
  <2>2. CASE item \in {[Inventories!Item("wheel", d) EXCEPT !.type = "sdist"] : d \in Contents}
    BY <2>2 DEF Inventories!Item
  <2>3. CASE item \in {[Inventories!Item("wheel", d) EXCEPT !.yanked = TRUE] : d \in Contents}
    BY <2>3 DEF Inventories!Item
  <2> QED BY <2>1, <2>2, <2>3 DEF Inventories!Items
<1>2. PICK a, b, d, e : item = [name |-> a, type |-> b, content |-> d, yanked |-> e] /\ e \in BOOLEAN BY <1>1
<1>3. item.name = a /\ item.type = b /\ item.content = d /\ item.yanked = e BY <1>2
<1>4. Inventories!Item(n, c) = [name |-> n, type |-> n, content |-> c, yanked |-> FALSE] BY DEF Inventories!Item
<1>5. item = Inventories!Item(n, c) <=> a = n /\ b = n /\ d = c /\ e = FALSE
  <2>1. ASSUME item = Inventories!Item(n, c) PROVE a = n /\ b = n /\ d = c /\ e = FALSE
    <3>1. item.name = n /\ item.type = n /\ item.content = c /\ item.yanked = FALSE BY <1>4, <2>1
    <3> QED BY <1>3, <3>1
  <2>2. ASSUME a = n, b = n, d = c, e = FALSE PROVE item = Inventories!Item(n, c)
    BY <1>2, <1>4, <2>2
  <2> QED BY <2>1, <2>2
<1> QED BY <1>2, <1>3, <1>5 DEF Good

\* verify_pypi_release accepts exactly what it should.
LEMMA PyPIIsRead ==
  ASSUME Filed, Inventories!VerifyPyPI
  PROVE  verdict' = "matches" <=>
           /\ Inventories!Present = Inventories!Expected /\ Len(metadata') = 2
           /\ \A n \in Inventories!Expected : \E i \in 1..2 : metadata'[i] = Inventories!Item(n, directory[n])
<1> DEFINE urls == metadata'
           m == Len(urls)
           good == [j \in 1..m |-> Good(urls[j])]
           name == [j \in 1..m |-> urls[j].name]
           value == [j \in 1..m |-> urls[j].content]
           q == Inventories!PublishedFiles(urls)
<1>1. urls \in Seq(Inventories!Items)
  <2>1. PICK k \in 0..MaxItems : metadata' \in [1..k -> Inventories!Items]
    BY DEF Inventories!VerifyPyPI
  <2> QED BY <2>1
<1>2. verdict' = "matches" <=>
        /\ q.ok /\ DOMAIN q.files = Inventories!Expected
        /\ Inventories!Present = Inventories!Expected
        /\ \A n \in Inventories!Expected : directory[n] = q.files[n]
  BY DEF Inventories!VerifyPyPI
<1> HIDE DEF urls, q
<1>3. m \in Nat BY <1>1
<1>4. PICK p : q = p[m] /\ Holds(p, m, m = 2, good, name, value) BY <1>1, PublishedHolds DEF q
<1>5. /\ q.ok <=> m = 2 /\ Distinct(m, good, name)
      /\ q.ok => /\ DOMAIN q.files = {name[j] : j \in 1..m}
                 /\ \A j \in 1..m : q.files[name[j]] = value[j]
  BY <1>4 DEF Holds
<1>6. \A j \in 1..m : good[j] = Good(urls[j]) /\ name[j] = urls[j].name /\ value[j] = urls[j].content
                      /\ urls[j] \in Inventories!Items
  BY <1>1
<1> HIDE DEF m, good, name, value
<1>7. ASSUME verdict' = "matches"
      PROVE  m = 2 /\ \A n \in Inventories!Expected : \E i \in 1..2 : urls[i] = Inventories!Item(n, directory[n])
  <2>1. m = 2 /\ Distinct(m, good, name) /\ {name[j] : j \in 1..m} = Inventories!Expected BY <1>2, <1>5, <1>7
  <2>2. ASSUME NEW n \in Inventories!Expected PROVE \E i \in 1..2 : urls[i] = Inventories!Item(n, directory[n])
    <3>1. PICK i \in 1..m : name[i] = n BY <2>1
    <3>2. value[i] = directory[n] BY <1>2, <1>5, <1>7, <3>1
    <3>3. Good(urls[i]) BY <1>6, <2>1, <3>1 DEF Distinct
    <3>4. urls[i] = Inventories!Item(n, directory[n]) BY <1>6, <3>1, <3>2, <3>3, GoodIs
    <3> QED BY <2>1, <3>1, <3>4
  <2> QED BY <2>1, <2>2
<1>8. ASSUME Inventories!Present = Inventories!Expected, m = 2,
             \A n \in Inventories!Expected : \E i \in 1..2 : urls[i] = Inventories!Item(n, directory[n])
      PROVE  verdict' = "matches"
  <2>1. \A n \in Inventories!Expected : directory[n] \in Contents /\ directory[n] # "invalid"
    BY <1>8, InventoryAssumption DEF Filed, Inventories!Present
  <2>2. \A n \in Inventories!Expected : \E i \in 1..m : Good(urls[i]) /\ name[i] = n /\ value[i] = directory[n]
    <3>1. SUFFICES ASSUME NEW n \in Inventories!Expected
                   PROVE  \E i \in 1..m : Good(urls[i]) /\ name[i] = n /\ value[i] = directory[n]
      OBVIOUS
    <3>2. PICK i \in 1..2 : urls[i] = Inventories!Item(n, directory[n]) BY <1>8
    <3>3. i \in 1..m /\ urls[i] \in Inventories!Items BY <1>6, <1>8
    <3>4. Good(urls[i]) /\ urls[i].name = n /\ urls[i].content = directory[n]
      BY <2>1, <3>2, <3>3, GoodIs
    <3> QED BY <1>6, <3>3, <3>4
  <2>3. PICK a \in 1..m : Good(urls[a]) /\ name[a] = "wheel" /\ value[a] = directory["wheel"]
    BY <2>2 DEF Inventories!Expected
  <2>4. PICK b \in 1..m : Good(urls[b]) /\ name[b] = "sdist" /\ value[b] = directory["sdist"]
    BY <2>2 DEF Inventories!Expected
  <2>5. a # b /\ 1..m = {a, b} BY <1>8, <2>3, <2>4
  <2>6. Distinct(m, good, name)
    <3>1. \A j \in 1..m : good[j] BY <1>6, <2>3, <2>4, <2>5
    <3>2. \A j, k \in 1..m : j # k => name[j] # name[k] BY <2>3, <2>4, <2>5
    <3>3. \A j \in 1..m : \A k \in 1..(j - 1) : k \in 1..m /\ j # k BY <1>8
    <3> QED BY <3>1, <3>2, <3>3 DEF Distinct
  <2>7. {name[j] : j \in 1..m} = Inventories!Expected
    <3>1. {name[j] : j \in 1..m} = {name[a], name[b]} BY <2>5
    <3> QED BY <3>1, <2>3, <2>4 DEF Inventories!Expected
  <2>8. q.files["wheel"] = directory["wheel"] /\ q.files["sdist"] = directory["sdist"]
    BY <1>5, <1>8, <2>3, <2>4, <2>6
  <2> QED BY <1>2, <1>5, <1>8, <2>6, <2>7, <2>8 DEF Inventories!Expected
<1> QED BY <1>2, <1>7, <1>8 DEF m, urls

\* What was written is accepted.
LEMMA FiledIsAccepted == Filed => Inventories!WrittenIsAccepted
<1> SUFFICES ASSUME Filed, verdict = "written" PROVE
      /\ Inventories!Present = Inventories!Expected \cup {"sums"}
      /\ Inventories!Parsed = [ok |-> TRUE, files |-> [n \in Inventories!Expected |-> directory[n]]]
  BY DEF Inventories!WrittenIsAccepted
<1> DEFINE good == [j \in 1..Len(lines) |-> lines[j] # Inventories!Malformed]
           name == [j \in 1..Len(lines) |-> lines[j].name]
           value == [j \in 1..Len(lines) |-> lines[j].digest]
           q == Inventories!Parsed
<1>1. /\ lines \in Seq(Entries) /\ Inventories!Present = Inventories!Expected \cup {"sums"}
      /\ lines = <<Inventories!Line(directory["sdist"], "sdist"), Inventories!Line(directory["wheel"], "wheel")>>
  BY DEF Filed
<1>2. Len(lines) = 2 BY <1>1
<1>3. PICK p : q = p[2] /\ Holds(p, 2, TRUE, good, name, value) BY <1>1, <1>2, ParsedIs
<1> HIDE DEF q, good, name, value
<1>4. directory["wheel"] # "malformed"
  <2>1. "wheel" \in DOMAIN directory BY <1>1 DEF Inventories!Present, Inventories!Expected
  <2>2. directory["wheel"] \in Contents BY <2>1 DEF Filed, Inventories!Expected
  <2> QED BY <2>2, InventoryAssumption
<1>5. /\ lines[1] = [digest |-> directory["sdist"], name |-> "sdist"]
      /\ lines[2] = [digest |-> directory["wheel"], name |-> "wheel"]
      /\ Inventories!Malformed = [digest |-> "malformed", name |-> "wheel"]
  BY <1>1 DEF Inventories!Line, Inventories!Malformed
<1>6. lines[1].name = "sdist" /\ lines[2].name = "wheel" /\ lines[2].digest = directory["wheel"]
      /\ lines[1].digest = directory["sdist"] /\ Inventories!Malformed.name = "wheel"
      /\ Inventories!Malformed.digest = "malformed"
  <2>1. lines[1].name = "sdist" /\ lines[1].digest = directory["sdist"] BY <1>5
  <2>2. lines[2].name = "wheel" /\ lines[2].digest = directory["wheel"] BY <1>5
  <2>3. Inventories!Malformed.name = "wheel" /\ Inventories!Malformed.digest = "malformed" BY <1>5
  <2> QED BY <2>1, <2>2, <2>3
<1>7. /\ good[1] /\ good[2] /\ name[1] = "sdist" /\ name[2] = "wheel"
      /\ value[1] = directory["sdist"] /\ value[2] = directory["wheel"]
  <2>1. lines[1] # Inventories!Malformed /\ lines[2] # Inventories!Malformed BY <1>4, <1>6
  <2>2. 1 \in 1..Len(lines) /\ 2 \in 1..Len(lines) BY <1>2
  <2> QED BY <1>6, <2>1, <2>2 DEF good, name, value
<1>8. 1..2 = {1, 2} OBVIOUS
<1>9. Distinct(2, good, name)
  <2>1. \A j \in 1..2 : good[j] BY <1>7, <1>8
  <2>2. \A j \in 1..2 : \A k \in 1..(j - 1) : k = 1 /\ j = 2 OBVIOUS
  <2> QED BY <1>7, <2>1, <2>2 DEF Distinct
<1>10. /\ q = [ok |-> q.ok, files |-> q.files] /\ q.files = [x \in DOMAIN q.files |-> q.files[x]]
       /\ q.ok = TRUE /\ DOMAIN q.files = {name[j] : j \in 1..2} /\ \A j \in 1..2 : q.files[name[j]] = value[j]
  BY <1>3, <1>9 DEF Holds
<1>11. DOMAIN q.files = Inventories!Expected
  <2>1. {name[j] : j \in 1..2} = {name[1], name[2]} BY <1>8
  <2> QED BY <1>7, <1>10, <2>1 DEF Inventories!Expected
<1>12. \A n \in Inventories!Expected : q.files[n] = directory[n]
  BY <1>7, <1>8, <1>10 DEF Inventories!Expected
<1>13. q.files = [n \in Inventories!Expected |-> directory[n]] BY <1>10, <1>11, <1>12
<1> QED BY <1>1, <1>10, <1>13 DEF q

\* The states of Init satisfy the invariant.
LEMMA InventoriesInit == Inventories!Init => Filed
<1> SUFFICES ASSUME Inventories!Init PROVE Filed OBVIOUS
<1>1. /\ directory \in [Inventories!Expected -> Contents] /\ lines = <<>> /\ verdict = "none"
  BY DEF Inventories!Init
<1>2. <<>> \in Seq(Entries) OBVIOUS
<1> QED BY <1>1, <1>2 DEF Filed, Inventories!Names

\* What the tools and anybody else do keeps it.
LEMMA InventoriesNext == ASSUME Filed, Inventories!Next \/ UNCHANGED inventoryVars PROVE Filed'
<1>1. CASE Inventories!Write
  <2>1. CASE Inventories!Inventory
    <3>1. /\ directory' = Inventories!Put(directory, "sums", "lines") /\ verdict' = "written"
          /\ lines' = <<Inventories!Line(directory["sdist"], "sdist"),
                        Inventories!Line(directory["wheel"], "wheel")>>
      BY <1>1, <2>1 DEF Inventories!Write
    <3>2. DOMAIN directory' = DOMAIN directory \cup {"sums"}
          /\ \A n \in DOMAIN directory : n # "sums" => directory'[n] = directory[n]
      BY <3>1 DEF Inventories!Put
    <3>3. "sdist" \in DOMAIN directory /\ "wheel" \in DOMAIN directory
      BY <2>1 DEF Inventories!Inventory, Inventories!Present, Inventories!Expected
    <3>4. directory["sdist"] \in Contents /\ directory["wheel"] \in Contents
      BY <3>3 DEF Filed, Inventories!Expected
    <3>5. directory'["sdist"] = directory["sdist"] /\ directory'["wheel"] = directory["wheel"] BY <3>2, <3>3
    <3>6. /\ Inventories!Line(directory["sdist"], "sdist") \in Entries
          /\ Inventories!Line(directory["wheel"], "wheel") \in Entries
      <4>1. /\ Inventories!Line(directory["sdist"], "sdist") = [digest |-> directory["sdist"], name |-> "sdist"]
            /\ Inventories!Line(directory["wheel"], "wheel") = [digest |-> directory["wheel"], name |-> "wheel"]
        BY DEF Inventories!Line
      <4> QED BY <3>4, <4>1 DEF Entries, Inventories!Expected
    <3>7. lines' \in Seq(Entries) BY <3>1, <3>6
    <3>8. Inventories!Present' = Inventories!Expected \cup {"sums"}
      BY <2>1, <3>2 DEF Inventories!Inventory, Inventories!Present
    <3> QED BY <3>1, <3>2, <3>3, <3>4, <3>5, <3>7, <3>8 DEF Filed, Inventories!Expected, Inventories!Names,
                                                          Inventories!Present
  <2>2. CASE ~Inventories!Inventory
    <3>1. verdict' = "error" /\ UNCHANGED <<directory, lines>> BY <1>1, <2>2 DEF Inventories!Write
    <3> QED BY <3>1 DEF Filed
  <2> QED BY <2>1, <2>2
<1>2. CASE Inventories!Verify \/ Inventories!VerifyPyPI
  <2>1. verdict' # "written" /\ UNCHANGED <<directory, lines>>
    BY <1>2 DEF Inventories!Verify, Inventories!VerifyPyPI
  <2> QED BY <2>1 DEF Filed
<1>3. CASE Inventories!Alter
  <2>1. verdict' = "none" /\ Inventories!Altered BY <1>3 DEF Inventories!Alter
  <2>2. ASSUME NEW n \in Inventories!Names,
               NEW c \in {"gone"} \cup IF n = "sums" THEN {"lines"} ELSE Contents,
               directory' = IF c = "gone" THEN [m \in Inventories!Present \ {n} |-> directory[m]]
                            ELSE Inventories!Put(directory, n, c),
               lines' = IF n = "sums" THEN <<>> ELSE lines
        PROVE  Filed'
    <3>1. lines' \in Seq(Entries) BY <2>2 DEF Filed
    <3>2. CASE c = "gone"
      <4>1. directory' = [m \in DOMAIN directory \ {n} |-> directory[m]] BY <2>2, <3>2 DEF Inventories!Present
      <4> QED BY <2>1, <3>1, <4>1 DEF Filed
    <3>3. CASE c # "gone"
      <4>1. directory' = [m \in DOMAIN directory \cup {n} |-> IF m = n THEN c ELSE directory[m]]
        BY <2>2, <3>3 DEF Inventories!Put
      <4>2. n \in Inventories!Expected => c \in Contents BY <2>2, <3>3 DEF Inventories!Expected
      <4> QED BY <2>1, <2>2, <3>1, <4>1, <4>2 DEF Filed
    <3> QED BY <3>2, <3>3
  <2>3. ASSUME NEW i \in 1..Len(lines), UNCHANGED directory,
               lines' = SubSeq(lines, 1, i - 1) \o SubSeq(lines, i + 1, Len(lines))
        PROVE  Filed'
    <3>1. lines \in Seq(Entries) BY DEF Filed
    <3>2. SubSeq(lines, 1, i - 1) \in Seq(Entries) /\ SubSeq(lines, i + 1, Len(lines)) \in Seq(Entries)
      BY <3>1
    <3>3. lines' \in Seq(Entries) BY <2>3, <3>2
    <3> QED BY <2>1, <2>3, <3>3 DEF Filed
  <2>4. ASSUME UNCHANGED directory,
               NEW line \in {Inventories!Malformed} \cup
                 {Inventories!Line(c, n) : c \in Contents, n \in Inventories!Expected \cup {"other"}},
               lines' = Append(lines, line)
        PROVE  Filed'
    <3>1. line \in Entries
      <4>1. CASE line = Inventories!Malformed
        BY <4>1 DEF Entries, Inventories!Malformed, Inventories!Line, Inventories!Expected
      <4>2. CASE line # Inventories!Malformed
        <5>1. PICK c \in Contents, n \in Inventories!Expected \cup {"other"} : line = Inventories!Line(c, n)
          BY <2>4, <4>2
        <5> QED BY <5>1 DEF Entries, Inventories!Line
      <4> QED BY <4>1, <4>2
    <3>2. lines' \in Seq(Entries) BY <2>4, <3>1 DEF Filed
    <3> QED BY <2>1, <2>4, <3>2 DEF Filed
  <2>5. CASE Inventories!ChangesFile
    <3>1. PICK n \in Inventories!Names :
            \E c \in {"gone"} \cup IF n = "sums" THEN {"lines"} ELSE Contents :
              /\ directory' = IF c = "gone" THEN [m \in Inventories!Present \ {n} |-> directory[m]]
                              ELSE Inventories!Put(directory, n, c)
              /\ lines' = IF n = "sums" THEN <<>> ELSE lines
      BY <2>5 DEF Inventories!ChangesFile
    <3> QED BY <2>2, <3>1
  <2>6. CASE Inventories!DropsLine
    <3>1. PICK i \in 1..Len(lines) : lines' = SubSeq(lines, 1, i - 1) \o SubSeq(lines, i + 1, Len(lines))
      BY <2>6 DEF Inventories!DropsLine
    <3>2. UNCHANGED directory BY <2>6 DEF Inventories!DropsLine
    <3> QED BY <2>3, <3>1, <3>2
  <2>7. CASE Inventories!AddsLine
    <3>1. PICK line \in {Inventories!Malformed} \cup
                          {Inventories!Line(c, n) : c \in Contents, n \in Inventories!Expected \cup {"other"}} :
            lines' = Append(lines, line)
      BY <2>7 DEF Inventories!AddsLine
    <3>2. UNCHANGED directory BY <2>7 DEF Inventories!AddsLine
    <3> QED BY <2>4, <3>1, <3>2
  <2> QED BY <2>1, <2>5, <2>6, <2>7 DEF Inventories!Altered
<1>4. CASE UNCHANGED inventoryVars BY <1>4 DEF inventoryVars, Filed, Inventories!Present
<1> QED BY <1>1, <1>2, <1>3, <1>4 DEF Inventories!Next

\* The checksum file and PyPI's list are accepted exactly if they describe the two
\* distributions, however many lines and entries they have and whatever anybody changes.
THEOREM InventoriesStayExact == AllSpec => InventoriesAreExact
<1>1. AllInit => Filed BY InventoriesInit DEF AllInit
<1>2. Filed /\ [AllNext]_allVars => Filed' BY StepOfEach, InventoriesNext
<1>3. Filed => Inventories!WrittenIsAccepted BY FiledIsAccepted
<1>4. Filed /\ [AllNext]_allVars =>
        [Inventories!Verify => (verdict' = "verified" <=>
           /\ Inventories!Present = Inventories!Expected \cup {"sums"} /\ Len(lines) = 2
           /\ \A n \in Inventories!Expected : \E i \in 1..2 :
                lines[i] = Inventories!Line(directory[n], n))]_Inventories!vars
  BY VerifyIsExact
<1>5. Filed /\ [AllNext]_allVars =>
        [Inventories!VerifyPyPI => (verdict' = "matches" <=>
           /\ Inventories!Present = Inventories!Expected /\ Len(metadata') = 2
           /\ \A n \in Inventories!Expected : \E i \in 1..2 :
                metadata'[i] = Inventories!Item(n, directory[n]))]_Inventories!vars
  BY PyPIIsRead
<1>6. AllSpec => []Filed BY <1>1, <1>2, PTL DEF AllSpec
<1>7. AllSpec => Inventories!ChecksumsAreExact BY <1>4, <1>6, PTL DEF AllSpec, Inventories!ChecksumsAreExact
<1>8. AllSpec => Inventories!PyPIIsExact BY <1>5, <1>6, PTL DEF AllSpec, Inventories!PyPIIsExact
<1>9. AllSpec => []Inventories!WrittenIsAccepted BY <1>3, <1>6, PTL
<1> QED BY <1>7, <1>8, <1>9 DEF InventoriesAreExact

(***************************************************************************)
(* The managed section of the body (PullRequestBody).                      *)
(***************************************************************************)
\* The tokens of a text.  (That a literal is a STRING is not known to the provers.)
Token == STRING \cup {"start", "end"}

\* What the author writes is a text.
LEMMA StringsAreTexts == \A t \in Seq(STRING) : t \in Seq(Token)
<1>1. STRING \subseteq Token BY DEF Token
<1> QED BY <1>1, SeqMonotonic

\* A text with neither marker.
Unmarked(t) ==
  t \in Seq(Token) /\ PullRequest!Places(t, "start") = {} /\ PullRequest!Places(t, "end") = {}

\* The places of a token are counted by numbers, 0 if it occurs nowhere.
LEMMA PlacesCount ==
  ASSUME NEW t \in Seq(Token), NEW token
  PROVE  /\ PullRequest!Places(t, token) \subseteq 1..Len(t)
         /\ PullRequest!Count(t, token) \in Nat
         /\ PullRequest!Count(t, token) = 0 <=> PullRequest!Places(t, token) = {}
         /\ PullRequest!Count(t, token) = 1 <=> \E i : PullRequest!Places(t, token) = {i}
<1> DEFINE S == PullRequest!Places(t, token)
<1>1. Len(t) \in Nat /\ DOMAIN t = 1..Len(t) BY LenProperties
<1>2. S \subseteq 1..Len(t) BY <1>1 DEF PullRequest!Places
<1>3. IsFiniteSet(S)
  <2>1. IsFiniteSet(1..Len(t)) BY <1>1, FS_Interval
  <2> QED BY <2>1, <1>2, FS_Subset
<1>4. PullRequest!Count(t, token) = Cardinality(S)
  BY DEF PullRequest!Count, PullRequest!Cardinality, Cardinality
<1> HIDE DEF S
<1>5. Cardinality(S) \in Nat BY <1>3, FS_CardinalityType
<1>6. Cardinality(S) = 0 <=> S = {} BY <1>3, FS_EmptySet
<1>7. Cardinality(S) = 1 <=> \E i : S = {i} BY <1>3, FS_Singleton
<1> QED BY <1>2, <1>4, <1>5, <1>6, <1>7 DEF S

\* A text of one token.
LEMMA OneToken ==
  ASSUME NEW S, NEW token \in S
  PROVE  <<token>> \in Seq(S) /\ Len(<<token>>) = 1 /\ <<token>>[1] = token
OBVIOUS

\* Two texts in one: the second begins where the first ends.
LEMMA Joined ==
  ASSUME NEW p \in Seq(Token), NEW q \in Seq(Token)
  PROVE  /\ Len(p) \in Nat /\ Len(q) \in Nat
         /\ p \o q \in Seq(Token) /\ Len(p \o q) = Len(p) + Len(q)
         /\ \A k \in 1..Len(p) : (p \o q)[k] = p[k]
         /\ \A k \in 1..Len(q) : (p \o q)[k + Len(p)] = q[k]
<1>1. Len(p) \in Nat /\ Len(q) \in Nat BY LenProperties
<1>2. /\ p \o q \in Seq(Token) /\ Len(p \o q) = Len(p) + Len(q)
      /\ \A k \in 1..Len(p) + Len(q) : (p \o q)[k] = IF k <= Len(p) THEN p[k] ELSE q[k - Len(p)]
  BY ConcatProperties
<1>3. ASSUME NEW k \in 1..Len(p) PROVE (p \o q)[k] = p[k] BY <1>1, <1>2
<1>4. ASSUME NEW k \in 1..Len(q) PROVE (p \o q)[k + Len(p)] = q[k]
  <2>1. k + Len(p) \in 1..Len(p) + Len(q) /\ ~(k + Len(p) <= Len(p)) /\ (k + Len(p)) - Len(p) = k
    BY <1>1
  <2> QED BY <1>2, <2>1
<1> QED BY <1>1, <1>2, <1>3, <1>4

\* What is cut out of a text.
LEMMA CutOut ==
  ASSUME NEW t \in Seq(Token), NEW m \in Nat, NEW n \in Nat, m <= n, n <= Len(t)
  PROVE  /\ SubSeq(t, m + 1, n) \in Seq(Token) /\ Len(SubSeq(t, m + 1, n)) = n - m
         /\ DOMAIN SubSeq(t, m + 1, n) = 1..(n - m)
         /\ \A k \in 1..(n - m) : SubSeq(t, m + 1, n)[k] = t[k + m]
<1>1. Len(t) \in Nat BY LenProperties
<1>2. \A k \in (m + 1)..n : t[k] \in Token BY <1>1, ElementOfSeq
<1> DEFINE c == SubSeq(t, m + 1, n)
<1>3. /\ c \in Seq(Token) /\ Len(c) = IF m + 1 <= n THEN n - (m + 1) + 1 ELSE 0
      /\ \A k \in 1..n - (m + 1) + 1 : c[k] = t[(m + 1) + k - 1]
  BY <1>2, SubSeqProperties
<1> HIDE DEF c
<1>4. Len(c) = n - m BY <1>3
<1>5. DOMAIN c = 1..(n - m) BY <1>3, <1>4, LenProperties
<1>6. ASSUME NEW k \in 1..(n - m) PROVE c[k] = t[k + m]
  <2>1. k \in 1..n - (m + 1) + 1 /\ (m + 1) + k - 1 = k + m OBVIOUS
  <2> QED BY <1>3, <2>1
<1> QED BY <1>3, <1>4, <1>5, <1>6 DEF c

\* The first of some places is one of them.
LEMMA FirstIsPlace ==
  ASSUME NEW S \in SUBSET Nat
  PROVE  S # {} => PullRequest!First(S) \in S
<1> SUFFICES ASSUME S # {} PROVE PullRequest!First(S) \in S OBVIOUS
<1>1. PICK m \in S : \A k \in S : m <= k BY Least
<1>2. PullRequest!First(S) = CHOOSE i \in S : \A j \in S : i <= j BY DEF PullRequest!First
<1> QED BY <1>1, <1>2

\* Of one place, it is that.
LEMMA FirstOfOne == ASSUME NEW i \in Nat PROVE PullRequest!First({i}) = i
BY FirstIsPlace

\* A section that is not refused holds no marker.
LEMMA SectionIsUnmarked ==
  ASSUME NEW changelog \in Seq([bullet : BOOLEAN, text : Seq(STRING)]),
         PullRequest!LatestSection(changelog) # PullRequest!Refused
  PROVE  Unmarked(PullRequest!LatestSection(changelog))
<1> DEFINE S == {j \in DOMAIN changelog : changelog[j].bullet}
           i == PullRequest!First(S)
<1>1. Len(changelog) \in Nat /\ DOMAIN changelog = 1..Len(changelog) BY LenProperties
<1>2. /\ i # 0
      /\ ~(PullRequest!Count(changelog[i].text, "start") + PullRequest!Count(changelog[i].text, "end") > 0)
      /\ PullRequest!LatestSection(changelog) = changelog[i].text
  BY DEF PullRequest!LatestSection
<1>3. S \in SUBSET Nat BY <1>1
<1>4. S # {} BY <1>2 DEF PullRequest!First
<1>5. i \in S BY <1>3, <1>4, FirstIsPlace
<1>6. changelog[i] \in [bullet : BOOLEAN, text : Seq(STRING)] BY <1>5, <1>1, ElementOfSeq
<1> HIDE DEF i
<1>7. changelog[i].text \in Seq(Token)
  <2>1. changelog[i].text \in Seq(STRING) BY <1>6
  <2> QED BY <2>1, StringsAreTexts
<1>8. /\ PullRequest!Count(changelog[i].text, "start") \in Nat
      /\ PullRequest!Count(changelog[i].text, "end") \in Nat
  BY <1>7, PlacesCount
<1>9. /\ PullRequest!Count(changelog[i].text, "start") = 0
      /\ PullRequest!Count(changelog[i].text, "end") = 0
  BY <1>2, <1>8
<1> QED BY <1>2, <1>7, <1>9, PlacesCount DEF Unmarked

\* In a text whose markers are in order there is no marker before the block, and none
\* after it.
LEMMA AroundIsUnmarked ==
  ASSUME NEW t \in Seq(Token), PullRequest!WellMarked(t)
  PROVE  Unmarked(PullRequest!Before(t)) /\ Unmarked(PullRequest!After(t))
<1> DEFINE S == PullRequest!Places(t, "start")
           E == PullRequest!Places(t, "end")
<1>0. Len(t) \in Nat /\ DOMAIN t = 1..Len(t) /\ \A k \in 1..Len(t) : t[k] \in Token BY LenProperties, ElementOfSeq
<1>1. CASE PullRequest!Count(t, "start") = 0
  <2>1. S = {} /\ E = {} BY <1>1, PlacesCount DEF PullRequest!WellMarked
  <2>2. PullRequest!Before(t) = t /\ PullRequest!After(t) = <<>>
    BY <2>1 DEF PullRequest!Before, PullRequest!After, PullRequest!Index, PullRequest!First
  <2>3. Unmarked(<<>>) BY DEF Unmarked, PullRequest!Places
  <2> QED BY <2>1, <2>2, <2>3 DEF Unmarked
<1>2. CASE PullRequest!Count(t, "start") = 1
  <2>1. PICK i : S = {i} BY <1>2, PlacesCount
  <2>2. PICK j : E = {j} BY <1>2, PlacesCount DEF PullRequest!WellMarked
  <2>3. i \in 1..Len(t) /\ j \in 1..Len(t) BY <2>1, <2>2, PlacesCount
  <2>4. PullRequest!Index(t, "start") = i /\ PullRequest!Index(t, "end") = j
    BY <2>1, <2>2, <2>3, FirstOfOne DEF PullRequest!Index
  <2>5. i <= j BY <2>4 DEF PullRequest!WellMarked
  <2>6. t[i] = "start" /\ t[j] = "end" BY <2>1, <2>2 DEF PullRequest!Places
  <2>7. i < j BY <1>0, <2>3, <2>5, <2>6
  <2>8. \A k \in 1..Len(t) : (t[k] = "start" => k = i) /\ (t[k] = "end" => k = j)
    BY <2>1, <2>2, <1>0 DEF PullRequest!Places
  <2>9. PullRequest!Before(t) = SubSeq(t, 1, i - 1) /\ PullRequest!After(t) = SubSeq(t, j + 1, Len(t))
    BY <2>3, <2>4 DEF PullRequest!Before, PullRequest!After
  <2>10. ASSUME NEW m \in Nat, NEW n \in Nat, m <= n, n <= Len(t), i \notin (m + 1)..n, j \notin (m + 1)..n
         PROVE  Unmarked(SubSeq(t, m + 1, n))
    <3> DEFINE c == SubSeq(t, m + 1, n)
    <3>1. c \in Seq(Token) /\ DOMAIN c = 1..(n - m) /\ \A k \in 1..(n - m) : c[k] = t[k + m]
      BY <2>10, CutOut
    <3> HIDE DEF c
    <3>2. ASSUME NEW k \in 1..(n - m) PROVE c[k] # "start" /\ c[k] # "end"
      <4>1. k + m \in (m + 1)..n /\ k + m \in 1..Len(t) BY <1>0, <2>10
      <4>2. k + m # i /\ k + m # j BY <4>1, <2>10
      <4> QED BY <3>1, <4>1, <4>2, <2>8
    <3> QED BY <3>1, <3>2 DEF Unmarked, PullRequest!Places, c
  <2>11. Unmarked(SubSeq(t, 0 + 1, i - 1))
    <3>1. /\ 0 \in Nat /\ i - 1 \in Nat /\ 0 <= i - 1 /\ i - 1 <= Len(t)
          /\ i \notin (0 + 1)..(i - 1) /\ j \notin (0 + 1)..(i - 1)
      BY <1>0, <2>3, <2>7
    <3> HIDE DEF Unmarked
    <3> QED BY <2>10, <3>1
  <2>12. Unmarked(SubSeq(t, j + 1, Len(t))) BY <1>0, <2>3, <2>7, <2>10
  <2>13. 0 + 1 = 1 OBVIOUS
  <2> QED BY <2>9, <2>11, <2>12, <2>13
<1>3. PullRequest!Count(t, "start") \in Nat /\ PullRequest!Count(t, "start") <= 1
  BY PlacesCount DEF PullRequest!WellMarked
<1> QED BY <1>1, <1>2, <1>3

\* A block put between two texts without markers is found again where it was put.
LEMMA BlockIsFound ==
  ASSUME NEW x, NEW s, NEW y, Unmarked(x), Unmarked(s), Unmarked(y)
  PROVE  LET t == x \o PullRequest!Block(s) \o y
         IN  /\ t \in Seq(Token) /\ PullRequest!WellMarked(t)
             /\ PullRequest!Before(t) = x /\ PullRequest!After(t) = y
<1> DEFINE t == x \o PullRequest!Block(s) \o y
           i == Len(x) + 1
           j == Len(x) + Len(s) + 2
<1>1. /\ x \in Seq(Token) /\ s \in Seq(Token) /\ y \in Seq(Token)
      /\ Len(x) \in Nat /\ Len(s) \in Nat /\ Len(y) \in Nat
  BY LenProperties DEF Unmarked
<1>2. /\ \A k \in 1..Len(x) : x[k] # "start" /\ x[k] # "end"
      /\ \A k \in 1..Len(s) : s[k] # "start" /\ s[k] # "end"
      /\ \A k \in 1..Len(y) : y[k] # "start" /\ y[k] # "end"
  BY <1>1, LenProperties DEF Unmarked, PullRequest!Places
<1>3. /\ PullRequest!Block(s) \in Seq(Token) /\ Len(PullRequest!Block(s)) = Len(s) + 2
      /\ PullRequest!Block(s)[1] = "start" /\ PullRequest!Block(s)[Len(s) + 2] = "end"
      /\ \A k \in 1..Len(s) : PullRequest!Block(s)[k + 1] = s[k]
  <2> DEFINE o == <<"start">>
             p == o \o s
             q == <<"end">>
  <2>0. "start" \in Token /\ "end" \in Token BY DEF Token
  <2>1. o \in Seq(Token) /\ Len(o) = 1 /\ o[1] = "start" BY <2>0, OneToken
  <2>2. q \in Seq(Token) /\ Len(q) = 1 /\ q[1] = "end" BY <2>0, OneToken
  <2> HIDE DEF o, q
  <2>3. /\ p \in Seq(Token) /\ Len(p) = 1 + Len(s) /\ p[1] = "start"
        /\ \A k \in 1..Len(s) : p[k + 1] = s[k]
    <3>1. /\ o \o s \in Seq(Token) /\ Len(o \o s) = Len(o) + Len(s)
          /\ \A k \in 1..Len(o) : (o \o s)[k] = o[k]
          /\ \A k \in 1..Len(s) : (o \o s)[k + Len(o)] = s[k]
      BY <1>1, <2>1, Joined
    <3>2. 1 \in 1..Len(o) BY <2>1
    <3> HIDE DEF p
    <3>3. p = o \o s BY DEF p
    <3> QED BY <2>1, <3>1, <3>2, <3>3
  <2> HIDE DEF p
  <2>4. PullRequest!Block(s) = p \o q BY DEF PullRequest!Block, o, p, q
  <2>5. /\ p \o q \in Seq(Token) /\ Len(p \o q) = Len(p) + Len(q)
        /\ \A k \in 1..Len(p) : (p \o q)[k] = p[k]
        /\ \A k \in 1..Len(q) : (p \o q)[k + Len(p)] = q[k]
    BY <2>2, <2>3, Joined
  <2>6. (p \o q)[1] = "start" BY <1>1, <2>3, <2>5
  <2>7. (p \o q)[1 + Len(p)] = q[1] BY <2>2, <2>5
  <2>8. 1 + Len(p) = Len(s) + 2 /\ Len(p) + Len(q) = Len(s) + 2 BY <1>1, <2>2, <2>3
  <2>9. ASSUME NEW k \in 1..Len(s) PROVE (p \o q)[k + 1] = s[k]
    <3>1. k + 1 \in 1..Len(p) BY <1>1, <2>3
    <3> QED BY <2>3, <2>5, <3>1
  <2> QED BY <2>2, <2>4, <2>5, <2>6, <2>7, <2>8, <2>9
<1> DEFINE b == PullRequest!Block(s)
           xb == x \o b
<1> HIDE DEF b
<1>4. /\ xb \in Seq(Token) /\ Len(xb) = Len(x) + (Len(s) + 2)
      /\ \A k \in 1..Len(x) : xb[k] = x[k]
      /\ \A k \in 1..(Len(s) + 2) : xb[k + Len(x)] = b[k]
  <2>1. b \in Seq(Token) /\ Len(b) = Len(s) + 2 BY <1>3 DEF b
  <2> HIDE DEF xb
  <2>2. xb = x \o b BY DEF xb
  <2>3. /\ x \o b \in Seq(Token) /\ Len(x \o b) = Len(x) + Len(b)
        /\ \A k \in 1..Len(x) : (x \o b)[k] = x[k]
        /\ \A k \in 1..Len(b) : (x \o b)[k + Len(x)] = b[k]
    BY <1>1, <2>1, Joined
  <2> QED BY <2>1, <2>2, <2>3
<1> HIDE DEF xb
<1> DEFINE w == xb \o y
<1>5. t = w BY DEF b, xb
<1>6. /\ t \in Seq(Token) /\ Len(t) = Len(x) + (Len(s) + 2) + Len(y)
      /\ \A k \in 1..(Len(x) + (Len(s) + 2)) : t[k] = xb[k]
      /\ \A k \in 1..Len(y) : t[k + (Len(x) + (Len(s) + 2))] = y[k]
  <2>1. /\ w \in Seq(Token) /\ Len(w) = Len(xb) + Len(y)
        /\ \A k \in 1..Len(xb) : w[k] = xb[k]
        /\ \A k \in 1..Len(y) : w[k + Len(xb)] = y[k]
    BY <1>1, <1>4, Joined
  <2> HIDE DEF w, t
  <2> QED BY <1>4, <1>5, <2>1
<1> HIDE DEF t
<1>7. t[i] = "start" /\ t[j] = "end"
  <2>1. 1 \in 1..(Len(s) + 2) /\ Len(s) + 2 \in 1..(Len(s) + 2) BY <1>1
  <2>2. xb[1 + Len(x)] = b[1] /\ xb[(Len(s) + 2) + Len(x)] = b[Len(s) + 2] BY <1>4, <2>1
  <2>3. /\ i = 1 + Len(x) /\ j = (Len(s) + 2) + Len(x)
        /\ i \in 1..(Len(x) + (Len(s) + 2)) /\ j \in 1..(Len(x) + (Len(s) + 2))
    BY <1>1
  <2>4. t[i] = xb[i] /\ t[j] = xb[j] BY <1>6, <2>3
  <2> HIDE DEF i, j
  <2> QED BY <1>3, <2>2, <2>3, <2>4 DEF b
<1>8. ASSUME NEW k \in 1..Len(t), k # i, k # j PROVE t[k] # "start" /\ t[k] # "end"
  <2>1. CASE k \in 1..Len(x)
    <3>1. k \in 1..(Len(x) + (Len(s) + 2)) BY <1>1, <2>1
    <3>2. t[k] = x[k] BY <1>4, <1>6, <2>1, <3>1
    <3> QED BY <1>2, <2>1, <3>2
  <2>2. CASE k \in (i + 1)..(j - 1)
    <3> DEFINE m == k - i
    <3>1. /\ m \in 1..Len(s) /\ k = (m + 1) + Len(x) /\ m + 1 \in 1..(Len(s) + 2)
          /\ k \in 1..(Len(x) + (Len(s) + 2))
      BY <1>1, <2>2
    <3> HIDE DEF m
    <3>2. t[k] = xb[k] BY <1>6, <3>1
    <3>3. xb[(m + 1) + Len(x)] = b[m + 1] BY <1>4, <3>1
    <3>4. b[m + 1] = s[m] BY <1>3, <3>1 DEF b
    <3>5. t[k] = s[m] BY <3>1, <3>2, <3>3, <3>4
    <3> QED BY <3>1, <3>5, <1>2
  <2>3. CASE k \in (j + 1)..Len(t)
    <3> DEFINE m == k - (Len(x) + (Len(s) + 2))
    <3>1. m \in 1..Len(y) /\ k = m + (Len(x) + (Len(s) + 2)) BY <1>1, <1>6, <2>3
    <3> HIDE DEF m
    <3>2. t[k] = y[m] BY <1>6, <3>1
    <3> QED BY <3>1, <3>2, <1>2
  <2>4. k \in 1..Len(x) \/ k \in (i + 1)..(j - 1) \/ k \in (j + 1)..Len(t)
    <3>1. Len(t) = Len(x) + (Len(s) + 2) + Len(y) BY <1>6
    <3> QED BY <1>1, <3>1, <1>8
  <2> QED BY <2>1, <2>2, <2>3, <2>4
<1>9. i \in 1..Len(t) /\ j \in 1..Len(t) /\ i < j /\ DOMAIN t = 1..Len(t) BY <1>1, <1>6
<1>10. PullRequest!Places(t, "start") = {i} BY <1>7, <1>8, <1>9 DEF PullRequest!Places
<1>11. PullRequest!Places(t, "end") = {j} BY <1>7, <1>8, <1>9 DEF PullRequest!Places
<1>12. PullRequest!Index(t, "start") = i /\ PullRequest!Index(t, "end") = j
  BY <1>9, <1>10, <1>11, FirstOfOne DEF PullRequest!Index
<1>13. PullRequest!Count(t, "start") = 1 /\ PullRequest!Count(t, "end") = 1
  BY <1>6, <1>10, <1>11, PlacesCount
<1>14. PullRequest!WellMarked(t) BY <1>9, <1>12, <1>13 DEF PullRequest!WellMarked
<1>15. PullRequest!Before(t) = x
  <2> DEFINE c == SubSeq(t, 0 + 1, Len(x))
  <2>1. PullRequest!Before(t) = c BY <1>1, <1>12 DEF PullRequest!Before
  <2>2. Len(x) <= Len(t) BY <1>1, <1>6
  <2>3. c \in Seq(Token) /\ Len(c) = Len(x) - 0 /\ \A k \in 1..(Len(x) - 0) : c[k] = t[k + 0]
    BY <1>1, <1>6, <2>2, CutOut
  <2> HIDE DEF c
  <2>4. ASSUME NEW k \in 1..Len(x) PROVE c[k] = x[k]
    <3>1. k \in 1..(Len(x) - 0) /\ k + 0 = k /\ k \in 1..(Len(x) + (Len(s) + 2)) BY <1>1
    <3>2. c[k] = t[k] BY <2>3, <3>1
    <3>3. t[k] = xb[k] BY <1>6, <3>1
    <3> QED BY <1>4, <3>2, <3>3
  <2>5. Len(c) = Len(x) BY <1>1, <2>3
  <2> QED BY <1>1, <2>1, <2>3, <2>4, <2>5, SeqEqual
<1>16. PullRequest!After(t) = y
  <2> DEFINE c == SubSeq(t, j + 1, Len(t))
  <2>1. PullRequest!After(t) = c BY <1>1, <1>12 DEF PullRequest!After
  <2>2. j \in Nat /\ Len(t) \in Nat /\ j <= Len(t) /\ Len(t) - j = Len(y)
        /\ j = Len(x) + (Len(s) + 2)
    BY <1>1, <1>6
  <2> HIDE DEF j
  <2>3. c \in Seq(Token) /\ Len(c) = Len(t) - j /\ \A k \in 1..(Len(t) - j) : c[k] = t[k + j]
    BY <1>6, <2>2, CutOut
  <2> HIDE DEF c
  <2>4. \A k \in 1..Len(y) : c[k] = y[k] BY <1>6, <2>2, <2>3
  <2> QED BY <1>1, <2>1, <2>2, <2>3, <2>4, SeqEqual
<1> QED BY <1>6, <1>14, <1>15, <1>16 DEF t, xb, b

\* The body a run builds keeps the text around the block.
LEMMA UpdateKeepsText ==
  ASSUME NEW t \in Seq(Token), NEW s, Unmarked(s), PullRequest!UpdatedBody(t, s) # PullRequest!Refused
  PROVE  LET u == PullRequest!UpdatedBody(t, s)
         IN  /\ u = PullRequest!Before(t) \o PullRequest!Block(s) \o PullRequest!After(t)
             /\ u \in Seq(Token) /\ PullRequest!WellMarked(u) /\ ~(Len(u) > MaxBody)
             /\ PullRequest!Before(u) = PullRequest!Before(t) /\ PullRequest!After(u) = PullRequest!After(t)
<1> DEFINE w == PullRequest!Before(t) \o PullRequest!Block(s) \o PullRequest!After(t)
<1>1. PullRequest!WellMarked(t) /\ ~(Len(w) > MaxBody) /\ PullRequest!UpdatedBody(t, s) = w
  BY DEF PullRequest!UpdatedBody
<1>2. Unmarked(PullRequest!Before(t)) /\ Unmarked(PullRequest!After(t)) BY <1>1, AroundIsUnmarked
<1>3. /\ w \in Seq(Token) /\ PullRequest!WellMarked(w)
      /\ PullRequest!Before(w) = PullRequest!Before(t) /\ PullRequest!After(w) = PullRequest!After(t)
  BY <1>2, BlockIsFound
<1> QED BY <1>1, <1>3

\* What is pushed are changelogs.
LEMMA ChangelogsAre ==
  ASSUME changelogs \in Seq(Changelogs), NEW c \in 1..Len(changelogs)
  PROVE  changelogs[c] \in Seq([bullet : BOOLEAN, text : Seq(STRING)])
BY ElementOfSeq, PullRequestAssumption

\* The body, the author's text and the runs: a run that has built its body keeps the
\* text around the block that it read, and what it read is still there unless an edit
\* came in between.
Managed ==
  /\ body \in Seq(Token) /\ authored \in Seq(Token) /\ changelogs \in Seq(Changelogs) /\ raced \in BOOLEAN
  /\ run \in [commit : Nat, step : {"none", "read", "build", "compare", "update"}, cancelled : BOOLEAN,
              previous : Seq(Token), updated : Seq(Token)]
  /\ run.step # "none" => run.commit \in 1..Len(changelogs)
  /\ waiting \in 0..Len(changelogs)
  /\ run.step \in {"compare", "update"} =>
       /\ PullRequest!WellMarked(run.updated)
       /\ PullRequest!Before(run.updated) = PullRequest!Before(run.previous)
       /\ PullRequest!After(run.updated) = PullRequest!After(run.previous)
  /\ run.step = "update" => raced \/ body = run.previous
  /\ PullRequest!ManualTextKept

\* Initially.
LEMMA ManagedInit == PullRequest!Init => Managed
<1> SUFFICES ASSUME PullRequest!Init PROVE Managed OBVIOUS
<1>1. body \in Seq(Token) /\ authored = body
  BY PullRequestAssumption, StringsAreTexts DEF PullRequest!Init
<1>2. <<>> \in Seq(Token) /\ <<>> \in Seq(Changelogs) /\ Len(<<>>) = 0 BY EmptySeq
<1>3. changelogs = <<>> /\ waiting = 0 /\ raced = FALSE BY DEF PullRequest!Init
<1>4. run = [commit |-> 0, step |-> "none", cancelled |-> FALSE, previous |-> <<>>, updated |-> <<>>]
  BY DEF PullRequest!Init, PullRequest!NoRun
<1>5. PullRequest!ManualTextKept BY <1>1 DEF PullRequest!ManualTextKept, PullRequest!ManualTextIsAuthors
<1>6. /\ run \in [commit : Nat, step : {"none", "read", "build", "compare", "update"}, cancelled : BOOLEAN,
                  previous : Seq(Token), updated : Seq(Token)]
      /\ run.step = "none"
  BY <1>2, <1>4
<1>7. changelogs \in Seq(Changelogs) /\ waiting \in 0..Len(changelogs) /\ raced \in BOOLEAN
  <2>1. Len(changelogs) = 0 BY <1>2, <1>3, Zenon
  <2>2. changelogs \in Seq(Changelogs) BY <1>2, <1>3, Zenon
  <2>3. waiting = 0 /\ raced \in BOOLEAN BY <1>3
  <2>4. waiting \in 0..Len(changelogs) BY <2>1, <2>3
  <2> QED BY <2>2, <2>3, <2>4
<1> QED BY <1>1, <1>5, <1>6, <1>7 DEF Managed

\* A run that begins.
LEMMA RunBegins ==
  ASSUME NEW c \in Nat
  PROVE  /\ PullRequest!RunOf(c) = [commit |-> c, step |-> "read", cancelled |-> FALSE,
                                     previous |-> <<>>, updated |-> <<>>]
         /\ PullRequest!NoRun = [commit |-> 0, step |-> "none", cancelled |-> FALSE,
                                  previous |-> <<>>, updated |-> <<>>]
<1>1. PullRequest!NoRun = [commit |-> 0, step |-> "none", cancelled |-> FALSE,
                           previous |-> <<>>, updated |-> <<>>]
  BY DEF PullRequest!NoRun
<1>2. PullRequest!RunOf(c) = [PullRequest!NoRun EXCEPT !.commit = c, !.step = "read"]
  BY DEF PullRequest!RunOf
<1> QED BY <1>1, <1>2

\* When a run ends, whatever it says, the next is none or the one that waits.
LEMMA ManagedEnds ==
  ASSUME Managed, NEW result, PullRequest!RunEnds(result), UNCHANGED <<authored, changelogs, raced>>,
         body' \in Seq(Token), PullRequest!ManualTextKept'
  PROVE  Managed'
<1>1. waiting \in 0..Len(changelogs) /\ Len(changelogs) \in Nat /\ waiting \in Nat
  <2>1. Len(changelogs) \in Nat BY LenProperties DEF Managed
  <2> QED BY <2>1 DEF Managed
<1>2. waiting' = 0 /\ run' = IF waiting = 0 THEN PullRequest!NoRun ELSE PullRequest!RunOf(waiting)
  BY DEF PullRequest!RunEnds
<1>3. <<>> \in Seq(Token) BY EmptySeq
<1>4. run' = [commit |-> waiting, step |-> IF waiting = 0 THEN "none" ELSE "read", cancelled |-> FALSE,
              previous |-> <<>>, updated |-> <<>>]
  BY <1>1, <1>2, RunBegins
<1>5. /\ run' \in [commit : Nat, step : {"none", "read", "build", "compare", "update"}, cancelled : BOOLEAN,
                    previous : Seq(Token), updated : Seq(Token)]
      /\ run'.step \in {"none", "read"} /\ (run'.step # "none" => run'.commit \in 1..Len(changelogs))
  BY <1>1, <1>3, <1>4
<1>6. waiting' \in 0..Len(changelogs') BY <1>1, <1>2
<1> QED BY <1>5, <1>6 DEF Managed

\* A step of the author or of a run keeps it.
LEMMA ManagedNext == ASSUME Managed, PullRequest!Next \/ UNCHANGED pullRequestVars PROVE Managed'
<1>0. Len(changelogs) \in Nat BY LenProperties DEF Managed
<1>1. CASE PullRequest!Push
  <2>1. PICK changelog \in Changelogs : changelogs' = Append(changelogs, changelog)
    BY <1>1 DEF PullRequest!Push
  <2>2. changelogs' \in Seq(Changelogs) /\ Len(changelogs') = Len(changelogs) + 1
    BY <2>1, AppendProperties DEF Managed
  <2>3. UNCHANGED <<body, authored, raced>> BY <1>1 DEF PullRequest!Push
  <2>4. PullRequest!ManualTextKept'
    BY <2>3 DEF Managed, PullRequest!ManualTextKept, PullRequest!ManualTextIsAuthors
  <2>5. CASE run.step = "none"
    <3>1. run' = PullRequest!RunOf(Len(changelogs')) /\ waiting' = waiting
      BY <1>1, <2>5 DEF PullRequest!Push, PullRequest!Idle
    <3>2. run' = [commit |-> Len(changelogs) + 1, step |-> "read", cancelled |-> FALSE,
                  previous |-> <<>>, updated |-> <<>>]
      <4>1. Len(changelogs) + 1 \in Nat BY <1>0
      <4>2. run' = PullRequest!RunOf(Len(changelogs) + 1) BY <2>2, <3>1
      <4> QED BY <4>1, <4>2, RunBegins
    <3>3. <<>> \in Seq(Token) BY EmptySeq
    <3>4. /\ run' \in [commit : Nat, step : {"none", "read", "build", "compare", "update"},
                        cancelled : BOOLEAN, previous : Seq(Token), updated : Seq(Token)]
          /\ run'.step = "read" /\ run'.commit \in 1..Len(changelogs')
      BY <1>0, <2>2, <3>2, <3>3
    <3>5. waiting' \in 0..Len(changelogs') BY <1>0, <2>2, <3>1 DEF Managed
    <3> QED BY <2>2, <2>3, <2>4, <3>4, <3>5 DEF Managed
  <2>6. CASE run.step # "none"
    <3>1. run' = [run EXCEPT !.cancelled = TRUE] /\ waiting' = Len(changelogs')
      BY <1>1, <2>6 DEF PullRequest!Push, PullRequest!Idle
    <3>2. /\ run' \in [commit : Nat, step : {"none", "read", "build", "compare", "update"},
                        cancelled : BOOLEAN, previous : Seq(Token), updated : Seq(Token)]
          /\ run'.step = run.step /\ run'.commit = run.commit
          /\ run'.previous = run.previous /\ run'.updated = run.updated
      BY <3>1 DEF Managed
    <3> QED BY <1>0, <2>2, <2>3, <2>4, <3>1, <3>2 DEF Managed
  <2> QED BY <2>5, <2>6
<1>2. CASE PullRequest!Edit
  <2>1. /\ body' \in Texts /\ authored' = body' /\ raced' = (raced \/ run.step = "update")
        /\ UNCHANGED <<changelogs, run, waiting>>
    BY <1>2 DEF PullRequest!Edit
  <2>2. body' \in Seq(Token) BY <2>1, PullRequestAssumption, StringsAreTexts
  <2>3. PullRequest!ManualTextKept' BY <2>1 DEF PullRequest!ManualTextKept, PullRequest!ManualTextIsAuthors
  <2>4. raced' \in BOOLEAN /\ (run.step = "update" => raced') BY <2>1
  <2> QED BY <2>1, <2>2, <2>3, <2>4 DEF Managed
<1>3. CASE PullRequest!Stops
  <2>1. PullRequest!RunEnds("stopped") /\ UNCHANGED <<body, authored, changelogs, raced>>
    BY <1>3 DEF PullRequest!Stops
  <2>2. PullRequest!ManualTextKept' /\ body' \in Seq(Token)
    BY <2>1 DEF Managed, PullRequest!ManualTextKept, PullRequest!ManualTextIsAuthors
  <2> QED BY <2>1, <2>2, ManagedEnds
<1>4. CASE PullRequest!Read
  <2>1. /\ run.step = "read" /\ run' = [run EXCEPT !.previous = body, !.step = "build"]
        /\ UNCHANGED <<body, authored, changelogs, raced, waiting>>
    BY <1>4 DEF PullRequest!Read, PullRequest!Continues
  <2>2. PullRequest!ManualTextKept'
    BY <2>1 DEF Managed, PullRequest!ManualTextKept, PullRequest!ManualTextIsAuthors
  <2>3. /\ run' \in [commit : Nat, step : {"none", "read", "build", "compare", "update"},
                      cancelled : BOOLEAN, previous : Seq(Token), updated : Seq(Token)]
        /\ run'.step = "build" /\ run'.commit = run.commit
    BY <2>1 DEF Managed
  <2> QED BY <2>1, <2>2, <2>3 DEF Managed
<1>5. CASE PullRequest!Build
  <2> DEFINE section == PullRequest!LatestSection(changelogs[run.commit])
             updated == IF section = PullRequest!Refused \/ Len(run.previous) > MaxBody
                        THEN PullRequest!Refused ELSE PullRequest!UpdatedBody(run.previous, section)
  <2>1. /\ run.step = "build" /\ UNCHANGED <<body, authored, changelogs, raced>>
        /\ IF updated = PullRequest!Refused THEN PullRequest!RunEnds("refused")
           ELSE PullRequest!Continues([run EXCEPT !.updated = updated, !.step = "compare"])
    BY <1>5 DEF PullRequest!Build
  <2>2. PullRequest!ManualTextKept' /\ body' \in Seq(Token)
    BY <2>1 DEF Managed, PullRequest!ManualTextKept, PullRequest!ManualTextIsAuthors
  <2>3. CASE updated = PullRequest!Refused
    <3> HIDE DEF updated
    <3> QED BY <2>1, <2>2, <2>3, ManagedEnds
  <2>4. CASE updated # PullRequest!Refused
    <3>1. /\ section # PullRequest!Refused /\ updated = PullRequest!UpdatedBody(run.previous, section)
          /\ PullRequest!UpdatedBody(run.previous, section) # PullRequest!Refused
      BY <2>4
    <3>2. run.commit \in 1..Len(changelogs) /\ run.previous \in Seq(Token) BY <2>1 DEF Managed
    <3>3. Unmarked(section) BY <3>1, <3>2, ChangelogsAre, SectionIsUnmarked DEF Managed
    <3> HIDE DEF section
    <3>4. /\ updated \in Seq(Token) /\ PullRequest!WellMarked(updated)
          /\ PullRequest!Before(updated) = PullRequest!Before(run.previous)
          /\ PullRequest!After(updated) = PullRequest!After(run.previous)
      BY <3>1, <3>2, <3>3, UpdateKeepsText
    <3> HIDE DEF updated
    <3>5. run' = [run EXCEPT !.updated = updated, !.step = "compare"] /\ waiting' = waiting
      BY <2>1, <2>4 DEF PullRequest!Continues
    <3>6. /\ run' \in [commit : Nat, step : {"none", "read", "build", "compare", "update"},
                        cancelled : BOOLEAN, previous : Seq(Token), updated : Seq(Token)]
          /\ run'.step = "compare" /\ run'.commit = run.commit
          /\ run'.previous = run.previous /\ run'.updated = updated
      BY <3>4, <3>5 DEF Managed
    <3> QED BY <2>1, <2>2, <3>2, <3>4, <3>5, <3>6 DEF Managed
  <2> QED BY <2>3, <2>4
<1>6. CASE PullRequest!Compare
  <2>1. /\ run.step = "compare" /\ UNCHANGED <<body, authored, changelogs, raced>>
        /\ \/ PullRequest!RunEnds("refused") \/ PullRequest!RunEnds("matches")
           \/ body = run.previous /\ run' = [run EXCEPT !.step = "update"] /\ waiting' = waiting
    BY <1>6 DEF PullRequest!Compare, PullRequest!Continues, PullRequest!Unchanged
  <2>2. PullRequest!ManualTextKept' /\ body' \in Seq(Token)
    BY <2>1 DEF Managed, PullRequest!ManualTextKept, PullRequest!ManualTextIsAuthors
  <2>3. CASE PullRequest!RunEnds("refused") BY <2>1, <2>2, <2>3, ManagedEnds
  <2>4. CASE PullRequest!RunEnds("matches") BY <2>1, <2>2, <2>4, ManagedEnds
  <2>5. CASE body = run.previous /\ run' = [run EXCEPT !.step = "update"] /\ waiting' = waiting
    <3>1. /\ run' \in [commit : Nat, step : {"none", "read", "build", "compare", "update"},
                        cancelled : BOOLEAN, previous : Seq(Token), updated : Seq(Token)]
          /\ run'.step = "update" /\ run'.commit = run.commit
          /\ run'.previous = run.previous /\ run'.updated = run.updated
      BY <2>5 DEF Managed
    <3> QED BY <2>1, <2>2, <2>5, <3>1 DEF Managed
  <2> QED BY <2>1, <2>3, <2>4, <2>5
<1>7. CASE PullRequest!Update
  <2>1. /\ run.step = "update" /\ body' = run.updated /\ PullRequest!RunEnds("updated")
        /\ UNCHANGED <<authored, changelogs, raced>>
    BY <1>7 DEF PullRequest!Update
  <2>2. body' \in Seq(Token) BY <2>1 DEF Managed
  <2>3. PullRequest!ManualTextKept'
    BY <2>1 DEF Managed, PullRequest!ManualTextKept, PullRequest!ManualTextIsAuthors
  <2> QED BY <2>1, <2>2, <2>3, ManagedEnds
<1>8. CASE UNCHANGED pullRequestVars
  BY <1>8 DEF pullRequestVars, Managed, PullRequest!ManualTextKept, PullRequest!ManualTextIsAuthors
<1> QED
  BY <1>1, <1>2, <1>3, <1>4, <1>5, <1>6, <1>7, <1>8
  DEF PullRequest!Next, PullRequest!Finished, PullRequest!vars, pullRequestVars

\* A second run for the same changelog builds what is there.
LEMMA SecondRunSettles == ASSUME Managed PROVE PullRequest!RunsSettle
<1> SUFFICES ASSUME NEW c \in 1..Len(changelogs),
                    PullRequest!LatestSection(changelogs[c]) # PullRequest!Refused,
                    PullRequest!UpdatedBody(body, PullRequest!LatestSection(changelogs[c])) # PullRequest!Refused
             PROVE  LET section == PullRequest!LatestSection(changelogs[c])
                        once == PullRequest!UpdatedBody(body, section)
                    IN  PullRequest!UpdatedBody(once, section) = once
  BY DEF PullRequest!RunsSettle
<1> DEFINE section == PullRequest!LatestSection(changelogs[c])
           once == PullRequest!UpdatedBody(body, section)
<1>1. Unmarked(section) BY ChangelogsAre, SectionIsUnmarked DEF Managed
<1> HIDE DEF section
<1>2. /\ once = PullRequest!Before(body) \o PullRequest!Block(section) \o PullRequest!After(body)
      /\ PullRequest!WellMarked(once) /\ ~(Len(once) > MaxBody)
      /\ PullRequest!Before(once) = PullRequest!Before(body)
      /\ PullRequest!After(once) = PullRequest!After(body)
  BY <1>1, UpdateKeepsText DEF Managed, section
<1> HIDE DEF once
<1>3. PullRequest!UpdatedBody(once, section) = once BY <1>2 DEF PullRequest!UpdatedBody
<1> QED BY <1>3 DEF once, section

\* Whatever is pushed and written, and whenever: the author's text stays around the
\* block, a second run has nothing to do, and no run writes markers out of order
\* (pr_body.py, pr-body.yml).
THEOREM BodyStaysKept ==
  AllSpec => [](PullRequest!ManualTextKept /\ PullRequest!RunsSettle) /\ PullRequest!MarkersStayInOrder
<1>1. AllInit => Managed BY ManagedInit DEF AllInit
<1>2. Managed /\ [AllNext]_allVars => Managed' BY StepOfEach, ManagedNext
<1>3. Managed => PullRequest!ManualTextKept /\ PullRequest!RunsSettle BY SecondRunSettles DEF Managed
<1>4. Managed /\ PullRequest!Update /\ PullRequest!WellMarked(run.previous) => PullRequest!WellMarked(body')
  BY DEF Managed, PullRequest!Update
<1>5. Managed /\ [AllNext]_allVars =>
        [PullRequest!Update /\ PullRequest!WellMarked(run.previous) =>
           PullRequest!WellMarked(body')]_(PullRequest!vars)
  BY <1>4
<1> QED BY <1>1, <1>2, <1>3, <1>5, PTL DEF AllSpec, PullRequest!MarkersStayInOrder

(***************************************************************************)
(* The acceptance container (ContainerServer).                             *)
(***************************************************************************)
\* Where the task is in its block, and what it knows there.
Entered == {"port", "port log", "logs", "inspect", "sleep", "body"}

\* What the task knows at each place, whatever the engine goes on to do.
Known ==
  /\ pc \in {"info", "run", "rm", "over"} \cup Entered
  /\ call \in {"none", "running", "stopping"} /\ (pc \in {"sleep", "body", "over"} => call = "none")
  /\ {attempted, created, failing, unremoved, listening, loopback} \subseteq BOOLEAN
  /\ pc \in Entered => created
  /\ pc \in Entered \cup {"run"} => attempted
  /\ pc = "info" => ~attempted
  /\ pc \in {"logs", "inspect", "sleep", "body"} => loopback
  /\ pc = "body" => listening
  /\ pc \notin {"rm", "over"} \/ (pc = "rm" /\ call = "running") => ~unremoved
  /\ pc = "rm" /\ call # "running" => failing /\ unremoved
  /\ pc = "over" /\ created /\ unremoved => failing

\* A container, or one that may still come, has somebody who will remove it.
Claimed ==
  /\ asked => pc = "run" /\ call # "none" /\ container = "none"
  /\ container # "none" => attempted \/ (pc = "over" /\ unremoved)
  /\ pc = "over" /\ container # "none" => unremoved

\* The states of Init satisfy both.
LEMMA AcceptanceInit == Acceptance!Init => Known /\ Claimed
BY DEF Acceptance!Init, Known, Claimed, Entered

\* Each step of the task, its timers and the engine keeps what is known.
LEMMA AcceptanceKnown == ASSUME Known, Acceptance!Next \/ UNCHANGED acceptanceVars PROVE Known'
<1> USE DEF Known, Entered, Acceptance!vars, Acceptance!task, Acceptance!engine, Acceptance!Goes, Acceptance!Leave,
            Acceptance!Close, Acceptance!CloseRemoves, Acceptance!Setup
<1>1. CASE Acceptance!CallReturns
  <2>1. CASE Acceptance!InfoReturns BY <2>1 DEF Acceptance!InfoReturns
  <2>2. CASE Acceptance!RunReturns BY <2>2 DEF Acceptance!RunReturns
  <2>3. CASE Acceptance!PortReturns BY <2>3 DEF Acceptance!PortReturns
  <2>4. CASE Acceptance!LogsReturn BY <2>4 DEF Acceptance!LogsReturn
  <2>5. CASE Acceptance!InspectReturns BY <2>5 DEF Acceptance!InspectReturns
  <2>6. CASE Acceptance!SetupRefuses BY <2>6 DEF Acceptance!SetupRefuses
  <2>7. CASE pc \in Acceptance!Setup /\ Acceptance!Close /\ failing' = TRUE /\ asked' = FALSE
             /\ UNCHANGED <<container, listening, loopback, attempted, created, overdue, cancelled, unremoved>>
    BY <2>7
  <2> QED BY <1>1, <2>1, <2>2, <2>3, <2>4, <2>5, <2>6, <2>7 DEF Acceptance!CallReturns
<1>2. CASE Acceptance!Removed
  <2>1. /\ pc = "rm" /\ call = "running" /\ pc' = "over" /\ call' = "none"
        /\ UNCHANGED <<created, listening, loopback>>
    BY <1>2 DEF Acceptance!Removed
  <2>2. CASE container' = "none" /\ attempted' = FALSE /\ UNCHANGED <<failing, unremoved>>
    BY <2>1, <2>2
  <2>3. CASE unremoved' = TRUE /\ attempted' = created /\ failing' = (failing \/ created)
    <3>1. failing' \in BOOLEAN /\ (created => failing') BY <2>3
    <3> QED BY <2>1, <2>3, <3>1
  <2> QED BY <1>2, <2>2, <2>3 DEF Acceptance!Removed, Acceptance!Checked
<1>3. CASE Acceptance!CallTimesOut BY <1>3 DEF Acceptance!CallTimesOut
<1>4. CASE Acceptance!Cancel BY <1>4 DEF Acceptance!Cancel, Acceptance!Interrupts
<1>5. CASE Acceptance!CallStopped BY <1>5 DEF Acceptance!CallStopped
<1>6. CASE Acceptance!SleepEnds \/ Acceptance!BodyEnds
  <2>1. CASE Acceptance!SleepEnds BY <2>1 DEF Acceptance!SleepEnds
  <2>2. CASE Acceptance!BodyEnds BY <2>2 DEF Acceptance!BodyEnds
  <2> QED BY <1>6, <2>1, <2>2
<1>7. CASE Acceptance!Deadline BY <1>7 DEF Acceptance!Deadline
<1>8. CASE Acceptance!EngineCreates \/ Acceptance!ServerListens \/ Acceptance!ServerExits
  <2>1. CASE Acceptance!EngineCreates BY <2>1 DEF Acceptance!EngineCreates
  <2>2. CASE Acceptance!ServerListens BY <2>2 DEF Acceptance!ServerListens
  <2>3. CASE Acceptance!ServerExits BY <2>3 DEF Acceptance!ServerExits
  <2> QED BY <1>8, <2>1, <2>2, <2>3
<1>9. CASE UNCHANGED acceptanceVars BY <1>9 DEF acceptanceVars
<1> QED
  BY <1>1, <1>2, <1>3, <1>4, <1>5, <1>6, <1>7, <1>8, <1>9
  DEF Acceptance!Next, Acceptance!Finished, acceptanceVars

\* And, with an engine that gives up with its call, the claim on the container.
LEMMA AcceptanceClaimed ==
  ASSUME EngineOutlivesCall = FALSE, Known, Claimed, Acceptance!Next \/ UNCHANGED acceptanceVars
  PROVE  Claimed'
<1> USE DEF Known, Claimed, Entered, Acceptance!vars, Acceptance!task, Acceptance!engine, Acceptance!Goes,
            Acceptance!Leave, Acceptance!Close, Acceptance!CloseRemoves, Acceptance!Setup
<1>1. CASE Acceptance!CallReturns
  <2>1. CASE Acceptance!InfoReturns BY <2>1 DEF Acceptance!InfoReturns
  <2>2. CASE Acceptance!RunReturns BY <2>2 DEF Acceptance!RunReturns
  <2>3. CASE Acceptance!PortReturns BY <2>3 DEF Acceptance!PortReturns
  <2>4. CASE Acceptance!LogsReturn BY <2>4 DEF Acceptance!LogsReturn
  <2>5. CASE Acceptance!InspectReturns BY <2>5 DEF Acceptance!InspectReturns
  <2>6. CASE Acceptance!SetupRefuses BY <2>6 DEF Acceptance!SetupRefuses
  <2>7. CASE pc \in Acceptance!Setup /\ Acceptance!Close /\ failing' = TRUE /\ asked' = FALSE
             /\ UNCHANGED <<container, listening, loopback, attempted, created, overdue, cancelled, unremoved>>
    BY <2>7
  <2> QED BY <1>1, <2>1, <2>2, <2>3, <2>4, <2>5, <2>6, <2>7 DEF Acceptance!CallReturns
<1>2. CASE Acceptance!Removed BY <1>2 DEF Acceptance!Removed, Acceptance!Checked
<1>3. CASE Acceptance!CallTimesOut BY <1>3 DEF Acceptance!CallTimesOut
<1>4. CASE Acceptance!Cancel BY <1>4 DEF Acceptance!Cancel, Acceptance!Interrupts
<1>5. CASE Acceptance!CallStopped BY <1>5 DEF Acceptance!CallStopped
<1>6. CASE Acceptance!SleepEnds \/ Acceptance!BodyEnds
  <2>1. CASE Acceptance!SleepEnds BY <2>1 DEF Acceptance!SleepEnds
  <2>2. CASE Acceptance!BodyEnds BY <2>2 DEF Acceptance!BodyEnds
  <2> QED BY <1>6, <2>1, <2>2
<1>7. CASE Acceptance!Deadline BY <1>7 DEF Acceptance!Deadline
<1>8. CASE Acceptance!EngineCreates \/ Acceptance!ServerListens \/ Acceptance!ServerExits
  <2>1. CASE Acceptance!EngineCreates
    <3>1. /\ asked /\ asked' = FALSE /\ container' = "running"
          /\ UNCHANGED <<pc, call, attempted, unremoved>>
      BY <2>1 DEF Acceptance!EngineCreates
    <3>2. attempted /\ pc = "run" BY <3>1
    <3>3. ~asked' /\ attempted' /\ pc' = "run" BY <3>1, <3>2
    <3> QED BY <3>3
  <2>2. CASE Acceptance!ServerListens BY <2>2 DEF Acceptance!ServerListens
  <2>3. CASE Acceptance!ServerExits BY <2>3 DEF Acceptance!ServerExits
  <2> QED BY <1>8, <2>1, <2>2, <2>3
<1>9. CASE UNCHANGED acceptanceVars BY <1>9 DEF acceptanceVars
<1> QED
  BY <1>1, <1>2, <1>3, <1>4, <1>5, <1>6, <1>7, <1>8, <1>9
  DEF Acceptance!Next, Acceptance!Finished, acceptanceVars

\* The server is used only when it is ready, and a known container whose removal failed
\* is reported, whatever the engine does (container_server.py).
THEOREM ServerIsUsedWhenReady ==
  AllSpec => [](Acceptance!FailedRemovalIsReported /\ Acceptance!UsedWhenReady)
<1>1. AllInit => Known BY AcceptanceInit DEF AllInit
<1>2. Known /\ [AllNext]_allVars => Known' BY StepOfEach, AcceptanceKnown
<1>3. Known => Acceptance!UsedWhenReady /\ Acceptance!FailedRemovalIsReported
  BY DEF Known, Entered, Acceptance!UsedWhenReady, Acceptance!FailedRemovalIsReported
<1> QED BY <1>1, <1>2, <1>3, PTL DEF AllSpec

\* With an engine that gives up with its call, no container is left behind but for a
\* removal that has failed (container_server.py, close).
THEOREM LeavesNoContainer ==
  ASSUME EngineOutlivesCall = FALSE
  PROVE  AllSpec => []Acceptance!ContainerReclaimed
<1>1. AllInit => Known /\ Claimed BY AcceptanceInit DEF AllInit
<1>2. Known /\ Claimed /\ [AllNext]_allVars => (Known /\ Claimed)'
  BY StepOfEach, AcceptanceKnown, AcceptanceClaimed
<1>3. Known /\ Claimed => Acceptance!ContainerReclaimed
  BY DEF Known, Claimed, Entered, Acceptance!ContainerReclaimed
<1> QED BY <1>1, <1>2, <1>3, PTL DEF AllSpec
=============================================================================
