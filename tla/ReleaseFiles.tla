----------------------------- MODULE ReleaseFiles -----------------------------
(***************************************************************************)
(* The three inventories of one release: the files in dist/, the checksum  *)
(* file that checksums.py writes and reads back, and what PyPI says of the *)
(* version (verify_pypi_release.py).  Between the calls files are          *)
(* replaced, lost and added, and the checksum file is edited.              *)
(*                                                                         *)
(* A digest is abstracted to the content it is the digest of.              *)
(***************************************************************************)
EXTENDS Integers, Sequences

CONSTANTS Contents,  \* contents of files; none is "malformed", "invalid" or "gone"
          MaxLines,  \* bound: of the lines that are added to the checksum file
          MaxItems   \* bound: of PyPI's list

Expected == {"wheel", "sdist"}               \* expected_names, expected_files
Names    == Expected \cup {"sums", "other"}

VARIABLES directory, \* the regular files: name to content; of the checksums see lines
          lines,     \* the lines of SHA256SUMS.txt
          metadata,  \* history: the files PyPI listed in the last call
          verdict    \* what the last call said

vars == <<directory, lines, metadata, verdict>>

Line(digest, name) == [digest |-> digest, name |-> name]
Malformed == Line("malformed", "wheel")

\* One entry of PyPI's urls: the type is the one its name calls for or not, the
\* size and the digest are those of a content, or invalid.
Item(name, content) == [name |-> name, type |-> name, content |-> content, yanked |-> FALSE]

Items == {Item(n, c) : n \in Expected \cup {"other"}, c \in Contents \cup {"invalid"}}
           \cup {[Item("wheel", c) EXCEPT !.type = "sdist"] : c \in Contents}
           \cup {[Item("wheel", c) EXCEPT !.yanked = TRUE] : c \in Contents}

\* A build has left its two files.
Init ==
  /\ directory \in [Expected -> Contents] /\ lines = <<>> /\ verdict = "none"
  /\ metadata = <<>>

Present == DOMAIN directory

\* A dictionary with one more key, or another value of it.
Put(files, name, content) ==
  [n \in DOMAIN files \cup {name} |-> IF n = name THEN content ELSE files[n]]

\* The checksums of exactly the expected files are written; a checksum file that is
\* already there does not count.
Inventory == Present \ {"sums"} = Expected

Write ==
  /\ IF Inventory
     THEN /\ directory' = Put(directory, "sums", "lines")
          /\ lines' = <<Line(directory["sdist"], "sdist"), Line(directory["wheel"], "wheel")>>
          /\ verdict' = "written"
     ELSE verdict' = "error" /\ UNCHANGED <<directory, lines>>
  /\ metadata' = <<>>

Adds_Overwriting(parsed, line) ==
  IF line = Malformed THEN [parsed EXCEPT !.ok = FALSE]
  ELSE [parsed EXCEPT !.files = Put(@, line.name, line.digest)]

\* One line is added to what was parsed, unless it is malformed or a second one.
Adds(parsed, line) ==
  IF line = Malformed \/ line.name \in DOMAIN parsed.files THEN [parsed EXCEPT !.ok = FALSE]
  ELSE [parsed EXCEPT !.files = Put(@, line.name, line.digest)]

Nothing == [ok |-> TRUE, files |-> [n \in {} |-> "none"]]

\* The dictionary after the first i lines.
ParsedTo[i \in 0..Len(lines)] ==
  IF i = 0 THEN Nothing ELSE Adds(ParsedTo[i - 1], lines[i])

Parsed == ParsedTo[Len(lines)]

\* verify: the inventory, then the lines, then every digest.
Verify ==
  LET accepts == /\ Present = Expected \cup {"sums"} /\ Parsed.ok /\ DOMAIN Parsed.files = Expected
                 /\ \A n \in Expected : directory[n] = Parsed.files[n]
  IN  /\ UNCHANGED <<directory, lines>> /\ metadata' = <<>>
      /\ verdict' = IF accepts THEN "verified" ELSE "error"

\* One listed file: an expected name of its type, a size and a digest, not yanked.
Publishes(published, item) ==
  IF item.name \in Expected /\ item.type = item.name /\ item.content # "invalid"
       /\ ~item.yanked /\ item.name \notin DOMAIN published.files
  THEN [published EXCEPT !.files = Put(@, item.name, item.content)]
  ELSE [published EXCEPT !.ok = FALSE]

PublishedFiles(urls) ==
  LET published[i \in 0..Len(urls)] ==
        IF i = 0 THEN [Nothing EXCEPT !.ok = (Len(urls) = 2)] ELSE Publishes(published[i - 1], urls[i])
  IN  published[Len(urls)]

\* verify_pypi_release.verify, which the workflow runs before it writes checksums.
VerifyPyPI ==
  /\ lines = <<>> /\ UNCHANGED <<directory, lines>>
  /\ metadata' \in UNION {[1..n -> Items] : n \in 0..MaxItems}
  /\ LET published == PublishedFiles(metadata')
         accepts == /\ published.ok /\ DOMAIN published.files = Expected /\ Present = Expected
                    /\ \A n \in Expected : directory[n] = published.files[n]
     IN  verdict' = IF accepts THEN "matches" ELSE "error"

\* Somebody else changes one file, or the checksum file.
ChangesFile ==
  \E n \in Names : \E c \in {"gone"} \cup IF n = "sums" THEN {"lines"} ELSE Contents :
    /\ directory' = IF c = "gone" THEN [m \in Present \ {n} |-> directory[m]] ELSE Put(directory, n, c)
    /\ lines' = IF n = "sums" THEN <<>> ELSE lines

DropsLine ==
  /\ "sums" \in Present /\ UNCHANGED directory
  /\ \E i \in 1..Len(lines) :
       lines' = SubSeq(lines, 1, i - 1) \o SubSeq(lines, i + 1, Len(lines))

AddsLine ==
  /\ "sums" \in Present /\ UNCHANGED directory /\ Len(lines) < MaxLines
  /\ \E line \in {Malformed} \cup {Line(c, n) : c \in Contents, n \in Expected \cup {"other"}} :
       lines' = Append(lines, line)

Altered == ChangesFile \/ DropsLine \/ AddsLine

Alter == Altered /\ verdict' = "none" /\ metadata' = <<>>

Next == Write \/ Verify \/ VerifyPyPI \/ Alter

Spec == Init /\ [][Next]_vars

(***************************************************************************)
(* Properties.                                                             *)
(***************************************************************************)
\* Checksums are accepted exactly if there is one line for each distribution, it
\* holds for the file, and there is no other file and no other line.
ChecksumsAreExact ==
  [][Verify => (verdict' = "verified" <=>
       /\ Present = Expected \cup {"sums"} /\ Len(lines) = 2
       /\ \A n \in Expected : \E i \in 1..2 : lines[i] = Line(directory[n], n))]_vars

\* What was written is what will be read, and nothing but the two distributions gets
\* checksums.
WrittenIsAccepted ==
  verdict = "written" =>
    /\ Present = Expected \cup {"sums"}
    /\ Parsed = [ok |-> TRUE, files |-> [n \in Expected |-> directory[n]]]

\* PyPI's list is accepted exactly if it consists of the local distributions, each of
\* them once, of its type, with its bytes and not yanked.
PyPIIsExact ==
  [][VerifyPyPI => (verdict' = "matches" <=>
       /\ Present = Expected /\ Len(metadata') = 2
       /\ \A n \in Expected : \E i \in 1..2 : metadata'[i] = Item(n, directory[n]))]_vars
=============================================================================
