------------------------------ MODULE Authority ------------------------------
(***************************************************************************)
(* ConnectionSpec (connection.py): which connections can be constructed,   *)
(* and the texts they are rendered to.  Texts are sequences of characters, *)
(* one of each class that a pattern or a reader of the text tells apart:   *)
(* "2" is a digit, and stands for letters and hexadecimal digits too, so   *)
(* that hosts and ports share an alphabet.                                 *)
(***************************************************************************)
EXTENDS Integers, Sequences, SequencesExt

CONSTANTS Texts,  \* what a caller may pass as alias or host
          Users,  \* what it may pass as user
          Ports   \* what it may pass as port; texts that a number prints as, or not

None == <<"None">>

VARIABLES spec, outcome

vars == <<spec, outcome>>

Over(text, chars) == \A i \in 1..Len(text) : text[i] \in chars

\* Names begin with a letter or a digit.
Begins(text) == Len(text) > 0 /\ text[1] = "2"

\* validate_ssh_alias and SSH_HOST_PATTERN
ValidName(text) == Begins(text) /\ Over(text, {"2", "-"})
ValidUser(text) == Begins(text) /\ Over(text, {"2", "-", "+"})

\* ipaddress.ip_address of an IPv6 address, which may have a zone.  An address that ends
\* in dotted IPv4 is left out: a dot would be one more plain character here.
IsAddress(text) ==
  \E n \in 0..Len(text) :
    LET address == SubSeq(text, 1, n)
    IN  /\ Over(address, {"2", ":"}) /\ \E i \in 1..n : text[i] = ":"
        /\ n < Len(text) => text[n + 1] = "%" /\ n + 1 < Len(text)

\* validate_ssh_host: what follows the first % is a zone of plain characters.
ValidHost(text) ==
  /\ \A i \in 1..Len(text) :
       text[i] = "%" /\ (\A j \in 1..(i - 1) : text[j] # "%") =>
         i < Len(text) /\ Over(SubSeq(text, i + 1, Len(text)), {"2", "-"})
  /\ IsAddress(text) \/ ValidName(text)

ValidPort(port) == port \in {<<"2">>, <<"2", "2">>}

\* __post_init__: no incomplete and no mixed authority.
Accepts(s) ==
  CASE s.mode = "alias" ->
         s.alias # None /\ s.host = None /\ s.user = None /\ s.port = None /\ ValidName(s.alias)
    [] s.mode = "direct" ->
         s.alias = None /\ ValidPort(s.port) /\ ValidHost(s.host) /\ ValidUser(s.user)
    [] OTHER -> FALSE

Candidates ==
  [mode : {"alias", "direct", "unknown"}, alias : {None, <<"2">>}, host : {None, <<"2">>},
   user : {None, <<"2">>}, port : {None, <<"2">>}]
    \cup [mode : {"alias"}, alias : Texts, host : {None}, user : {None}, port : {None}]
    \cup [mode : {"direct"}, alias : {None}, host : Texts, user : Users, port : Ports]

destination(s) == IF s.mode = "alias" THEN s.alias ELSE s.host

\* An IPv6 address in brackets; an alias has no colon.
Bracketed(text) == IF \E i \in 1..Len(text) : text[i] = ":" THEN <<"[">> \o text \o <<"]">> ELSE text

rsync_target(s) == IF s.mode = "direct" THEN Bracketed(destination(s)) ELSE destination(s)

cache_key(s) ==
  IF s.mode = "alias" THEN <<"alias", ":">> \o s.alias
  ELSE <<"direct", ":">> \o s.user \o <<"@">> \o s.host \o <<":">> \o s.port

display_target_Unbracketed(s) ==
  IF s.mode = "alias" THEN s.alias ELSE s.user \o <<"@">> \o s.host \o <<":">> \o s.port

display_target(s) ==
  IF s.mode = "alias" THEN s.alias
  ELSE s.user \o <<"@">> \o Bracketed(s.host) \o <<":">> \o s.port

NoSpec == [mode |-> "unknown", alias |-> None, host |-> None, user |-> None, port |-> None]

Init == spec = NoSpec /\ outcome = "none"

\* from_alias, from_direct and the constructor itself.
Construct ==
  /\ outcome = "none"
  /\ \E s \in Candidates : spec' = s /\ outcome' = IF Accepts(s) THEN "accepted" ELSE "invalid_connection"

Finished == outcome # "none" /\ UNCHANGED vars

Next == Construct \/ Finished

Spec == Init /\ [][Next]_vars

Accepted == {s \in Candidates : Accepts(s)}

(***************************************************************************)
(* Properties.                                                             *)
(***************************************************************************)
\* Connections with the same cache key are the same connection, so that a cache
\* cannot hand out one that goes elsewhere.
CacheKeyIsIdentity ==
  outcome = "accepted" => \A s \in Accepted : cache_key(s) = cache_key(spec) => s = spec

\* Neither the destination nor the user is taken for an option or for several words,
\* whichever of the patterns and address forms has let it pass.
NoTokenIsAnOption ==
  outcome = "accepted" =>
    \A word \in {destination(spec)} \cup (IF spec.mode = "direct" THEN {spec.user} ELSE {}) :
      word[1] # "-" /\ \A i \in 1..Len(word) : word[i] \notin {" ", "@"}

\* The host of "<target>:<path>", as rsync reads it: up to the bracket that closes
\* or else up to the first colon.
RsyncHost(text) ==
  LET place(c) == CHOOSE i \in 1..Len(text) : text[i] = c /\ \A j \in 1..(i - 1) : text[j] # c
  IN  IF text[1] = "[" THEN SubSeq(text, 2, place("]") - 1) ELSE SubSeq(text, 1, place(":") - 1)

\* rsync finds the destination in its target, whatever the address looks like.
RsyncFindsDestination ==
  outcome = "accepted" => RsyncHost(rsync_target(spec) \o <<":", "p">>) = destination(spec)

\* The sanitized text of a connection names one connection per mode: the colon of the
\* port cannot be taken for one of the address.
DisplayIsUnambiguous ==
  outcome = "accepted" /\ spec.mode = "direct" =>
    \A n \in 1..Len(display_target(spec)) :
      LET text == display_target(spec)
      IN  text[n] = ":" /\ (\A i \in n..Len(text) : text[i] # "]") => SubSeq(text, n + 1, Len(text)) = spec.port
=============================================================================
