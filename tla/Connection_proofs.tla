-------------------------- MODULE Connection_proofs --------------------------
(***************************************************************************)
(* What the sequential parts of a connection guarantee for every value of  *)
(* the constants: every set of texts, options, paths, variables and bounds.*)
(* Each part has an inductive invariant of its own; the others' steps leave*)
(* its variables unchanged.                                                *)
(***************************************************************************)
EXTENDS Connection, SequenceTheorems, WellFoundedInduction, TLAPS

\* A step of the composition is, for each part, a step of it or none.
LEMMA StepOfEach ==
  ASSUME [AllNext]_allVars
  PROVE  /\ Authorities!Next \/ UNCHANGED authorityVars
         /\ Commands!Next \/ UNCHANGED commandVars
         /\ Directory!Next \/ UNCHANGED directoryVars
         /\ Session!Next \/ UNCHANGED sessionVars
         /\ Output!Next \/ UNCHANGED outputVars
BY DEF AllNext, ConstructionStep, CommandStep, DirectoryStep, SessionStep, OutputStep, allVars

(***************************************************************************)
(* Sequences.                                                              *)
(***************************************************************************)
\* One sequence after another, as an operator that the provers do not unfold.
Then(a, b) == a \o b

\* It stays a sequence over the same set, and nothing before it changes nothing.
LEMMA ThenIs ==
  ASSUME NEW S, NEW a \in Seq(S), NEW b \in Seq(S)
  PROVE  Then(a, b) \in Seq(S) /\ Then(<<>>, a) = a
BY ConcatProperties, ConcatEmptySeq DEF Then

\* It associates.
LEMMA ThenAssociates ==
  ASSUME NEW S, NEW a \in Seq(S), NEW b \in Seq(S), NEW c \in Seq(S)
  PROVE  Then(Then(a, b), c) = Then(a, Then(b, c))
BY DEF Then

\* The groupings that the command lines need: a prefix, one element and what follows.
LEMMA Regrouped ==
  ASSUME NEW S, NEW a \in Seq(S), NEW b \in Seq(S), NEW c \in Seq(S), NEW d \in Seq(S)
  PROVE  /\ Then(Then(Then(a, b), c), d) = Then(Then(<<>>, a), Then(b, Then(c, d)))
         /\ Then(Then(a, Then(b, c)), d) = Then(Then(a, b), Then(c, d))
         /\ Then(b, Then(c, d)) \in Seq(S)
<1>1. Then(a, b) \in Seq(S) /\ Then(b, c) \in Seq(S) /\ Then(c, d) \in Seq(S) BY ThenIs
<1>2. Then(<<>>, a) = a BY ThenIs
<1>3. Then(Then(Then(a, b), c), d) = Then(Then(a, b), Then(c, d)) BY <1>1, ThenAssociates
<1>4. Then(Then(a, b), Then(c, d)) = Then(a, Then(b, Then(c, d))) BY <1>1, ThenAssociates
<1>5. Then(a, Then(b, c)) = Then(Then(a, b), c) BY ThenAssociates
<1>6. Then(b, Then(c, d)) \in Seq(S) BY <1>1, ThenIs
<1> QED BY <1>2, <1>3, <1>4, <1>5, <1>6

\* What an index finds in it.
IsThen(x, a, b) ==
  /\ Len(x) = Len(a) + Len(b)
  /\ \A i \in 1..Len(a) : x[i] = a[i]
  /\ \A i \in 1..Len(b) : x[Len(a) + i] = b[i]

\* Each index finds what the parts have.
LEMMA ThenHas ==
  ASSUME NEW S, NEW a \in Seq(S), NEW b \in Seq(S)
  PROVE  Then(a, b) \in Seq(S) /\ IsThen(Then(a, b), a, b)
BY DEF Then, IsThen

(***************************************************************************)
(* What an accepted connection is rendered to (Authority).                 *)
(***************************************************************************)
\* All that a rendered text is made of.
Symbols == Characters \cup {"[", "]", "alias", "direct", "None", "p"}

\* A character between two texts.
Cut(s, c, t) == Then(Then(s, <<c>>), t)

\* What an index finds in it.
IsCut(x, s, c, t) ==
  /\ Len(x) = (Len(s) + 1) + Len(t) /\ x[Len(s) + 1] = c
  /\ \A i \in 1..Len(s) : x[i] = s[i]
  /\ \A i \in 1..Len(t) : x[(Len(s) + 1) + i] = t[i]

\* Each index finds what the parts have.
LEMMA CutHas ==
  ASSUME NEW S, NEW s \in Seq(S), NEW c \in S, NEW t \in Seq(S)
  PROVE  Cut(s, c, t) \in Seq(S) /\ IsCut(Cut(s, c, t), s, c, t)
<1>1. <<c>> \in Seq(S) OBVIOUS
<1>2. PICK one \in Seq(S) : one = <<c>> BY <1>1
<1>3. Len(one) = 1 /\ one[1] = c BY <1>2
<1>4. PICK h \in Seq(S) : h = Then(s, one) BY ThenHas
<1>5. IsThen(h, s, one) BY <1>4, ThenHas
<1>6. Len(h) = Len(s) + 1 /\ h[Len(s) + 1] = c /\ \A i \in 1..Len(s) : h[i] = s[i] BY <1>3, <1>5 DEF IsThen
<1>7. PICK x \in Seq(S) : x = Then(h, t) BY ThenHas
<1>8. IsThen(x, h, t) BY <1>7, ThenHas
<1>9. x = Cut(s, c, t) BY <1>2, <1>4, <1>7 DEF Cut
<1>10. x[Len(s) + 1] = c BY <1>6, <1>8 DEF IsThen
<1>11. \A i \in 1..Len(s) : x[i] = s[i] BY <1>6, <1>8 DEF IsThen
<1>12. Len(x) = (Len(s) + 1) + Len(t) BY <1>6, <1>8 DEF IsThen
<1>13. \A i \in 1..Len(t) : x[(Len(s) + 1) + i] = t[i] BY <1>6, <1>8 DEF IsThen
<1>14. IsCut(x, s, c, t) BY <1>10, <1>11, <1>12, <1>13 DEF IsCut
<1> QED BY <1>9, <1>14

\* The character does not occur.
Misses(t, c) == \A i \in 1..Len(t) : t[i] # c

\* What follows the last such character and what precedes it are determined.
LEMMA CutIsUnique ==
  ASSUME NEW S, NEW s \in Seq(S), NEW c \in S, NEW t \in Seq(S), NEW s2 \in Seq(S), NEW t2 \in Seq(S),
         Cut(s, c, t) = Cut(s2, c, t2),
         Misses(t, c), Misses(t2, c)
  PROVE  s = s2 /\ t = t2
<1> USE DEF Misses
<1>1. PICK x \in Seq(S) : x = Cut(s, c, t) /\ x = Cut(s2, c, t2) BY CutHas
<1>2. IsCut(x, s, c, t) BY <1>1, CutHas
<1>3. IsCut(x, s2, c, t2) BY <1>1, CutHas
<1>4. Len(s) \in Nat /\ Len(s2) \in Nat /\ Len(t) \in Nat /\ Len(t2) \in Nat OBVIOUS
<1>5. ~(Len(s) < Len(s2))
  <2> SUFFICES ASSUME Len(s) < Len(s2) PROVE FALSE OBVIOUS
  <2>1. Len(x) = (Len(s) + 1) + Len(t) /\ Len(x) = (Len(s2) + 1) + Len(t2) BY <1>2, <1>3 DEF IsCut
  <2>2. PICK k \in 1..Len(t) : (Len(s) + 1) + k = Len(s2) + 1
    <3> DEFINE k == Len(s2) - Len(s)
    <3>1. k \in 1..Len(t) /\ (Len(s) + 1) + k = Len(s2) + 1 BY <1>4, <2>1
    <3> QED BY <3>1
  <2>3. x[(Len(s) + 1) + k] = t[k] BY <1>2 DEF IsCut
  <2>4. x[Len(s2) + 1] = c BY <1>3 DEF IsCut
  <2> QED BY <2>2, <2>3, <2>4
<1>6. ~(Len(s2) < Len(s))
  <2> SUFFICES ASSUME Len(s2) < Len(s) PROVE FALSE OBVIOUS
  <2>1. Len(x) = (Len(s) + 1) + Len(t) /\ Len(x) = (Len(s2) + 1) + Len(t2) BY <1>2, <1>3 DEF IsCut
  <2>2. PICK k \in 1..Len(t2) : (Len(s2) + 1) + k = Len(s) + 1
    <3> DEFINE k == Len(s) - Len(s2)
    <3>1. k \in 1..Len(t2) /\ (Len(s2) + 1) + k = Len(s) + 1 BY <1>4, <2>1
    <3> QED BY <3>1
  <2>3. x[(Len(s2) + 1) + k] = t2[k] BY <1>3 DEF IsCut
  <2>4. x[Len(s) + 1] = c BY <1>2 DEF IsCut
  <2> QED BY <2>2, <2>3, <2>4
<1>7. Len(s) = Len(s2) /\ Len(t) = Len(t2) BY <1>2, <1>3, <1>4, <1>5, <1>6 DEF IsCut
<1>8. s = s2
  <2>1. \A i \in 1..Len(s) : s[i] = s2[i] BY <1>2, <1>3, <1>7 DEF IsCut
  <2> QED BY <1>7, <2>1, SeqEqual
<1>9. t = t2
  <2>1. ASSUME NEW i \in 1..Len(t) PROVE t[i] = t2[i]
    <3>1. x[(Len(s) + 1) + i] = t[i] BY <1>2 DEF IsCut
    <3>2. x[(Len(s2) + 1) + i] = t2[i] BY <1>3, <1>7 DEF IsCut
    <3> QED BY <1>7, <3>1, <3>2
  <2> QED BY <1>7, <2>1, SeqEqual
<1> QED BY <1>8, <1>9

\* What follows the same beginning is determined.
LEMMA SameRest ==
  ASSUME NEW S, NEW a \in Seq(S), NEW b \in Seq(S), NEW c \in Seq(S), Then(a, b) = Then(a, c)
  PROVE  b = c
<1>1. PICK x \in Seq(S) : x = Then(a, b) /\ x = Then(a, c) BY ThenHas
<1>2. IsThen(x, a, b) BY <1>1, ThenHas
<1>3. IsThen(x, a, c) BY <1>1, ThenHas
<1>4. Len(b) = Len(c) BY <1>2, <1>3 DEF IsThen
<1>5. ASSUME NEW i \in 1..Len(b) PROVE b[i] = c[i]
  <2>1. x[Len(a) + i] = b[i] BY <1>2 DEF IsThen
  <2>2. x[Len(a) + i] = c[i] BY <1>3, <1>4 DEF IsThen
  <2> QED BY <2>1, <2>2
<1> QED BY <1>4, <1>5, SeqEqual

\* What the patterns let pass as an alias, a user or a host.
IsName(a) == a \in Seq(Characters) /\ Len(a) > 0 /\ a[1] = "2" /\ \A i \in 1..Len(a) : a[i] \in {"2", "-", "+"}
\* A name or an address.
IsHost(h) ==
  h \in Seq(Characters) /\ Len(h) > 0 /\ h[1] \in {"2", ":"} /\ \A i \in 1..Len(h) : h[i] \in {"2", "-", ":", "%"}

\* An accepted connection of each mode.
IsAlias(s, a) ==
  /\ s = [mode |-> "alias", alias |-> a, host |-> Authorities!None, user |-> Authorities!None,
          port |-> Authorities!None]
  /\ IsName(a)

\* An explicit authority.
IsDirect(s, h, u, p) ==
  /\ s = [mode |-> "direct", alias |-> Authorities!None, host |-> h, user |-> u, port |-> p]
  /\ IsHost(h) /\ IsName(u) /\ p \in {<<"2">>, <<"2", "2">>}

\* Nothing given is no name, no user and no host.
LEMMA NoneIs == /\ ~Authorities!ValidName(Authorities!None) /\ ~Authorities!ValidUser(Authorities!None)
                /\ ~Authorities!ValidHost(Authorities!None)
<1>1. Authorities!None[1] # "2" /\ Len(Authorities!None) = 1 /\ Authorities!None[1] = "None" BY DEF Authorities!None
<1>2. ~Authorities!Begins(Authorities!None) BY <1>1 DEF Authorities!Begins
<1>3. ~Authorities!IsAddress(Authorities!None)
  <2> SUFFICES ASSUME NEW n \in 0..1, \E i \in 1..n : Authorities!None[i] = ":" PROVE FALSE
    BY <1>1 DEF Authorities!IsAddress
  <2> QED BY <1>1
<1> QED BY <1>2, <1>3 DEF Authorities!ValidName, Authorities!ValidUser, Authorities!ValidHost

\* A host is made of these characters, name or address, with or without a zone.
LEMMA HostIs ==
  ASSUME NEW h \in Seq(Characters), Authorities!ValidHost(h)
  PROVE  IsHost(h)
<1>1. CASE Authorities!ValidName(h)
  BY <1>1 DEF Authorities!ValidName, Authorities!Begins, Authorities!Over, IsHost
<1>2. CASE Authorities!IsAddress(h)
  <2>1. PICK n \in 0..Len(h) :
          /\ Authorities!Over(SubSeq(h, 1, n), {"2", ":"}) /\ \E i \in 1..n : h[i] = ":"
          /\ n < Len(h) => h[n + 1] = "%" /\ n + 1 < Len(h)
    BY <1>2 DEF Authorities!IsAddress
  <2>2. n \in Nat /\ n >= 1 /\ Len(h) \in Nat /\ n <= Len(h) BY <2>1
  <2>3. Len(SubSeq(h, 1, n)) = n /\ \A i \in 1..n : SubSeq(h, 1, n)[i] = h[i] BY <2>2
  <2>4. \A i \in 1..n : h[i] \in {"2", ":"} BY <2>1, <2>3 DEF Authorities!Over
  <2>5. ASSUME NEW i \in 1..Len(h), i > n + 1 PROVE h[i] \in {"2", "-"}
    <3> DEFINE m == n + 1
               k == i - m
               zone == SubSeq(h, m + 1, Len(h))
    <3>1. m \in 1..Len(h) /\ h[m] = "%" /\ m < Len(h) BY <2>1, <2>2, <2>5
    <3>2. \A j \in 1..(m - 1) : h[j] # "%" BY <2>2, <2>4
    <3>3. Authorities!Over(zone, {"2", "-"})
      <4> HIDE DEF m
      <4> QED BY <3>1, <3>2 DEF Authorities!ValidHost
    <3>4. k \in 1..(Len(h) - m) /\ m + k = i BY <2>2, <2>5
    <3> HIDE DEF m, k
    <3>5. Len(zone) = Len(h) - m BY <3>1
    <3>6. zone[k] = h[m + k] BY <3>1, <3>4
    <3>7. zone[k] \in {"2", "-"}
      <4> HIDE DEF zone
      <4> QED BY <3>3, <3>4, <3>5 DEF Authorities!Over
    <3> QED BY <3>4, <3>6, <3>7
  <2>6. ASSUME NEW i \in 1..Len(h) PROVE h[i] \in {"2", "-", ":", "%"}
    <3>1. CASE i \in 1..n BY <2>4, <3>1
    <3>2. CASE i = n + 1 BY <2>1, <2>2, <3>2
    <3>3. CASE i > n + 1 BY <2>5, <3>3
    <3> QED BY <2>2, <3>1, <3>2, <3>3
  <2>7. h[1] \in {"2", ":"} BY <2>2, <2>4
  <2> QED BY <2>2, <2>6, <2>7 DEF IsHost
<1> QED BY <1>1, <1>2 DEF Authorities!ValidHost

\* There are no others.
LEMMA AcceptedIs ==
  ASSUME NEW s \in Authorities!Accepted
  PROVE  (\E a : IsAlias(s, a)) \/ \E h, u, p : IsDirect(s, h, u, p)
<1> USE DEF IsAlias, IsDirect
<1>1. s \in Authorities!Candidates /\ Authorities!Accepts(s) BY DEF Authorities!Accepted
<1>2. s = [mode |-> s.mode, alias |-> s.alias, host |-> s.host, user |-> s.user, port |-> s.port]
  BY <1>1 DEF Authorities!Candidates
<1>3. <<"2">> \in Seq(Characters) BY DEF Characters
<1>4. CASE s.mode = "alias"
  <2>1. /\ s.alias # Authorities!None /\ s.host = Authorities!None /\ s.user = Authorities!None
        /\ s.port = Authorities!None /\ Authorities!ValidName(s.alias)
    BY <1>1, <1>4 DEF Authorities!Accepts
  <2>2. s.alias \in {Authorities!None, <<"2">>} \cup Texts
    BY <1>1, <1>4 DEF Authorities!Candidates
  <2>3. s.alias \in Seq(Characters) BY <1>3, <2>1, <2>2, AuthorityAssumption
  <2>4. IsName(s.alias)
    BY <2>1, <2>3 DEF IsName, Authorities!ValidName, Authorities!Begins, Authorities!Over
  <2> QED BY <1>2, <1>4, <2>1, <2>4
<1>5. CASE s.mode = "direct"
  <2>1. /\ s.alias = Authorities!None /\ Authorities!ValidPort(s.port) /\ Authorities!ValidHost(s.host)
        /\ Authorities!ValidUser(s.user)
    BY <1>1, <1>5 DEF Authorities!Accepts
  <2>2. s.host \in {Authorities!None, <<"2">>} \cup Texts /\ s.user \in {Authorities!None, <<"2">>} \cup Users
    BY <1>1, <1>5 DEF Authorities!Candidates
  <2>3. s.host \in Seq(Characters) /\ s.user \in Seq(Characters)
    BY <1>3, <2>1, <2>2, NoneIs, AuthorityAssumption
  <2>4. IsHost(s.host) BY <2>1, <2>3, HostIs
  <2>5. IsName(s.user)
    BY <2>1, <2>3 DEF IsName, Authorities!ValidUser, Authorities!Begins, Authorities!Over
  <2> QED BY <1>2, <1>5, <2>1, <2>4, <2>5 DEF Authorities!ValidPort
<1> QED BY <1>1, <1>4, <1>5 DEF Authorities!Accepts

\* No name has a colon, no part has a bracket or, but for its port, an at sign.
LEMMA WordsAreSymbols ==
  /\ \A a : IsName(a) => a \in Seq(Symbols) /\ \A i \in 1..Len(a) : a[i] \notin {":", "@", "]"}
  /\ \A h : IsHost(h) => h \in Seq(Symbols) /\ \A i \in 1..Len(h) : h[i] \notin {"@", "]"}
  /\ \A p \in {<<"2">>, <<"2", "2">>} : p \in Seq(Symbols) /\ \A i \in 1..Len(p) : p[i] \notin {":", "]"}
  /\ <<"alias", ":">> \in Seq(Symbols) /\ <<"direct", ":">> \in Seq(Symbols)
  /\ <<"[">> \in Seq(Symbols) /\ <<":", "p">> \in Seq(Symbols)
<1>1. ASSUME NEW x \in Seq(Characters) PROVE x \in Seq(Symbols)
  <2>1. Len(x) \in Nat /\ x \in [1..Len(x) -> Characters] OBVIOUS
  <2>2. x \in [1..Len(x) -> Symbols] BY <2>1 DEF Symbols
  <2> QED BY <2>1, <2>2
<1>2. \A a : IsName(a) => a \in Seq(Symbols) /\ \A i \in 1..Len(a) : a[i] \notin {":", "@", "]"}
  BY <1>1 DEF IsName
<1>3. \A h : IsHost(h) => h \in Seq(Symbols) /\ \A i \in 1..Len(h) : h[i] \notin {"@", "]"}
  BY <1>1 DEF IsHost
<1>4. \A p \in {<<"2">>, <<"2", "2">>} : p \in Seq(Symbols) /\ \A i \in 1..Len(p) : p[i] \notin {":", "]"}
  <2>1. "2" \in Symbols BY DEF Symbols, Characters
  <2>2. <<"2">> \in Seq(Symbols) /\ <<"2", "2">> \in Seq(Symbols) BY <2>1
  <2>3. /\ \A i \in 1..Len(<<"2">>) : <<"2">>[i] \notin {":", "]"}
        /\ \A i \in 1..Len(<<"2", "2">>) : <<"2", "2">>[i] \notin {":", "]"}
    OBVIOUS
  <2> QED BY <2>2, <2>3
<1>5. <<"alias", ":">> \in Seq(Symbols) /\ <<"direct", ":">> \in Seq(Symbols)
  BY DEF Symbols, Characters
<1>6. <<"[">> \in Seq(Symbols) /\ <<":", "p">> \in Seq(Symbols) BY DEF Symbols, Characters
<1> QED BY <1>2, <1>3, <1>4, <1>5, <1>6

\* The cache key of an alias.
LEMMA AliasKey ==
  ASSUME NEW s, NEW a, IsAlias(s, a)
  PROVE  Authorities!cache_key(s) = Then(<<"alias", ":">>, a) /\ Authorities!cache_key(s)[1] = "alias"
<1>1. Authorities!cache_key(s) = Then(<<"alias", ":">>, a)
  BY DEF IsAlias, Authorities!cache_key, Then
<1>2. IsThen(Then(<<"alias", ":">>, a), <<"alias", ":">>, a) BY WordsAreSymbols, ThenHas DEF IsAlias
<1>3. 1 \in 1..Len(<<"alias", ":">>) /\ <<"alias", ":">>[1] = "alias" OBVIOUS
<1>4. Then(<<"alias", ":">>, a)[1] = "alias" BY <1>2, <1>3 DEF IsThen
<1> QED BY <1>1, <1>4

\* The cache key of an explicit authority, cut at the at sign and at the port's colon.
DirectKey(h, u, p) == Cut(Cut(Then(<<"direct", ":">>, u), "@", h), ":", p)

\* That is what the code renders, and it does not begin like an alias's.
LEMMA DirectKeyIs ==
  ASSUME NEW s, NEW h, NEW u, NEW p, IsDirect(s, h, u, p)
  PROVE  Authorities!cache_key(s) = DirectKey(h, u, p) /\ Authorities!cache_key(s)[1] = "direct"
<1> DEFINE x == Then(<<"direct", ":">>, u)
           y == Cut(x, "@", h)
<1>1. /\ h \in Seq(Symbols) /\ u \in Seq(Symbols) /\ p \in Seq(Symbols) /\ <<"direct", ":">> \in Seq(Symbols)
      /\ "@" \in Symbols /\ ":" \in Symbols
  BY WordsAreSymbols DEF IsDirect, Symbols, Characters
<1>2. Authorities!cache_key(s) = DirectKey(h, u, p)
  BY DEF IsDirect, Authorities!cache_key, Then, Cut, DirectKey
<1>3. x \in Seq(Symbols) /\ IsThen(x, <<"direct", ":">>, u) BY <1>1, ThenHas
<1>4. 1 \in 1..Len(<<"direct", ":">>) /\ <<"direct", ":">>[1] = "direct" /\ Len(<<"direct", ":">>) = 2 OBVIOUS
<1>5. x[1] = "direct" BY <1>3, <1>4 DEF IsThen
<1>6. 1 \in 1..Len(x)
  <2>1. Len(u) \in Nat BY <1>1
  <2> QED BY <1>3, <1>4, <2>1 DEF IsThen
<1> HIDE DEF x
<1>7. y \in Seq(Symbols) /\ IsCut(y, x, "@", h) BY <1>1, <1>3, CutHas
<1>8. y[1] = "direct" /\ 1 \in 1..Len(y)
  <2>1. Len(x) \in Nat /\ Len(h) \in Nat BY <1>1, <1>3
  <2> QED BY <1>5, <1>6, <1>7, <2>1 DEF IsCut
<1> HIDE DEF y
<1>9. IsCut(Cut(y, ":", p), y, ":", p) BY <1>1, <1>7, CutHas
<1>10. Cut(y, ":", p)[1] = "direct" BY <1>8, <1>9 DEF IsCut
<1>11. DirectKey(h, u, p) = Cut(y, ":", p) BY DEF DirectKey, x, y
<1> QED BY <1>2, <1>10, <1>11

\* The cache key determines the connection.
LEMMA KeyIsIdentity ==
  ASSUME NEW s \in Authorities!Accepted, NEW s2 \in Authorities!Accepted,
         Authorities!cache_key(s) = Authorities!cache_key(s2)
  PROVE  s = s2
<1>1. (\E a : IsAlias(s, a)) \/ \E h, u, p : IsDirect(s, h, u, p) BY AcceptedIs DEF IsAlias, IsDirect
<1>2. (\E a : IsAlias(s2, a)) \/ \E h, u, p : IsDirect(s2, h, u, p) BY AcceptedIs DEF IsAlias, IsDirect
<1>3. ASSUME NEW a, IsAlias(s, a), NEW a2, IsAlias(s2, a2) PROVE s = s2
  <2>1. Then(<<"alias", ":">>, a) = Then(<<"alias", ":">>, a2) BY <1>3, AliasKey
  <2>2. a \in Seq(Symbols) /\ a2 \in Seq(Symbols) /\ <<"alias", ":">> \in Seq(Symbols)
    BY <1>3, WordsAreSymbols DEF IsAlias
  <2>3. a = a2 BY <2>1, <2>2, SameRest
  <2> QED BY <1>3, <2>3 DEF IsAlias
<1>4. ASSUME NEW a, IsAlias(s, a), NEW h2, NEW u2, NEW p2, IsDirect(s2, h2, u2, p2) PROVE s = s2
  BY <1>4, AliasKey, DirectKeyIs
<1>5. ASSUME NEW a2, IsAlias(s2, a2), NEW h, NEW u, NEW p, IsDirect(s, h, u, p) PROVE s = s2
  BY <1>5, AliasKey, DirectKeyIs
<1>6. ASSUME NEW h, NEW u, NEW p, IsDirect(s, h, u, p), NEW h2, NEW u2, NEW p2, IsDirect(s2, h2, u2, p2)
      PROVE  s = s2
  <2> DEFINE x == Then(<<"direct", ":">>, u)
             x2 == Then(<<"direct", ":">>, u2)
             y == Cut(x, "@", h)
             y2 == Cut(x2, "@", h2)
  <2>1. /\ h \in Seq(Symbols) /\ u \in Seq(Symbols) /\ p \in Seq(Symbols) /\ <<"direct", ":">> \in Seq(Symbols)
        /\ h2 \in Seq(Symbols) /\ u2 \in Seq(Symbols) /\ p2 \in Seq(Symbols)
        /\ "@" \in Symbols /\ ":" \in Symbols
    BY <1>6, WordsAreSymbols DEF IsDirect, Symbols, Characters
  <2>2. Misses(p, ":") /\ Misses(p2, ":") /\ Misses(h, "@") /\ Misses(h2, "@")
    BY <1>6, WordsAreSymbols DEF IsDirect, Misses
  <2>3. x \in Seq(Symbols) /\ x2 \in Seq(Symbols) BY <2>1, ThenHas
  <2>4. DirectKey(h, u, p) = Cut(y, ":", p) /\ DirectKey(h2, u2, p2) = Cut(y2, ":", p2) BY DEF DirectKey
  <2> HIDE DEF x, x2
  <2>5. y \in Seq(Symbols) /\ y2 \in Seq(Symbols) BY <2>1, <2>3, CutHas
  <2> HIDE DEF y, y2
  <2>6. Cut(y, ":", p) = Cut(y2, ":", p2) BY <1>6, <2>4, DirectKeyIs
  <2>7. y = y2 /\ p = p2 BY <2>1, <2>2, <2>5, <2>6, CutIsUnique
  <2>8. Cut(x, "@", h) = Cut(x2, "@", h2) BY <2>7 DEF y, y2
  <2>9. x = x2 /\ h = h2 BY <2>1, <2>2, <2>3, <2>8, CutIsUnique
  <2>10. Then(<<"direct", ":">>, u) = Then(<<"direct", ":">>, u2) BY <2>9 DEF x, x2
  <2>11. u = u2 BY <2>1, <2>10, SameRest
  <2> QED BY <1>6, <2>7, <2>9, <2>11 DEF IsDirect
<1> QED BY <1>1, <1>2, <1>3, <1>4, <1>5, <1>6

\* The destination and the user are words and no options.
LEMMA TokensAreWords ==
  ASSUME spec \in Authorities!Accepted
  PROVE  Authorities!NoTokenIsAnOption
<1>1. \A a : IsName(a) => a[1] # "-" /\ \A i \in 1..Len(a) : a[i] \notin {" ", "@"} BY DEF IsName
<1>2. \A h : IsHost(h) => h[1] # "-" /\ \A i \in 1..Len(h) : h[i] \notin {" ", "@"} BY DEF IsHost
<1>3. ASSUME NEW a, IsAlias(spec, a) PROVE Authorities!NoTokenIsAnOption
  <2>1. Authorities!destination(spec) = a /\ spec.mode # "direct" BY <1>3 DEF IsAlias, Authorities!destination
  <2>2. IsName(a) BY <1>3 DEF IsAlias
  <2> QED BY <1>1, <2>1, <2>2 DEF Authorities!NoTokenIsAnOption
<1>4. ASSUME NEW h, NEW u, NEW p, IsDirect(spec, h, u, p) PROVE Authorities!NoTokenIsAnOption
  <2>1. Authorities!destination(spec) = h /\ spec.user = u BY <1>4 DEF IsDirect, Authorities!destination
  <2>2. IsHost(h) /\ IsName(u) BY <1>4 DEF IsDirect
  <2> QED BY <1>1, <1>2, <2>1, <2>2 DEF Authorities!NoTokenIsAnOption
<1> QED BY <1>3, <1>4, AcceptedIs DEF IsAlias, IsDirect

\* The first place of a character.
Place(text, c) == CHOOSE i \in 1..Len(text) : text[i] = c /\ \A j \in 1..(i - 1) : text[j] # c

\* There is only one.
LEMMA PlaceIs ==
  ASSUME NEW S, NEW text \in Seq(S), NEW c, NEW k \in 1..Len(text), text[k] = c,
         \A j \in 1..(k - 1) : text[j] # c
  PROVE  Place(text, c) = k
<1> DEFINE First(i) == text[i] = c /\ \A j \in 1..(i - 1) : text[j] # c
           q == CHOOSE i \in 1..Len(text) : First(i)
<1>1. q \in 1..Len(text) /\ First(q)
  <2>1. \E i \in 1..Len(text) : First(i) OBVIOUS
  <2> HIDE DEF First
  <2> QED BY <2>1
<1>2. Place(text, c) = q BY DEF Place
<1> HIDE DEF q
<1>3. Len(text) \in Nat OBVIOUS
<1>4. ~(q < k) BY <1>1, <1>3
<1>5. ~(k < q) BY <1>1, <1>3
<1> QED BY <1>1, <1>2, <1>3, <1>4, <1>5

\* How rsync reads a target.
LEMMA RsyncHostIs ==
  ASSUME NEW text
  PROVE  Authorities!RsyncHost(text) =
           IF text[1] = "[" THEN SubSeq(text, 2, Place(text, "]") - 1) ELSE SubSeq(text, 1, Place(text, ":") - 1)
BY DEF Authorities!RsyncHost, Place

\* This decides on the brackets.
HasColon(h) == \E i \in 1..Len(h) : h[i] = ":"

\* What follows the target.
Rest == <<":", "p">>

\* A destination without a colon is read up to the first colon.
LEMMA PlainHost ==
  ASSUME NEW d \in Seq(Symbols), Len(d) > 0, d[1] # "[", Misses(d, ":")
  PROVE  Authorities!RsyncHost(Then(d, Rest)) = d
<1>1. Rest \in Seq(Symbols) BY WordsAreSymbols DEF Rest
<1>2. Len(Rest) = 2 /\ Rest[1] = ":" BY DEF Rest
<1>3. PICK text \in Seq(Symbols) : text = Then(d, Rest) BY <1>1, ThenHas
<1>4. IsThen(text, d, Rest) BY <1>1, <1>3, ThenHas
<1>5. Len(d) \in Nat OBVIOUS
<1> DEFINE k == Len(d) + 1
<1>6. text[k] = ":" BY <1>2, <1>4 DEF IsThen
<1>7. Len(text) = Len(d) + 2 BY <1>2, <1>4 DEF IsThen
<1>8. k \in 1..Len(text) /\ k - 1 = Len(d) BY <1>5, <1>7
<1>9. \A j \in 1..Len(d) : text[j] = d[j] BY <1>4 DEF IsThen
<1>10. \A j \in 1..(k - 1) : text[j] # ":" BY <1>8, <1>9 DEF Misses
<1> HIDE DEF k
<1>11. Place(text, ":") = k BY <1>6, <1>8, <1>10, PlaceIs
<1>12. text[1] = d[1] BY <1>5, <1>9
<1>13. Authorities!RsyncHost(text) = SubSeq(text, 1, Len(d)) BY <1>8, <1>11, <1>12, RsyncHostIs
<1>14. PICK e \in Seq(Symbols) : e = SubSeq(text, 1, Len(d))
  <2>1. \A i \in 1..Len(d) : i \in 1..Len(text) BY <1>5, <1>7
  <2>2. SubSeq(text, 1, Len(d)) \in Seq(Symbols) BY <1>5, <2>1
  <2> QED BY <2>2
<1>15. Len(e) = Len(d) BY <1>5, <1>7, <1>14
<1>16. \A j \in 1..Len(e) : e[j] = d[j] BY <1>5, <1>7, <1>9, <1>14, <1>15
<1>17. e = d BY <1>15, <1>16, SeqEqual
<1> QED BY <1>3, <1>13, <1>14, <1>17

\* One in brackets is read up to the bracket that closes.
LEMMA BracketedHost ==
  ASSUME NEW h \in Seq(Symbols), Misses(h, "]")
  PROVE  Authorities!RsyncHost(Cut(Then(<<"[">>, h), "]", Rest)) = h
<1> DEFINE open == <<"[">>
<1>1. Rest \in Seq(Symbols) /\ open \in Seq(Symbols) /\ "]" \in Symbols BY WordsAreSymbols DEF Rest, Symbols
<1>2. Len(open) = 1 /\ open[1] = "[" /\ Len(Rest) = 2 BY DEF Rest
<1> HIDE DEF open
<1>3. PICK x \in Seq(Symbols) : x = Then(open, h) BY <1>1, ThenHas
<1>4. IsThen(x, open, h) BY <1>1, <1>3, ThenHas
<1>5. Len(h) \in Nat OBVIOUS
<1>6. Len(x) = 1 + Len(h) /\ x[1] = "[" BY <1>2, <1>4 DEF IsThen
<1>7. \A i \in 1..Len(h) : x[1 + i] = h[i] BY <1>2, <1>4 DEF IsThen
<1>8. PICK text \in Seq(Symbols) : text = Cut(x, "]", Rest) BY <1>1, CutHas
<1>9. IsCut(text, x, "]", Rest) BY <1>1, <1>8, CutHas
<1> DEFINE k == Len(x) + 1
<1>10. text[k] = "]" /\ Len(text) = k + 2 /\ \A i \in 1..Len(x) : text[i] = x[i] BY <1>2, <1>9 DEF IsCut
<1>11. k \in 1..Len(text) /\ k - 1 = 1 + Len(h) /\ k - 1 = Len(x) /\ k \in Nat BY <1>5, <1>6, <1>10
<1> HIDE DEF k
<1>12. ASSUME NEW j \in 1..(k - 1) PROVE text[j] # "]"
  <2>1. text[j] = x[j] BY <1>10, <1>11
  <2>2. CASE j = 1 BY <1>6, <2>1, <2>2
  <2>3. CASE j # 1
    <3>1. PICK i \in 1..Len(h) : j = 1 + i
      <4> DEFINE m == j - 1
      <4>1. m \in 1..Len(h) /\ j = 1 + m BY <1>5, <1>11, <2>3
      <4> QED BY <4>1
    <3> QED BY <1>7, <2>1, <3>1 DEF Misses
  <2> QED BY <2>2, <2>3
<1>13. Place(text, "]") = k BY <1>10, <1>11, <1>12, PlaceIs
<1>14. text[1] = "[" BY <1>5, <1>6, <1>10
<1>15. Authorities!RsyncHost(text) = SubSeq(text, 2, 1 + Len(h)) BY <1>11, <1>13, <1>14, RsyncHostIs
<1>16. PICK e \in Seq(Symbols) : e = SubSeq(text, 2, 1 + Len(h))
  <2>1. \A i \in 2..(1 + Len(h)) : i \in 1..Len(text) BY <1>5, <1>10, <1>11
  <2>2. SubSeq(text, 2, 1 + Len(h)) \in Seq(Symbols) BY <1>5, <2>1
  <2> QED BY <2>2
<1>17. Len(e) = Len(h) BY <1>5, <1>10, <1>11, <1>16
<1>18. ASSUME NEW i \in 1..Len(e) PROVE e[i] = h[i]
  <2>1. e[i] = text[1 + i] BY <1>5, <1>10, <1>11, <1>16, <1>17
  <2>2. 1 + i \in 1..Len(x) BY <1>5, <1>6, <1>17
  <2> QED BY <1>7, <1>10, <1>17, <2>1, <2>2
<1>19. e = h BY <1>17, <1>18, SeqEqual
<1> QED BY <1>3, <1>8, <1>15, <1>16, <1>19 DEF open

\* rsync reads the destination of every accepted connection.
LEMMA TargetIsRead ==
  ASSUME spec \in Authorities!Accepted
  PROVE  Authorities!RsyncFindsDestination
<1>1. ASSUME NEW a, IsAlias(spec, a)
      PROVE  Authorities!RsyncHost(Authorities!rsync_target(spec) \o <<":", "p">>) = Authorities!destination(spec)
  <2>1. Authorities!rsync_target(spec) = a /\ Authorities!destination(spec) = a
    BY <1>1 DEF IsAlias, Authorities!rsync_target, Authorities!destination
  <2>2. a \in Seq(Symbols) /\ Len(a) > 0 /\ a[1] # "[" /\ Misses(a, ":")
    BY <1>1, WordsAreSymbols DEF IsAlias, IsName, Misses
  <2>3. Authorities!RsyncHost(Then(a, Rest)) = a BY <2>2, PlainHost
  <2> QED BY <2>1, <2>3 DEF Then, Rest
<1>2. ASSUME NEW h, NEW u, NEW p, IsDirect(spec, h, u, p)
      PROVE  Authorities!RsyncHost(Authorities!rsync_target(spec) \o <<":", "p">>) = Authorities!destination(spec)
  <2>1. Authorities!rsync_target(spec) = Authorities!Bracketed(h) /\ Authorities!destination(spec) = h
    BY <1>2 DEF IsDirect, Authorities!rsync_target, Authorities!destination
  <2>2. h \in Seq(Symbols) /\ Len(h) > 0 /\ h[1] # "[" /\ Misses(h, "]")
    BY <1>2, WordsAreSymbols DEF IsDirect, IsHost, Misses
  <2>3. CASE HasColon(h)
    <3>1. Authorities!Bracketed(h) \o <<":", "p">> = Cut(Then(<<"[">>, h), "]", Rest)
      BY <2>3 DEF HasColon, Authorities!Bracketed, Cut, Then, Rest
    <3>2. Authorities!RsyncHost(Cut(Then(<<"[">>, h), "]", Rest)) = h BY <2>2, BracketedHost
    <3> QED BY <2>1, <3>1, <3>2
  <2>4. CASE ~HasColon(h)
    <3>1. Authorities!Bracketed(h) \o <<":", "p">> = Then(h, Rest)
      BY <2>4 DEF HasColon, Authorities!Bracketed, Then, Rest
    <3>2. Misses(h, ":") BY <2>4 DEF Misses, HasColon
    <3>3. Authorities!RsyncHost(Then(h, Rest)) = h BY <2>2, <3>2, PlainHost
    <3> QED BY <2>1, <3>1, <3>3
  <2> QED BY <2>3, <2>4
<1> QED BY <1>1, <1>2, AcceptedIs DEF IsAlias, IsDirect, Authorities!RsyncFindsDestination

\* Without a colon, or with a bracket after every one.
Bounded(b) == Misses(b, ":") \/ (Len(b) > 0 /\ b[Len(b)] = "]")

\* A colon that no bracket follows.
IsLastColon(text, n) ==
  n \in 1..Len(text) /\ text[n] = ":" /\ \A i \in n..Len(text) : text[i] # "]"

\* What follows it.
After(text, n) == SubSeq(text, n + 1, Len(text))

\* It is the colon of the port.
LEMMA PortIsRead ==
  ASSUME NEW u \in Seq(Symbols), NEW b \in Seq(Symbols), NEW p \in Seq(Symbols), Misses(u, ":"), Misses(p, ":"),
         Bounded(b), NEW text, text = Cut(Cut(u, "@", b), ":", p), NEW n, IsLastColon(text, n)
  PROVE  After(text, n) = p
<1>0. /\ Misses(b, ":") \/ (Len(b) > 0 /\ b[Len(b)] = "]")
      /\ n \in 1..Len(text) /\ text[n] = ":" /\ \A i \in n..Len(text) : text[i] # "]"
  BY DEF Bounded, IsLastColon
<1>1. "@" \in Symbols /\ ":" \in Symbols BY DEF Symbols, Characters
<1>2. PICK y \in Seq(Symbols) : y = Cut(u, "@", b) BY <1>1, CutHas
<1>3. IsCut(y, u, "@", b) BY <1>1, <1>2, CutHas
<1>4. text \in Seq(Symbols) /\ IsCut(text, y, ":", p) BY <1>1, <1>2, CutHas
<1>5. Len(u) \in Nat /\ Len(b) \in Nat /\ Len(p) \in Nat /\ Len(y) \in Nat /\ n \in Nat BY <1>0, <1>4
<1>6. Len(y) = (Len(u) + 1) + Len(b) BY <1>3 DEF IsCut
<1>7. Len(text) = (Len(y) + 1) + Len(p) BY <1>4 DEF IsCut
<1>8. ~(n > Len(y) + 1)
  <2> SUFFICES ASSUME n > Len(y) + 1 PROVE FALSE OBVIOUS
  <2>1. PICK k \in 1..Len(p) : n = (Len(y) + 1) + k
    <3> DEFINE m == n - (Len(y) + 1)
    <3>1. m \in 1..Len(p) /\ n = (Len(y) + 1) + m BY <1>0, <1>5, <1>7
    <3> QED BY <3>1
  <2>2. text[(Len(y) + 1) + k] = p[k] BY <1>4 DEF IsCut
  <2> QED BY <1>0, <2>1, <2>2 DEF Misses
<1>9. ~(n <= Len(y))
  <2> SUFFICES ASSUME n <= Len(y) PROVE FALSE OBVIOUS
  <2>1. text[n] = y[n] /\ y[n] = ":" BY <1>0, <1>4, <1>5 DEF IsCut
  <2>2. ~(n <= Len(u))
    <3> SUFFICES ASSUME n <= Len(u) PROVE FALSE OBVIOUS
    <3>1. y[n] = u[n] /\ n \in 1..Len(u) BY <1>0, <1>3, <1>5 DEF IsCut
    <3> QED BY <2>1, <3>1 DEF Misses
  <2>3. n # Len(u) + 1
    <3> SUFFICES ASSUME n = Len(u) + 1 PROVE FALSE OBVIOUS
    <3>1. y[Len(u) + 1] = "@" BY <1>3 DEF IsCut
    <3> QED BY <2>1, <3>1
  <2>4. PICK k \in 1..Len(b) : n = (Len(u) + 1) + k
    <3> DEFINE m == n - (Len(u) + 1)
    <3>1. m \in 1..Len(b) /\ n = (Len(u) + 1) + m BY <1>5, <1>6, <2>2, <2>3
    <3> QED BY <3>1
  <2>5. b[k] = ":"
    <3>1. y[(Len(u) + 1) + k] = b[k] BY <1>3 DEF IsCut
    <3> QED BY <2>1, <2>4, <3>1
  <2>6. Len(b) > 0 /\ b[Len(b)] = "]" BY <1>0, <2>5 DEF Misses
  <2>7. y[Len(y)] = "]"
    <3>1. Len(b) \in 1..Len(b) BY <1>5, <2>6
    <3>2. y[(Len(u) + 1) + Len(b)] = b[Len(b)] BY <1>3, <3>1 DEF IsCut
    <3> QED BY <1>6, <2>6, <3>2
  <2>8. Len(y) \in 1..Len(y) /\ Len(y) \in n..Len(text) BY <1>5, <1>6, <1>7
  <2>9. text[Len(y)] = y[Len(y)] BY <1>4, <2>8 DEF IsCut
  <2> QED BY <1>0, <2>7, <2>8, <2>9
<1>10. n = Len(y) + 1 BY <1>5, <1>8, <1>9
<1>11. PICK e \in Seq(Symbols) : e = SubSeq(text, n + 1, Len(text))
  <2>1. \A i \in (n + 1)..Len(text) : i \in 1..Len(text) BY <1>5
  <2>2. SubSeq(text, n + 1, Len(text)) \in Seq(Symbols) BY <1>4, <1>5, <2>1
  <2> QED BY <2>2
<1>12. Len(e) = Len(p) BY <1>4, <1>5, <1>7, <1>10, <1>11
<1>13. ASSUME NEW i \in 1..Len(p) PROVE e[i] = p[i]
  <2>1. e[i] = text[n + i] BY <1>4, <1>5, <1>7, <1>10, <1>11
  <2>2. text[(Len(y) + 1) + i] = p[i] BY <1>4 DEF IsCut
  <2> QED BY <1>10, <2>1, <2>2
<1>14. e = p BY <1>12, <1>13, SeqEqual
<1> QED BY <1>11, <1>14 DEF After

\* The port is read from the sanitized text of every explicit authority.
LEMMA DisplayIsRead ==
  ASSUME spec \in Authorities!Accepted
  PROVE  Authorities!DisplayIsUnambiguous
<1> SUFFICES ASSUME NEW h, NEW u, NEW p, IsDirect(spec, h, u, p)
             PROVE  Authorities!DisplayIsUnambiguous
  <2>1. CASE \E a : IsAlias(spec, a)
    BY <2>1 DEF IsAlias, Authorities!DisplayIsUnambiguous
  <2> QED BY <2>1, AcceptedIs DEF IsAlias, IsDirect
<1> DEFINE text == Authorities!display_target(spec)
           b == Authorities!Bracketed(h)
<1>1. text = Cut(Cut(u, "@", b), ":", p)
  BY DEF IsDirect, Authorities!display_target, Cut, Then
<1>2. /\ u \in Seq(Symbols) /\ h \in Seq(Symbols) /\ p \in Seq(Symbols) /\ Misses(u, ":") /\ Misses(p, ":")
  BY WordsAreSymbols DEF IsDirect, Misses
<1>3. b \in Seq(Symbols) /\ Bounded(b)
  <2>1. CASE HasColon(h)
    <3>1. <<"[">> \in Seq(Symbols) /\ "]" \in Symbols /\ <<>> \in Seq(Symbols) BY WordsAreSymbols DEF Symbols
    <3>2. b = Then(Then(<<"[">>, h), <<"]">>) BY <2>1 DEF HasColon, Authorities!Bracketed, Then
    <3>3. PICK x \in Seq(Symbols) : x = Then(<<"[">>, h) BY <1>2, <3>1, ThenHas
    <3>4. PICK close \in Seq(Symbols) : close = <<"]">>
      <4>1. <<"]">> \in Seq(Symbols) BY <3>1
      <4> QED BY <4>1
    <3>5. Len(close) = 1 /\ close[1] = "]" BY <3>4
    <3>6. b \in Seq(Symbols) /\ IsThen(b, x, close) BY <3>2, <3>3, <3>4, ThenHas
    <3>7. Len(x) \in Nat OBVIOUS
    <3>8. Len(b) = Len(x) + 1 /\ b[Len(x) + 1] = "]" BY <3>5, <3>6 DEF IsThen
    <3> QED BY <3>6, <3>7, <3>8 DEF Bounded
  <2>2. CASE ~HasColon(h)
    BY <1>2, <2>2 DEF HasColon, Authorities!Bracketed, Misses, Bounded
  <2> QED BY <2>1, <2>2
<1>4. spec.port = p BY DEF IsDirect
<1> HIDE DEF text, b
<1>5. ASSUME NEW n \in 1..Len(text), text[n] = ":", \A i \in n..Len(text) : text[i] # "]"
      PROVE  SubSeq(text, n + 1, Len(text)) = spec.port
  <2>1. IsLastColon(text, n) BY <1>5 DEF IsLastColon
  <2>2. After(text, n) = p BY <1>1, <1>2, <1>3, <2>1, PortIsRead
  <2> QED BY <1>4, <2>2 DEF After
<1> QED BY <1>5 DEF text, Authorities!DisplayIsUnambiguous

\* What has been accepted passed the checks: the inductive invariant.
Sound == outcome = "accepted" => spec \in Authorities!Accepted

\* The constructor keeps it.
LEMMA AuthorityNext == Sound /\ (Authorities!Next \/ UNCHANGED authorityVars) => Sound'
<1> SUFFICES ASSUME Sound, Authorities!Next \/ UNCHANGED authorityVars, outcome' = "accepted"
             PROVE  spec' \in Authorities!Accepted
  BY DEF Sound
<1>1. CASE Authorities!Construct
  BY <1>1 DEF Authorities!Construct, Authorities!Accepted
<1>2. CASE UNCHANGED authorityVars
  BY <1>2 DEF authorityVars, Sound
<1> QED BY <1>1, <1>2 DEF Authorities!Next, Authorities!Finished, Authorities!vars, authorityVars

\* So an accepted connection's names are its own.
LEMMA SoundIsExact == Sound => NamesAreExact
<1> SUFFICES ASSUME Sound PROVE NamesAreExact
  OBVIOUS
<1>1. CASE outcome # "accepted"
  BY <1>1 DEF NamesAreExact, Authorities!CacheKeyIsIdentity, Authorities!NoTokenIsAnOption,
              Authorities!RsyncFindsDestination, Authorities!DisplayIsUnambiguous
<1>2. CASE spec \in Authorities!Accepted
  <2>1. Authorities!CacheKeyIsIdentity BY <1>2, KeyIsIdentity DEF Authorities!CacheKeyIsIdentity
  <2> QED BY <1>2, <2>1, TokensAreWords, TargetIsRead, DisplayIsRead DEF NamesAreExact
<1> QED BY <1>1, <1>2 DEF Sound

\* NamesAreExact, for every set of texts, users and ports that a caller may pass: the
\* cache key, the words, the rsync target and the sanitized text of an accepted
\* connection cannot be taken for anything else.
THEOREM NamesStayExact == AllSpec => []NamesAreExact
<1>1. AllInit => Sound BY DEF AllInit, Authorities!Init, Sound
<1>2. Sound /\ [AllNext]_allVars => Sound' BY StepOfEach, AuthorityNext
<1>3. Sound => NamesAreExact BY SoundIsExact
<1> QED BY <1>1, <1>2, <1>3, PTL DEF AllSpec

(***************************************************************************)
(* The ssh command lines (MuxCommands).                                    *)
(***************************************************************************)
\* The sequences of up to n elements are sequences.
LEMMA SeqOfIsSeq == ASSUME NEW S, NEW n \in Nat, NEW s \in Commands!SeqOf(S, n) PROVE s \in Seq(S)
<1>1. PICK m \in 0..n : s \in [1..m -> S] BY DEF Commands!SeqOf
<1> QED BY <1>1

\* The options that the code itself sets.
Options ==
  [key : {"ControlPath", "ControlMaster", "ControlPersist", "BatchMode", "Prompts", "Isolation",
          "ProxyCommand", "StdinNull", "Authentication", "ConnectTimeout", "ServerAlive", "User", "Port",
          "SessionType", "Operation"},
   value : {"own", "yes", "no", "on", "settings", "none", "false", "off", "spec", "default", "check"},
   as : {"option", "flag"}]

\* All options that ssh may see.
Given == Options \cup Appended \cup Configured

\* The transport's options as one sequence, without the authority's.
Transport ==
  <<[key |-> "ControlPath", value |-> "own", as |-> "flag"],
    [key |-> "ControlMaster", value |-> "no", as |-> "option"],
    [key |-> "ControlPersist", value |-> "no", as |-> "option"],
    [key |-> "BatchMode", value |-> "yes", as |-> "option"],
    [key |-> "Prompts", value |-> "none", as |-> "option"],
    [key |-> "Isolation", value |-> "on", as |-> "option"],
    [key |-> "ProxyCommand", value |-> "false", as |-> "option"],
    [key |-> "StdinNull", value |-> "no", as |-> "option"],
    [key |-> "Authentication", value |-> "off", as |-> "option"]>>

\* The master's.
MasterOptions ==
  <<[key |-> "ControlMaster", value |-> "yes", as |-> "flag"],
    [key |-> "ControlPath", value |-> "own", as |-> "flag"],
    [key |-> "ControlMaster", value |-> "yes", as |-> "option"],
    [key |-> "ControlPersist", value |-> "no", as |-> "option"],
    [key |-> "Isolation", value |-> "on", as |-> "option"],
    [key |-> "ConnectTimeout", value |-> "settings", as |-> "option"],
    [key |-> "ServerAlive", value |-> "settings", as |-> "option"]>>

\* The authority's.
Direct ==
  <<[key |-> "User", value |-> "spec", as |-> "option"],
    [key |-> "Port", value |-> "spec", as |-> "option"]>>

\* What a command and a control operation add.
SessionOption == <<[key |-> "SessionType", value |-> "default", as |-> "option"]>>
OperationOption == <<[key |-> "Operation", value |-> "check", as |-> "option"]>>

\* The authority is given on the command line for a direct connection only.
LEMMA SshOptionsIs == Commands!ssh_options = IF connection.mode = "direct" THEN Direct ELSE <<>>
BY DEF Commands!ssh_options, Commands!Set, Direct

\* All of these are sequences of options.
LEMMA TypesOf ==
  /\ Transport \in Seq(Given) /\ MasterOptions \in Seq(Given) /\ Direct \in Seq(Given)
  /\ Commands!ssh_options \in Seq(Given)
  /\ SessionOption \in Seq(Given) /\ OperationOption \in Seq(Given)
<1>1. Transport \in Seq(Options) BY DEF Transport, Options
<1>2. MasterOptions \in Seq(Options) BY DEF MasterOptions, Options
<1>3. Direct \in Seq(Options) BY DEF Direct, Options
<1>4. SessionOption \in Seq(Options) /\ OperationOption \in Seq(Options)
  BY DEF Options, SessionOption, OperationOption
<1>5. \A s \in Seq(Options) : s \in Seq(Given)
  <2> SUFFICES ASSUME NEW s \in Seq(Options) PROVE s \in Seq(Given) OBVIOUS
  <2>1. Len(s) \in Nat /\ s \in [1..Len(s) -> Options] OBVIOUS
  <2>2. s \in [1..Len(s) -> Given] BY <2>1 DEF Given
  <2> QED BY <2>1, <2>2
<1>6. <<>> \in Seq(Given) OBVIOUS
<1> QED BY <1>1, <1>2, <1>3, <1>4, <1>5, <1>6, SshOptionsIs

\* The transport that the code builds.
LEMMA TransportIs == Commands!mux_transport_options = Transport \o Commands!ssh_options
BY TypesOf
   DEF Commands!mux_transport_options, Transport, Commands!Set, Commands!Flag, Commands!SSH_ISOLATION_OPTIONS

\* The master's command line.
LEMMA MasterIs ==
  Commands!master_argv =
    [options |-> MasterOptions \o Commands!ssh_options, words |-> <<"--", connection.destination>>]
<1> DEFINE a == <<Commands!Flag("ControlMaster", "yes"), Commands!Flag("ControlPath", "own"),
                  Commands!Set("ControlMaster", "yes"), Commands!Set("ControlPersist", "no")>>
           c == <<Commands!Set("ConnectTimeout", "settings"), Commands!Set("ServerAlive", "settings")>>
<1>1. a \o Commands!SSH_ISOLATION_OPTIONS \o c \o Commands!ssh_options = MasterOptions \o Commands!ssh_options
  BY TypesOf DEF MasterOptions, Commands!Set, Commands!Flag, Commands!SSH_ISOLATION_OPTIONS
<1>2. Commands!master_argv =
   [options |-> a \o Commands!SSH_ISOLATION_OPTIONS \o c \o Commands!ssh_options,
    words |-> <<"--", connection.destination>>]
  BY DEF Commands!master_argv, Commands!Line
<1> QED BY <1>1, <1>2

\* Every flag in s assigns one of the keys in K.
FlagsIn(s, K) == \A j \in 1..Len(s) : s[j].as = "flag" => s[j].key \in K

\* So it is of two sequences together.
LEMMA FlagsTogether ==
  ASSUME NEW a \in Seq(Given), NEW b \in Seq(Given), NEW K, FlagsIn(a, K), FlagsIn(b, K)
  PROVE  FlagsIn(Then(a, b), K)
<1>1. PICK x : x = Then(a, b) OBVIOUS
<1>2. IsThen(x, a, b) BY <1>1, ThenHas
<1>3. Len(a) \in Nat /\ Len(b) \in Nat OBVIOUS
<1>4. ASSUME NEW j \in 1..Len(x), x[j].as = "flag" PROVE x[j].key \in K
  <2>1. CASE j \in 1..Len(a) BY <1>2, <1>4, <2>1 DEF IsThen, FlagsIn
  <2>2. CASE j \notin 1..Len(a)
    <3>1. PICK k \in 1..Len(b) : j = Len(a) + k
      <4>1. j - Len(a) \in 1..Len(b) /\ j = Len(a) + (j - Len(a)) BY <1>2, <1>3, <2>2 DEF IsThen
      <4> QED BY <4>1
    <3>2. x[j] = b[k] BY <1>2, <3>1 DEF IsThen
    <3> QED BY <1>4, <3>2 DEF FlagsIn
  <2> QED BY <2>1, <2>2
<1> QED BY <1>1, <1>4 DEF FlagsIn

\* The first place of a key in what ssh sees decides, if no other place is a flag's.
LEMMA PlaceDecides ==
  ASSUME Commands!Seen \in Seq(Given), NEW i \in 1..Len(Commands!Seen),
         \A j \in 1..(i - 1) : Commands!Seen[j].key # Commands!Seen[i].key,
         \A j \in 1..Len(Commands!Seen) :
           j # i /\ Commands!Seen[j].key = Commands!Seen[i].key => Commands!Seen[j].as # "flag"
  PROVE  Commands!Effective(Commands!Seen[i].key) = Commands!Seen[i].value
<1>1. PICK x \in Seq(Given) : x = Commands!Seen OBVIOUS
<1> DEFINE key == x[i].key
           places == {n \in 1..Len(x) : x[n].key = key}
           flags == {n \in places : x[n].as = "flag"}
           first == CHOOSE n \in places : \A j \in places : n <= j
           last == CHOOSE n \in flags : \A j \in flags : j <= n
<1>2. Commands!Effective(key) = IF flags # {} THEN x[last].value
                                ELSE IF places # {} THEN x[first].value ELSE Commands!Defaults[key]
  BY <1>1 DEF Commands!Effective
<1>3. places \subseteq Nat /\ Len(x) \in Nat /\ i \in 1..Len(x) BY <1>1
<1>4. i \in places /\ \A n \in places : i <= n BY <1>1, <1>3
<1>5. flags \subseteq {i} BY <1>1
<1> HIDE DEF key, places
<1>6. CASE flags # {}
  <2>1. flags = {i} BY <1>5, <1>6
  <2>2. last = i
    <3> HIDE DEF flags
    <3> QED BY <2>1, <1>3
  <2> QED BY <1>1, <1>2, <1>6, <2>2 DEF key
<1>7. CASE flags = {}
  <2>1. first = i
    <3>1. first \in places /\ \A j \in places : first <= j BY <1>4
    <3> HIDE DEF first
    <3> QED BY <1>3, <1>4, <3>1
  <2> QED BY <1>1, <1>2, <1>4, <1>7, <2>1 DEF key
<1> QED BY <1>6, <1>7

\* The key is set at this place of p, not before, and elsewhere in p by no flag.
Sets(p, i, key, value) ==
  /\ i \in 1..Len(p) /\ p[i].key = key /\ p[i].value = value
  /\ \A j \in 1..(i - 1) : p[j].key # key
  /\ \A j \in 1..Len(p) : j # i /\ p[j].key = key => p[j].as # "flag"

\* The option is not set in q.
Lacks(q, key) == \A j \in 1..Len(q) : q[j].key # key

\* ssh sees p, after q and before the rest.
Sees(q, p, r) == Commands!Seen = (q \o p) \o r

\* Then p decides, whatever the rest sets, unless a flag of the rest assigns the key.
LEMMA Decides ==
  ASSUME NEW q \in Seq(Given), NEW p \in Seq(Given), NEW r \in Seq(Given), Sees(q, p, r),
         NEW i, NEW key, NEW value, Sets(p, i, key, value), Lacks(q, key),
         NEW K, FlagsIn(r, K), key \notin K
  PROVE  Commands!Effective(key) = value
<1>1. PICK o \in Seq(Given) : o = Then(q, p) BY ThenIs
<1>2. PICK x \in Seq(Given) : x = Then(o, r) BY ThenIs
<1>3. x = Commands!Seen BY <1>1, <1>2 DEF Sees, Then
<1>4. IsThen(o, q, p) /\ IsThen(x, o, r) BY <1>1, <1>2, ThenHas
<1>5. Len(q) \in Nat /\ Len(p) \in Nat /\ Len(r) \in Nat OBVIOUS
<1>6. i \in 1..Len(p) BY DEF Sets
<1> DEFINE n == Len(q) + i
<1>7. n \in 1..Len(o) /\ n \in 1..Len(x) /\ x[n] = p[i] BY <1>4, <1>5, <1>6 DEF IsThen
<1>8. ASSUME NEW j \in 1..Len(x)
      PROVE  \/ j \in 1..Len(q) /\ x[j] = q[j]
             \/ \E k \in 1..Len(p) : j = Len(q) + k /\ x[j] = p[k]
             \/ \E k \in 1..Len(r) : j = (Len(q) + Len(p)) + k /\ x[j] = r[k]
  <2>1. CASE j \in 1..Len(q) BY <1>4, <1>5, <2>1 DEF IsThen
  <2>2. CASE j \notin 1..Len(q) /\ j <= Len(o)
    <3> DEFINE k == j - Len(q)
    <3>1. k \in 1..Len(p) /\ j = Len(q) + k /\ j \in 1..Len(o) BY <1>4, <1>5, <2>2 DEF IsThen
    <3>2. x[j] = p[k] BY <1>4, <3>1 DEF IsThen
    <3> QED BY <3>1, <3>2
  <2>3. CASE j > Len(o)
    <3> DEFINE k == j - Len(o)
    <3>1. k \in 1..Len(r) /\ j = Len(o) + k BY <1>4, <1>5, <2>3 DEF IsThen
    <3>2. x[j] = r[k] BY <1>4, <3>1 DEF IsThen
    <3>3. Len(o) = Len(q) + Len(p) BY <1>4 DEF IsThen
    <3> QED BY <3>1, <3>2, <3>3
  <2>4. Len(o) \in Nat BY <1>1
  <2> QED BY <1>5, <2>1, <2>2, <2>3, <2>4
<1>9. ASSUME NEW j \in 1..(n - 1) PROVE x[j].key # key
  <2>1. j \in 1..Len(x) BY <1>5, <1>6, <1>7
  <2>2. ASSUME NEW k \in 1..Len(p), j = Len(q) + k PROVE p[k].key # key
    <3>1. k \in 1..(i - 1) BY <1>5, <1>6, <2>2
    <3> QED BY <3>1 DEF Sets
  <2>3. ASSUME NEW k \in 1..Len(r) PROVE j # (Len(q) + Len(p)) + k BY <1>5, <1>6
  <2> QED BY <1>8, <2>1, <2>2, <2>3 DEF Lacks
<1>10. ASSUME NEW j \in 1..Len(x), j # n, x[j].key = key PROVE x[j].as # "flag"
  <2>1. ASSUME NEW k \in 1..Len(p), j = Len(q) + k, x[j] = p[k] PROVE x[j].as # "flag"
    <3>1. k # i BY <1>10, <2>1
    <3> QED BY <1>10, <2>1, <3>1 DEF Sets
  <2>2. ASSUME NEW k \in 1..Len(r), x[j] = r[k] PROVE x[j].as # "flag"
    BY <1>10, <2>2 DEF FlagsIn
  <2> QED BY <1>8, <1>10, <2>1, <2>2 DEF Lacks
<1>11. x[n].key = key /\ x[n].value = value BY <1>7 DEF Sets
<1> HIDE DEF n
<1>12. Commands!Effective(x[n].key) = x[n].value BY <1>3, <1>7, <1>9, <1>10, <1>11, PlaceDecides
<1> QED BY <1>11, <1>12

\* The transport decides on its options, after nothing but the session's type, unless
\* a flag behind it assigns one.
LEMMA TransportDecides ==
  ASSUME NEW q \in Seq(Given), NEW r \in Seq(Given), Sees(q, Transport, r),
         \A j \in 1..Len(q) : q[j].key = "SessionType",
         NEW K, FlagsIn(r, K), NEW i, NEW key, NEW value, Sets(Transport, i, key, value),
         key # "SessionType", key \notin K
  PROVE  Commands!Effective(key) = value
<1>1. Transport \in Seq(Given) BY TypesOf
<1>2. Lacks(q, key) BY DEF Lacks
<1> QED BY <1>1, <1>2, Decides

\* What it sets.
LEMMA TransportSets ==
  /\ Sets(Transport, 1, "ControlPath", "own") /\ Sets(Transport, 2, "ControlMaster", "no")
  /\ Sets(Transport, 3, "ControlPersist", "no") /\ Sets(Transport, 4, "BatchMode", "yes")
  /\ Sets(Transport, 5, "Prompts", "none") /\ Sets(Transport, 6, "Isolation", "on")
  /\ Sets(Transport, 7, "ProxyCommand", "false") /\ Sets(Transport, 9, "Authentication", "off")
BY DEF Transport, Sets

\* The flags that the consumer has appended.
Overridden == {key \in Commands!FlagKeys : Commands!Overrides(key)}

\* What is appended and configured are options: the inductive invariant.
Typed ==
  /\ connection \in [mode : {"alias", "direct"}, destination : Destinations]
  /\ form \in Commands!Forms /\ config \in Seq(Configured)
  /\ extra.options \in Seq(Appended)

\* They are among those that ssh may see.
LEMMA GivenSeqs == Seq(Options) \cup Seq(Appended) \cup Seq(Configured) \subseteq Seq(Given)
<1>1. ASSUME NEW S \in {Options, Appended, Configured}, NEW s \in Seq(S) PROVE s \in Seq(Given)
  <2>1. S \subseteq Given BY DEF Given
  <2>2. Len(s) \in Nat /\ s \in [1..Len(s) -> S] OBVIOUS
  <2>3. s \in [1..Len(s) -> Given] BY <2>1, <2>2
  <2> QED BY <2>2, <2>3
<1> QED BY <1>1

\* It holds initially.
LEMMA CommandInit == AllInit => Typed
<1> SUFFICES ASSUME AllInit PROVE Typed OBVIOUS
<1> USE DEF AllInit, Commands!Init
<1>1. config \in Seq(Configured) BY SeqOfIsSeq, CommandAssumption
<1>2. PICK O : /\ O = IF form = "transport" THEN Commands!SeqOf(Appended, MaxAppended) ELSE {<<>>}
               /\ extra.options \in O
  OBVIOUS
<1>3. extra.options \in Seq(Appended)
  <2>1. CASE form = "transport" BY <1>2, <2>1, SeqOfIsSeq, CommandAssumption
  <2>2. CASE form # "transport"
    <3>1. extra.options = <<>> BY <1>2, <2>2
    <3> QED BY <3>1
  <2> QED BY <2>1, <2>2
<1>4. connection \in [mode : {"alias", "direct"}, destination : Destinations] /\ form \in Commands!Forms OBVIOUS
<1> QED BY <1>1, <1>3, <1>4 DEF Typed

\* No edit of the configuration and no end of the master disturbs it.
LEMMA CommandNext == Typed /\ (Commands!Next \/ UNCHANGED commandVars) => Typed'
<1> SUFFICES ASSUME Typed, Commands!Next \/ UNCHANGED commandVars PROVE Typed' OBVIOUS
<1>1. config' \in Seq(Configured)
  <2>1. CASE config' = config BY <2>1 DEF Typed
  <2>2. CASE config' \in Commands!SeqOf(Configured, MaxConfigured) BY <2>2, SeqOfIsSeq, CommandAssumption
  <2> QED BY <2>1, <2>2 DEF Commands!Next, commandVars
<1>2. UNCHANGED <<connection, form, extra>> BY DEF Commands!Next, commandVars
<1> QED BY <1>1, <1>2 DEF Typed

\* Only the consumer appends flags.
LEMMA FlagsOf ==
  ASSUME Typed
  PROVE  /\ FlagsIn(extra.options, Overridden)
         /\ \A K : FlagsIn(config, K) /\ FlagsIn(Commands!ssh_options, K) /\ FlagsIn(OperationOption, K)
<1>1. FlagsIn(extra.options, Overridden)
  <2> SUFFICES ASSUME NEW j \in 1..Len(extra.options), extra.options[j].as = "flag"
               PROVE  extra.options[j].key \in Overridden
    BY DEF FlagsIn
  <2>1. extra.options[j] \in Appended /\ j \in DOMAIN extra.options BY DEF Typed
  <2>2. extra.options[j].key \in Commands!FlagKeys BY <2>1, FlagAssumption
  <2> QED BY <2>1, <2>2 DEF Overridden, Commands!Overrides
<1>2. ASSUME NEW K PROVE FlagsIn(config, K)
  <2>1. \A j \in 1..Len(config) : config[j] \in Configured BY DEF Typed
  <2> QED BY <2>1, FlagAssumption DEF FlagsIn
<1>3. ASSUME NEW K PROVE FlagsIn(Commands!ssh_options, K)
  <2>1. FlagsIn(Direct, K) BY DEF Direct, FlagsIn
  <2>2. FlagsIn(<<>>, K) BY DEF FlagsIn
  <2> QED BY <2>1, <2>2, SshOptionsIs
<1>4. ASSUME NEW K PROVE FlagsIn(OperationOption, K) BY DEF OperationOption, FlagsIn
<1> QED BY <1>1, <1>2, <1>3, <1>4

\* The secondary forms: the transport comes first but for the type of the session, and
\* behind it are no flags but the consumer's.
LEMMA SecondarySees ==
  ASSUME Typed, form # "master"
  PROVE  \E q, r \in Seq(Given) : /\ Sees(q, Transport, r) /\ FlagsIn(r, Overridden)
                                 /\ \A j \in 1..Len(q) : q[j].key = "SessionType"
<1> DEFINE ssh == Commands!ssh_options
           type == SessionOption
           operation == OperationOption
<1>1. /\ config \in Seq(Given) /\ extra.options \in Seq(Given) /\ Transport \in Seq(Given)
      /\ ssh \in Seq(Given) /\ type \in Seq(Given) /\ operation \in Seq(Given) /\ <<>> \in Seq(Given)
  BY TypesOf, GivenSeqs DEF Typed
<1>2. CASE form = "transport"
  <2>1. Commands!Seen = Then(Then(Then(Transport, ssh), extra.options), config)
    BY <1>2, TransportIs DEF Then, Commands!Seen, Commands!CommandLine, Commands!wrapper_argv, Commands!Line
  <2> HIDE DEF ssh, type, operation
  <2>2. Then(Then(Then(Transport, ssh), extra.options), config) =
        Then(Then(<<>>, Transport), Then(ssh, Then(extra.options, config)))
    <3>1. PICK e \in Seq(Given) : e = extra.options BY <1>1
    <3>2. Then(Then(Then(Transport, ssh), e), config) = Then(Then(<<>>, Transport), Then(ssh, Then(e, config)))
      BY <1>1, Regrouped
    <3> QED BY <3>1, <3>2
  <2>3. Then(ssh, Then(extra.options, config)) \in Seq(Given) BY <1>1, Regrouped
  <2>4. Sees(<<>>, Transport, Then(ssh, Then(extra.options, config))) BY <2>1, <2>2 DEF Sees, Then
  <2>5. \A j \in 1..Len(<<>>) : <<>>[j].key = "SessionType" OBVIOUS
  <2>6. FlagsIn(Then(ssh, Then(extra.options, config)), Overridden)
    <3>1. PICK e \in Seq(Given) : e = extra.options BY <1>1
    <3>2. FlagsIn(e, Overridden) /\ FlagsIn(config, Overridden) /\ FlagsIn(ssh, Overridden)
      BY <3>1, FlagsOf DEF ssh
    <3>3. FlagsIn(Then(e, config), Overridden) /\ Then(e, config) \in Seq(Given)
      BY <1>1, <3>2, FlagsTogether, ThenIs
    <3> QED BY <1>1, <3>1, <3>2, <3>3, FlagsTogether
  <2> QED BY <1>1, <2>3, <2>4, <2>5, <2>6
<1>3. CASE form = "command"
  <2>1. Commands!Seen = Then(Then(type, Then(Transport, ssh)), config)
    BY <1>3, TransportIs
       DEF Then, Commands!Seen, Commands!CommandLine, Commands!command_argv, Commands!Line,
           Commands!Set, SessionOption
  <2>2. \A j \in 1..Len(type) : type[j].key = "SessionType" BY DEF SessionOption
  <2> HIDE DEF ssh, type
  <2>3. Then(Then(type, Then(Transport, ssh)), config) = Then(Then(type, Transport), Then(ssh, config))
    BY <1>1, Regrouped
  <2>4. Then(ssh, config) \in Seq(Given) BY <1>1, ThenIs
  <2>5. Sees(type, Transport, Then(ssh, config)) BY <2>1, <2>3 DEF Sees, Then
  <2>6. FlagsIn(Then(ssh, config), Overridden) BY <1>1, FlagsOf, FlagsTogether DEF ssh
  <2> QED BY <1>1, <2>2, <2>4, <2>5, <2>6
<1>4. CASE form = "control"
  <2>1. Commands!Seen = Then(Then(Then(Transport, ssh), operation), config)
    BY <1>4, TransportIs
       DEF Then, Commands!Seen, Commands!CommandLine, Commands!control_argv, Commands!Line,
           Commands!Set, OperationOption
  <2> HIDE DEF ssh, operation
  <2>2. Then(Then(Then(Transport, ssh), operation), config) =
        Then(Then(<<>>, Transport), Then(ssh, Then(operation, config)))
    BY <1>1, Regrouped
  <2>3. Then(ssh, Then(operation, config)) \in Seq(Given) BY <1>1, Regrouped
  <2>4. Sees(<<>>, Transport, Then(ssh, Then(operation, config))) BY <2>1, <2>2 DEF Sees, Then
  <2>5. \A j \in 1..Len(<<>>) : <<>>[j].key = "SessionType" OBVIOUS
  <2>6. FlagsIn(operation, Overridden) /\ FlagsIn(config, Overridden) /\ FlagsIn(ssh, Overridden)
    BY FlagsOf DEF ssh, operation
  <2>7. FlagsIn(Then(operation, config), Overridden) /\ Then(operation, config) \in Seq(Given)
    BY <1>1, <2>6, FlagsTogether, ThenIs
  <2>8. FlagsIn(Then(ssh, Then(operation, config)), Overridden) BY <1>1, <2>6, <2>7, FlagsTogether
  <2> QED BY <1>1, <2>3, <2>4, <2>5, <2>8
<1> QED BY <1>2, <1>3, <1>4 DEF Typed, Commands!Forms

\* The master's options decide, and the authority's for a direct connection.
LEMMA MasterSees ==
  ASSUME Typed, form = "master"
  PROVE  /\ Commands!Effective("ControlPath") = "own" /\ Commands!Effective("ControlMaster") = "yes"
         /\ Commands!Effective("ControlPersist") = "no" /\ Commands!Effective("Isolation") = "on"
         /\ connection.mode = "direct" =>
              Commands!Effective("User") = "spec" /\ Commands!Effective("Port") = "spec"
<1>1. /\ config \in Seq(Given) /\ MasterOptions \in Seq(Given)
      /\ Commands!ssh_options \in Seq(Given) /\ <<>> \in Seq(Given) /\ Direct \in Seq(Given)
  BY TypesOf, GivenSeqs DEF Typed
<1>2. Commands!Seen = (MasterOptions \o Commands!ssh_options) \o config
  BY MasterIs DEF Then, Commands!Seen, Commands!CommandLine
<1>3. Commands!Seen = (<<>> \o MasterOptions) \o (Commands!ssh_options \o config)
  BY <1>1, <1>2, Regrouped
<1>4. ASSUME NEW i, NEW key, NEW value, Sets(MasterOptions, i, key, value)
      PROVE  Commands!Effective(key) = value
  <2>1. Commands!ssh_options \o config \in Seq(Given) BY <1>1, Regrouped
  <2>2. Lacks(<<>>, key) BY DEF Lacks
  <2>3. Sees(<<>>, MasterOptions, Commands!ssh_options \o config) BY <1>3 DEF Sees, Then
  <2>4. FlagsIn(Commands!ssh_options \o config, {}) BY <1>1, FlagsOf, FlagsTogether DEF Then
  <2>5. PICK rest \in Seq(Given) : rest = Commands!ssh_options \o config BY <2>1
  <2>6. PICK K : K = {} OBVIOUS
  <2>7. FlagsIn(rest, K) /\ key \notin K BY <2>4, <2>5, <2>6
  <2>8. PICK q \in Seq(Given) : q = <<>> BY <1>1
  <2>9. Sees(q, MasterOptions, rest) /\ Lacks(q, key) BY <2>2, <2>3, <2>5, <2>8
  <2> QED BY <1>1, <1>4, <2>7, <2>9, Decides
<1>5. /\ Sets(MasterOptions, 1, "ControlMaster", "yes") /\ Sets(MasterOptions, 2, "ControlPath", "own")
      /\ Sets(MasterOptions, 4, "ControlPersist", "no") /\ Sets(MasterOptions, 5, "Isolation", "on")
  BY DEF MasterOptions, Sets
<1>6. ASSUME connection.mode = "direct", NEW i, NEW key, NEW value,
             Sets(Direct, i, key, value), Lacks(MasterOptions, key)
      PROVE  Commands!Effective(key) = value
  <2>1. Sees(MasterOptions, Direct, config) BY <1>2, <1>6, SshOptionsIs DEF Sees, Then
  <2>2. FlagsIn(config, {}) BY FlagsOf
  <2> QED BY <1>1, <1>6, <2>1, <2>2, Decides
<1>7. Sets(Direct, 1, "User", "spec") /\ Sets(Direct, 2, "Port", "spec") BY DEF Direct, Sets
<1>8. Lacks(MasterOptions, "User") /\ Lacks(MasterOptions, "Port") BY DEF MasterOptions, Lacks
<1> QED BY <1>4, <1>5, <1>6, <1>7, <1>8

\* The words that follow the terminator.
LEMMA WordsAre ==
  ASSUME Typed
  PROVE  /\ form = "master" => Commands!Words = <<connection.destination>>
         /\ form = "command" => Commands!Words = <<connection.destination, extra.program>>
<1>1. ASSUME form = "master" PROVE Commands!Words = <<connection.destination>>
  <2>1. Commands!CommandLine.words = <<"--", connection.destination>>
    BY <1>1, MasterIs DEF Commands!CommandLine
  <2> QED BY <2>1 DEF Commands!Words, Commands!Terminated
<1>2. ASSUME form = "command" PROVE Commands!Words = <<connection.destination, extra.program>>
  <2>1. Commands!CommandLine.words = <<"--", connection.destination, extra.program>>
    BY <1>2 DEF Commands!CommandLine, Commands!command_argv, Commands!Line
  <2> QED BY <2>1 DEF Commands!Words, Commands!Terminated
<1> QED BY <1>1, <1>2

\* A command's session has the default type.
LEMMA TypeIsDefault ==
  ASSUME Typed, form = "command"
  PROVE  Commands!Effective("SessionType") = "default"
<1> DEFINE type == SessionOption
           ssh == Commands!ssh_options
           rest == Then(Then(Transport, ssh), config)
<1>1. /\ config \in Seq(Given) /\ Transport \in Seq(Given) /\ type \in Seq(Given) /\ ssh \in Seq(Given)
      /\ <<>> \in Seq(Given)
  BY TypesOf, GivenSeqs DEF Typed
<1>2. Commands!Seen = Then(Then(type, Then(Transport, ssh)), config)
  BY TransportIs
     DEF Then, Commands!Seen, Commands!CommandLine, Commands!command_argv, Commands!Line,
         Commands!Set, SessionOption
<1>3. Sets(type, 1, "SessionType", "default") BY DEF Sets, SessionOption
<1>4. FlagsIn(ssh, {"ControlPath"}) /\ FlagsIn(config, {"ControlPath"}) BY FlagsOf
<1>5. FlagsIn(Transport, {"ControlPath"}) BY DEF Transport, FlagsIn
<1> HIDE DEF type, ssh
<1>6. Then(Then(type, Then(Transport, ssh)), config) = Then(type, rest)
  BY <1>1, ThenIs, ThenAssociates
<1>7. Then(Transport, ssh) \in Seq(Given) /\ rest \in Seq(Given) BY <1>1, ThenIs
<1>8. FlagsIn(Then(Transport, ssh), {"ControlPath"}) BY <1>1, <1>4, <1>5, FlagsTogether
<1>9. FlagsIn(rest, {"ControlPath"}) BY <1>1, <1>4, <1>7, <1>8, FlagsTogether
<1> HIDE DEF rest
<1>10. Sees(<<>>, type, rest) BY <1>1, <1>2, <1>6, ThenIs DEF Sees, Then
<1>11. Lacks(<<>>, "SessionType") BY DEF Lacks
<1>12. "SessionType" \notin {"ControlPath"} OBVIOUS
<1> QED BY <1>1, <1>3, <1>7, <1>9, <1>10, <1>11, <1>12, Decides

\* So every command line keeps to the master.
LEMMA TypedKeeps == Typed => CommandsKeepToTheMaster
<1> SUFFICES ASSUME Typed PROVE CommandsKeepToTheMaster OBVIOUS
<1>1. ASSUME form # "master", NEW i, NEW key, NEW value, Sets(Transport, i, key, value),
             key # "SessionType", key \notin Overridden
      PROVE  Commands!Effective(key) = value
  BY <1>1, SecondarySees, TransportDecides
<1>2. ASSUME form # "master"
      PROVE  /\ Commands!Effective("ControlPersist") = "no" /\ Commands!Effective("BatchMode") = "yes"
             /\ Commands!Effective("Prompts") = "none" /\ Commands!Effective("ProxyCommand") = "false"
  BY <1>1, <1>2, TransportSets DEF Overridden, Commands!FlagKeys
<1>3. ASSUME form # "master"
      PROVE  /\ Commands!Effective("ControlPath") = "own" \/ Commands!Overrides("ControlPath")
             /\ Commands!Effective("ControlMaster") = "no" \/ Commands!Overrides("ControlMaster")
             /\ Commands!Effective("Isolation") = "on" \/ Commands!Overrides("Isolation")
             /\ Commands!Effective("Authentication") = "off" \/ Commands!Overrides("Authentication")
  BY <1>1, <1>3, TransportSets DEF Overridden
<1>4. Commands!NoFallback
  <2> SUFFICES ASSUME form # "master"
               PROVE  /\ Commands!Reaches # "network"
                      /\ Commands!Reaches = "other" => Commands!Overrides("ControlPath")
    BY <1>2, <1>3 DEF Commands!NoFallback
  <2>1. Commands!Reaches # "network" BY <1>2 DEF Commands!Reaches
  <2>2. ASSUME Commands!Reaches = "other" PROVE Commands!Effective("ControlPath") # "own"
    BY <2>2 DEF Commands!Reaches
  <2> QED BY <1>3, <2>1, <2>2
<1>5. Commands!NoSecondAuthentication BY <1>2, <1>3 DEF Commands!NoSecondAuthentication
<1>6. Commands!Isolated BY <1>3, MasterSees DEF Commands!Isolated
<1>7. Commands!MasterIsTheConnection BY MasterSees, WordsAre DEF Commands!MasterIsTheConnection
<1>8. Commands!CommandIsExact BY WordsAre, TypeIsDefault DEF Commands!CommandIsExact
<1> QED BY <1>4, <1>5, <1>6, <1>7, <1>8 DEF CommandsKeepToTheMaster

\* CommandsKeepToTheMaster, for all options and flags that a consumer may append and all
\* options that the user's configuration may set, however many of them: no secondary
\* command line connects by itself, and only a consumer's own flag undoes what it names.
THEOREM CommandsStayWithMaster == AllSpec => []CommandsKeepToTheMaster
<1>1. AllInit => Typed BY CommandInit
<1>2. Typed /\ [AllNext]_allVars => Typed' BY StepOfEach, CommandNext
<1>3. Typed => CommandsKeepToTheMaster BY TypedKeeps
<1> QED BY <1>1, <1>2, <1>3, PTL DEF AllSpec

(***************************************************************************)
(* Recursive definitions: a function defined by recursion on a smaller     *)
(* argument exists, so that it may be unfolded.                            *)
(***************************************************************************)
\* A nonempty set of naturals has a least element.
LEMMA Least == ASSUME NEW T \in SUBSET Nat, T # {} PROVE \E m \in T : \A k \in T : m <= k
<1>1. IsWellFoundedOn(OpToRel(<, Nat), Nat) BY NatLessThanWellFounded
<1>2. \E x \in T : \A y \in T : ~(<<y, x>> \in OpToRel(<, Nat)) BY <1>1, WFMin
<1>3. \A x, y \in Nat : <<x, y>> \in OpToRel(<, Nat) <=> x < y BY DEF OpToRel
<1>4. PICK m \in T : \A y \in T : ~(<<y, m>> \in OpToRel(<, Nat)) BY <1>2
<1>5. ASSUME NEW k \in T PROVE m <= k
  <2>1. ~(k < m) BY <1>3, <1>4, <1>5
  <2> QED BY <2>1
<1> QED BY <1>5

\* Induction over a set of naturals.
LEMMA Induct == ASSUME NEW T \in SUBSET Nat, 0 \in T, \A n \in T : n + 1 \in T PROVE T = Nat
<1>1. SUFFICES ASSUME Nat \ T # {} PROVE FALSE OBVIOUS
<1>2. PICK m \in Nat \ T : \A k \in Nat \ T : m <= k BY <1>1, Least
<1>3. m # 0 /\ m - 1 \in Nat BY <1>2
<1>4. m - 1 \in T BY <1>2, <1>3
<1> QED BY <1>2, <1>3, <1>4

\* A definition by recursion: what stops it, what it yields then, the smaller argument,
\* and what is made of the result for that one.
Recursive(S, stop, first, next, step, size) ==
  /\ stop \in [S -> BOOLEAN] /\ first \in [S -> S] /\ next \in [S -> S]
  /\ step \in [S \X S -> S] /\ size \in [S -> Nat]
  /\ \A s \in S : ~stop[s] => size[next[s]] < size[s]

\* A function that does as the definition says.
Solves(f, S, stop, first, next, step) ==
  /\ f \in [S -> S]
  /\ \A s \in S : f[s] = IF stop[s] THEN first[s] ELSE step[<<s, f[next[s]]>>]

\* The function that such a definition describes exists, so that it may be unfolded.
LEMMA Recursion ==
  ASSUME NEW S, NEW stop, NEW first, NEW next, NEW step, NEW size,
         Recursive(S, stop, first, next, step, size)
  PROVE  \E f : Solves(f, S, stop, first, next, step)
<1> USE DEF Recursive
<1> DEFINE Sol(f, n) == /\ f \in [S -> S]
                        /\ \A s \in S : size[s] < n =>
                             f[s] = IF stop[s] THEN first[s] ELSE step[<<s, f[next[s]]>>]
           T == {n \in Nat : \E f : Sol(f, n)}
<1>1. 0 \in T
  <2>1. Sol([s \in S |-> s], 0) OBVIOUS
  <2> QED BY <2>1
<1>2. ASSUME NEW n \in T PROVE n + 1 \in T
  <2>1. PICK f : Sol(f, n) OBVIOUS
  <2> DEFINE g == [s \in S |-> IF size[s] < n THEN f[s]
                               ELSE IF stop[s] THEN first[s] ELSE step[<<s, f[next[s]]>>]]
  <2>2. f \in [S -> S] BY <2>1
  <2>3. \A s \in S : step[<<s, f[next[s]]>>] \in S BY <2>2
  <2>4. g \in [S -> S] BY <2>2, <2>3
  <2>5. ASSUME NEW s \in S, size[s] < n + 1
        PROVE  g[s] = IF stop[s] THEN first[s] ELSE step[<<s, g[next[s]]>>]
    <3>1. CASE stop[s] BY <2>1, <2>5, <3>1
    <3>2. CASE ~stop[s]
      <4>1. next[s] \in S /\ size[next[s]] < n BY <2>5, <3>2
      <4>2. g[next[s]] = f[next[s]] BY <4>1
      <4>3. g[s] = step[<<s, f[next[s]]>>] BY <2>1, <3>2
      <4> QED BY <3>2, <4>2, <4>3
    <3> QED BY <3>1, <3>2
  <2>6. Sol(g, n + 1) BY <2>4, <2>5
  <2> HIDE DEF Sol
  <2>7. n + 1 \in Nat OBVIOUS
  <2> QED BY <2>6, <2>7
<1>3. T = Nat
  <2> HIDE DEF T
  <2>1. T \in SUBSET Nat BY DEF T
  <2> QED BY <1>1, <1>2, <2>1, Induct
<1>4. \A n \in Nat : \E f : Sol(f, n) BY <1>3
<1>5. ASSUME NEW n \in Nat, NEW f, NEW g, Sol(f, n), Sol(g, n), NEW s \in S, size[s] < n
      PROVE  f[s] = g[s]
  <2> DEFINE U == {k \in Nat : \A t \in S : size[t] < k /\ size[t] < n => f[t] = g[t]}
  <2>1. 0 \in U OBVIOUS
  <2>2. ASSUME NEW k \in U PROVE k + 1 \in U
    <3>1. ASSUME NEW t \in S, size[t] < k + 1, size[t] < n PROVE f[t] = g[t]
      <4>1. CASE stop[t] BY <1>5, <3>1, <4>1
      <4>2. CASE ~stop[t]
        <5>1. next[t] \in S /\ size[next[t]] < k /\ size[next[t]] < n
          <6>1. next[t] \in S /\ size[next[t]] < size[t] /\ size[t] \in Nat /\ size[next[t]] \in Nat BY <4>2
          <6> QED BY <3>1, <6>1
        <5>2. f[next[t]] = g[next[t]] BY <5>1
        <5> QED BY <1>5, <3>1, <4>2, <5>2
      <4> QED BY <4>1, <4>2
    <3> QED BY <3>1
  <2>3. U = Nat
    <3> HIDE DEF U
    <3>1. U \in SUBSET Nat BY DEF U
    <3> QED BY <2>1, <2>2, <3>1, Induct
  <2>4. size[s] + 1 \in U
    <3> HIDE DEF U
    <3> QED BY <2>3
  <2>5. size[s] < size[s] + 1 OBVIOUS
  <2> QED BY <1>5, <2>4, <2>5
<1> HIDE DEF T, Sol
<1> DEFINE G(n) == CHOOSE f : Sol(f, n)
<1>6. \A n \in Nat : Sol(G(n), n) BY <1>4
<1> HIDE DEF G
<1> DEFINE F == [s \in S |-> G(size[s] + 1)[s]]
<1>7. \A n \in Nat : G(n) \in [S -> S] BY <1>6 DEF Sol
<1>8. F \in [S -> S]
  <2>1. \A s \in S : size[s] + 1 \in Nat OBVIOUS
  <2> QED BY <1>7, <2>1
<1>9. ASSUME NEW s \in S PROVE F[s] = IF stop[s] THEN first[s] ELSE step[<<s, F[next[s]]>>]
  <2> DEFINE n == size[s] + 1
  <2>1. n \in Nat /\ size[s] < n OBVIOUS
  <2>2. G(n)[s] = IF stop[s] THEN first[s] ELSE step[<<s, G(n)[next[s]]>>]
    BY <1>6, <2>1 DEF Sol
  <2>3. CASE stop[s] BY <2>2, <2>3
  <2>4. CASE ~stop[s]
    <3> DEFINE m == size[next[s]] + 1
    <3>1. next[s] \in S /\ m \in Nat /\ size[next[s]] < m /\ m <= n BY <2>4
    <3>2. Sol(G(n), m)
      <4> HIDE DEF m, n
      <4>1. \A t \in S : size[t] < m => size[t] < n BY <2>1, <3>1
      <4>2. Sol(G(n), n) BY <1>6, <2>1
      <4> QED BY <4>1, <4>2 DEF Sol
    <3>3. Sol(G(m), m) BY <1>6, <3>1
    <3>4. G(n)[next[s]] = G(m)[next[s]] BY <1>5, <3>1, <3>2, <3>3
    <3>5. F[next[s]] = G(m)[next[s]] BY <3>1
    <3> QED BY <2>2, <2>4, <3>4, <3>5
  <2> QED BY <2>3, <2>4
<1> HIDE DEF F
<1> QED BY <1>8, <1>9 DEF Solves

(***************************************************************************)
(* The private directory (RuntimeDirectory).                               *)
(***************************************************************************)
\* A path, or what is made of one.
Text == Seq(Letters)

\* What each character is escaped to.
EscapedOne(c) == IF c = "%" THEN <<"%", "%">> ELSE <<c>>

\* The rest of a path is a shorter one.
LEMMA TailIsShorter ==
  ASSUME NEW s \in Text, s # <<>>
  PROVE  Tail(s) \in Text /\ Len(Tail(s)) = Len(s) - 1 /\ Len(s) \in Nat \ {0} /\ s[1] \in Letters
BY DEF Text

\* What a character is escaped to is a text.
LEMMA EscapedOneIsText == ASSUME NEW c \in Letters PROVE EscapedOne(c) \in Text
<1>1. "%" \in Letters BY DirectoryAssumption
<1>2. <<c>> \in Seq(Letters) /\ <<"%", "%">> \in Seq(Letters) BY <1>1
<1> QED BY <1>2 DEF EscapedOne, Text

\* Escaped may be unfolded.
LEMMA EscapedIs ==
  \A s \in Text :
    /\ Directory!Escaped[s] \in Text
    /\ Directory!Escaped[s] =
         IF s = <<>> THEN s ELSE EscapedOne(s[1]) \o Directory!Escaped[Tail(s)]
<1> DEFINE stop == [s \in Text |-> s = <<>>]
           first == [s \in Text |-> s]
           next == [s \in Text |-> IF s = <<>> THEN s ELSE Tail(s)]
           step == [p \in Text \X Text |-> IF p[1] = <<>> THEN p[1] ELSE EscapedOne(p[1][1]) \o p[2]]
           size == [s \in Text |-> Len(s)]
<1>1. stop \in [Text -> BOOLEAN] /\ first \in [Text -> Text] /\ size \in [Text -> Nat]
  BY DEF Text
<1>2. next \in [Text -> Text] BY TailIsShorter
<1>3. step \in [Text \X Text -> Text]
  <2>1. ASSUME NEW s \in Text, NEW t \in Text, s # <<>> PROVE EscapedOne(s[1]) \o t \in Text
    <3>1. s[1] \in Letters BY <2>1, TailIsShorter
    <3>2. EscapedOne(s[1]) \in Text BY <3>1, EscapedOneIsText
    <3> QED BY <2>1, <3>2 DEF Text
  <2> QED BY <2>1
<1>4. \A s \in Text : ~stop[s] => size[next[s]] < size[s]
  <2> SUFFICES ASSUME NEW s \in Text, s # <<>> PROVE size[next[s]] < size[s]
    OBVIOUS
  <2>1. next[s] = Tail(s) /\ Tail(s) \in Text /\ Len(Tail(s)) < Len(s) BY TailIsShorter
  <2>2. size[next[s]] = Len(Tail(s)) /\ size[s] = Len(s) BY <2>1
  <2> QED BY <2>1, <2>2
<1> HIDE DEF stop, first, next, step, size
<1>5. PICK f : Solves(f, Text, stop, first, next, step)
  BY <1>1, <1>2, <1>3, <1>4, Recursion DEF Recursive
<1> USE DEF stop, first, next, step, size
<1>6. ASSUME NEW g, NEW s \in Text, g[Tail(s)] \in Text \/ s = <<>>
      PROVE  (IF stop[s] THEN first[s] ELSE step[<<s, g[next[s]]>>])
             = IF s = <<>> THEN s
               ELSE (IF s[1] = "%" THEN <<"%", "%">> ELSE <<s[1]>>) \o g[Tail(s)]
  BY <1>6, TailIsShorter DEF EscapedOne
<1>7. f = [path \in Seq(Letters) |->
             IF path = <<>> THEN path
             ELSE (IF path[1] = "%" THEN <<"%", "%">> ELSE <<path[1]>>) \o f[Tail(path)]]
  <2> HIDE DEF stop, first, next, step, size
  <2>1. \A s \in Text : f[s] = IF s = <<>> THEN s
               ELSE (IF s[1] = "%" THEN <<"%", "%">> ELSE <<s[1]>>) \o f[Tail(s)]
    BY <1>5, <1>6, TailIsShorter DEF Solves
  <2>2. f \in [Text -> Text] BY <1>5 DEF Solves
  <2> QED BY <2>1, <2>2 DEF Text
<1>8. Directory!Escaped = [path \in Seq(Letters) |->
             IF path = <<>> THEN path
             ELSE (IF path[1] = "%" THEN <<"%", "%">> ELSE <<path[1]>>) \o Directory!Escaped[Tail(path)]]
  BY <1>7 DEF Directory!Escaped
<1> DEFINE E == Directory!Escaped
           U == {k \in Nat : \A s \in Text : Len(s) < k => E[s] \in Text}
<1>9. \A s \in Text : E[s] = IF s = <<>> THEN s ELSE EscapedOne(s[1]) \o E[Tail(s)]
  BY <1>8 DEF Text, EscapedOne
<1> HIDE DEF E
<1>10. 0 \in U BY DEF Text
<1>11. ASSUME NEW k \in U PROVE k + 1 \in U
  <2>1. ASSUME NEW s \in Text, Len(s) < k + 1, s # <<>> PROVE E[s] \in Text
    <3>1. Tail(s) \in Text /\ Len(Tail(s)) < k /\ s[1] \in Letters BY <2>1, TailIsShorter
    <3>2. E[Tail(s)] \in Text BY <3>1
    <3>3. EscapedOne(s[1]) \in Text BY <3>1, EscapedOneIsText
    <3>4. EscapedOne(s[1]) \o E[Tail(s)] \in Text BY <3>2, <3>3 DEF Text
    <3> QED BY <1>9, <2>1, <3>4
  <2>2. \A s \in Text : s = <<>> => E[s] \in Text BY <1>9
  <2> QED BY <2>1, <2>2
<1>12. U = Nat
  <2> HIDE DEF U
  <2>1. U \in SUBSET Nat BY DEF U
  <2> QED BY <1>10, <1>11, <2>1, Induct
<1>13. ASSUME NEW s \in Text PROVE E[s] \in Text
  <2>1. Len(s) \in Nat /\ Len(s) + 1 \in Nat /\ Len(s) < Len(s) + 1 BY DEF Text
  <2>2. Len(s) + 1 \in U BY <1>12, <2>1
  <2> QED BY <2>1, <2>2
<1> QED BY <1>9, <1>13 DEF E

\* Expanded may be unfolded.
LEMMA ExpandedIs ==
  \A text \in Text :
    Directory!Expanded[text] =
      IF Len(text) < 2 THEN text
      ELSE IF text[1] = "%"
        THEN <<IF text[2] = "%" THEN "%" ELSE "?">> \o Directory!Expanded[SubSeq(text, 3, Len(text))]
      ELSE IF text[1] = "$" /\ text[2] = "{" THEN <<"?">>
      ELSE <<text[1]>> \o Directory!Expanded[Tail(text)]
<1> DEFINE Percent(s) == s[1] = "%"
           Reference(s) == s[1] = "$" /\ s[2] = "{"
           stop == [s \in Text |-> Len(s) < 2 \/ (~Percent(s) /\ Reference(s))]
           first == [s \in Text |-> IF Len(s) < 2 THEN s ELSE <<"?">>]
           next == [s \in Text |-> IF Len(s) < 2 THEN s
                                   ELSE IF Percent(s) THEN SubSeq(s, 3, Len(s)) ELSE Tail(s)]
           step == [p \in Text \X Text |->
                      IF Len(p[1]) < 2 THEN p[1]
                      ELSE IF Percent(p[1]) THEN <<IF p[1][2] = "%" THEN "%" ELSE "?">> \o p[2]
                      ELSE <<p[1][1]>> \o p[2]]
           size == [s \in Text |-> Len(s)]
           Body(f, text) ==
             IF Len(text) < 2 THEN text
             ELSE IF text[1] = "%"
               THEN <<IF text[2] = "%" THEN "%" ELSE "?">> \o f[SubSeq(text, 3, Len(text))]
             ELSE IF text[1] = "$" /\ text[2] = "{" THEN <<"?">>
             ELSE <<text[1]>> \o f[Tail(text)]
<1>1. /\ "%" \in Letters /\ "?" \in Letters
      /\ \A c \in Letters : <<c>> \in Text
      /\ \A s, t \in Text : s \o t \in Text
      /\ \A s \in Text : Len(s) \in Nat
  <2>1. "%" \in Letters /\ "?" \in Letters BY DirectoryAssumption
  <2>2. \A c \in Letters : <<c>> \in Text BY DEF Text
  <2>3. \A s, t \in Text : s \o t \in Text BY DEF Text
  <2>4. \A s \in Text : Len(s) \in Nat BY DEF Text
  <2> QED BY <2>1, <2>2, <2>3, <2>4
<1>2. ASSUME NEW s \in Text, ~(Len(s) < 2)
      PROVE  /\ s[1] \in Letters /\ s[2] \in Letters
             /\ SubSeq(s, 3, Len(s)) \in Text /\ Len(SubSeq(s, 3, Len(s))) = Len(s) - 2
             /\ Tail(s) \in Text /\ Len(Tail(s)) = Len(s) - 1
  <2>1. Len(s) \in Nat /\ 1 \in 1..Len(s) /\ 2 \in 1..Len(s) /\ s # <<>> BY <1>2 DEF Text
  <2>2. s[1] \in Letters /\ s[2] \in Letters BY <2>1 DEF Text
  <2>3. Tail(s) \in Text /\ Len(Tail(s)) = Len(s) - 1 BY <2>1, TailIsShorter
  <2>4. /\ SubSeq(s, 3, Len(s)) \in Seq(Letters)
        /\ Len(SubSeq(s, 3, Len(s))) = IF 3 <= Len(s) THEN Len(s) - 3 + 1 ELSE 0
    <3>1. \A i \in 3..Len(s) : s[i] \in Letters BY <2>1 DEF Text
    <3>2. 3 \in Int /\ Len(s) \in Int BY <2>1
    <3> QED BY <3>1, <3>2, SubSeqProperties
  <2>5. Len(SubSeq(s, 3, Len(s))) = Len(s) - 2
    <3> DEFINE n == Len(s)
               m == Len(SubSeq(s, 3, Len(s)))
    <3>1. n \in Nat /\ n >= 2 /\ m = IF 3 <= n THEN n - 3 + 1 ELSE 0 BY <1>2, <2>1, <2>4
    <3> HIDE DEF n, m
    <3>2. m = n - 2 BY <3>1
    <3> QED BY <3>2 DEF n, m
  <2> QED BY <2>2, <2>3, <2>4, <2>5 DEF Text
<1>3. stop \in [Text -> BOOLEAN] /\ size \in [Text -> Nat] BY <1>1
<1>4. first \in [Text -> Text] BY <1>1
<1>5. next \in [Text -> Text] BY <1>2
<1>6. step \in [Text \X Text -> Text]
  <2>1. ASSUME NEW s \in Text, NEW t \in Text, ~(Len(s) < 2)
        PROVE  /\ <<IF s[2] = "%" THEN "%" ELSE "?">> \o t \in Text
               /\ <<s[1]>> \o t \in Text
    BY <1>1, <1>2, <2>1
  <2> QED BY <2>1
<1>7. ASSUME NEW s \in Text, ~stop[s] PROVE size[next[s]] < size[s]
  <2>1. ~(Len(s) < 2) BY <1>7
  <2>2. next[s] \in Text /\ Len(next[s]) < Len(s) BY <1>1, <1>2, <2>1
  <2> HIDE DEF next
  <2> QED BY <2>2
<1> HIDE DEF stop, first, next, step, size
<1>8. PICK f : Solves(f, Text, stop, first, next, step)
  BY <1>3, <1>4, <1>5, <1>6, <1>7, Recursion DEF Recursive
<1>9. f \in [Text -> Text] BY <1>8 DEF Solves
<1>10. ASSUME NEW s \in Text PROVE f[s] = Body(f, s)
  <2>1. f[s] = IF stop[s] THEN first[s] ELSE step[<<s, f[next[s]]>>] BY <1>8 DEF Solves
  <2>2. next[s] \in Text /\ f[next[s]] \in Text BY <1>5, <1>9
  <2>3. step[<<s, f[next[s]]>>]
        = IF Len(s) < 2 THEN s
          ELSE IF Percent(s) THEN <<IF s[2] = "%" THEN "%" ELSE "?">> \o f[next[s]]
          ELSE <<s[1]>> \o f[next[s]]
    BY <2>2 DEF step
  <2>4. next[s] = IF Len(s) < 2 THEN s ELSE IF Percent(s) THEN SubSeq(s, 3, Len(s)) ELSE Tail(s)
    BY DEF next
  <2>5. (stop[s] <=> Len(s) < 2 \/ (~Percent(s) /\ Reference(s))) /\ first[s] = IF Len(s) < 2 THEN s ELSE <<"?">>
    BY DEF stop, first
  <2> QED BY <2>1, <2>3, <2>4, <2>5
<1>11. f = [text \in Seq(Letters) |-> Body(f, text)] BY <1>9, <1>10 DEF Text
<1>12. Directory!Expanded = [text \in Seq(Letters) |-> Body(Directory!Expanded, text)]
  BY <1>11 DEF Directory!Expanded
<1> QED BY <1>12 DEF Text

\* A reference to a variable, which ssh refuses to expand.
Referring(path) == \E i \in 1..(Len(path) - 1) : path[i] = "$" /\ path[i + 1] = "{"

\* What ssh makes of an escaped path without a reference to a variable is the path.
LEMMA EscapedExpands ==
  ASSUME NEW path \in Text, ~Referring(path)
  PROVE  Directory!Expanded[Directory!Escaped[path]] = path
<1> DEFINE X == Directory!Expanded
           E == Directory!Escaped
           U == {k \in Nat : \A s \in Text : Len(s) = k /\ ~Referring(s) => X[E[s]] = s}
<1>1. 0 \in U
  <2>1. ASSUME NEW s \in Text, Len(s) = 0 PROVE X[E[s]] = s
    <3>1. s = <<>> BY <2>1 DEF Text
    <3>2. E[s] = s BY <3>1, EscapedIs
    <3>3. Len(s) < 2 BY <2>1
    <3>4. X[s] = s BY <3>3, ExpandedIs
    <3> QED BY <3>2, <3>4
  <2> QED BY <2>1
<1>2. ASSUME NEW k \in U PROVE k + 1 \in U
  <2>0. k \in Nat BY <1>2
  <2> SUFFICES ASSUME NEW s \in Text, Len(s) = k + 1, ~Referring(s) PROVE X[E[s]] = s
    BY <1>2
  <2> DEFINE t == Tail(s)
             c == s[1]
  <2>1. s # <<>> /\ t \in Text /\ Len(t) = k /\ c \in Letters /\ s = <<c>> \o t
    <3>1. s # <<>> BY <1>2 DEF Text
    <3>2. t \in Text /\ Len(t) = k /\ c \in Letters BY <3>1, TailIsShorter
    <3>3. s = <<c>> \o t BY <3>1 DEF Text
    <3> QED BY <3>1, <3>2, <3>3
  <2>2. \A i \in 1..Len(t) : t[i] = s[i + 1] BY <2>1 DEF Text
  <2>3. ~Referring(t)
    <3>1. ASSUME NEW i \in 1..(Len(t) - 1), t[i] = "$" /\ t[i + 1] = "{" PROVE FALSE
      <4>3. Len(t) = k /\ Len(s) - 1 = k BY <2>0, <2>1
      <4>4. i \in 1..(k - 1) BY <3>1, <4>3
      <4>5. i + 1 \in 1..k /\ i \in 1..k BY <2>0, <4>4
      <4>1. i + 1 \in 1..(Len(s) - 1) /\ i + 1 \in 1..Len(t) /\ i \in 1..Len(t) BY <4>3, <4>5
      <4>2. s[i + 1] = "$" /\ s[(i + 1) + 1] = "{" BY <2>2, <3>1, <4>1
      <4> QED BY <4>1, <4>2 DEF Referring
    <3> QED BY <3>1 DEF Referring
  <2>4. X[E[t]] = t BY <2>1, <2>3
  <2>5. E[t] \in Text /\ E[s] = EscapedOne(c) \o E[t] BY <2>1, EscapedIs
  <2> DEFINE e == E[t]
  <2>6. CASE c = "%"
    <3> DEFINE w == <<"%", "%">> \o e
    <3>1. E[s] = w BY <2>5, <2>6 DEF EscapedOne
    <3>2. /\ w \in Text /\ Len(w) = Len(e) + 2 /\ w[1] = "%" /\ w[2] = "%" /\ SubSeq(w, 3, Len(w)) = e
      <4>1. e \in Seq(Letters) /\ "%" \in Letters BY <2>5, DirectoryAssumption DEF Text
      <4> HIDE DEF e
      <4>2. <<"%", "%">> \in Seq(Letters) BY <4>1
      <4>3. w \in Seq(Letters) /\ Len(w) = 2 + Len(e) BY <4>1, <4>2
      <4>4. w[1] = "%" /\ w[2] = "%" /\ \A i \in 1..Len(e) : w[2 + i] = e[i] BY <4>1, <4>2
      <4>5. /\ SubSeq(w, 3, Len(w)) \in Seq(Letters) /\ Len(SubSeq(w, 3, Len(w))) = Len(e)
            /\ \A i \in 1..Len(e) : SubSeq(w, 3, Len(w))[i] = w[2 + i]
        <5> HIDE DEF w
        <5> QED BY <4>1, <4>3
      <4>6. SubSeq(w, 3, Len(w)) = e BY <4>1, <4>4, <4>5, SeqEqual
      <4> QED BY <4>1, <4>3, <4>4, <4>6 DEF Text
    <3>3. ~(Len(w) < 2) BY <2>5, <3>2 DEF Text
    <3> HIDE DEF w, e, X, E
    <3>4. X[w] = <<"%">> \o X[e] BY <3>2, <3>3, ExpandedIs DEF X
    <3> QED BY <2>1, <2>4, <2>6, <3>1, <3>4 DEF e
  <2>7. CASE c # "%"
    <3> DEFINE w == <<c>> \o e
    <3>1. E[s] = w BY <2>5, <2>7 DEF EscapedOne
    <3>2. w \in Text /\ Len(w) = Len(e) + 1 /\ w[1] = c /\ Tail(w) = e /\ Len(e) \in Nat
          /\ (e # <<>> => w[2] = e[1])
      <4>1. e \in Seq(Letters) /\ c \in Letters BY <2>1, <2>5 DEF Text
      <4> HIDE DEF e, c
      <4>2. w \in Seq(Letters) /\ Len(w) = 1 + Len(e) BY <4>1
      <4>3. w[1] = c /\ Tail(w) = e BY <4>1
      <4>4. e # <<>> => w[2] = e[1] BY <4>1
      <4> QED BY <4>1, <4>2, <4>3, <4>4 DEF Text
    <3>3. CASE t = <<>>
      <4>1. e = <<>> BY <2>1, <3>3, EscapedIs
      <4>2. Len(w) < 2 BY <3>2, <4>1
      <4>3. X[w] = w BY <3>2, <4>2, ExpandedIs
      <4> QED BY <2>1, <3>1, <3>3, <4>1, <4>3
    <3>4. CASE t # <<>>
      <4>1. t[1] \in Letters /\ 1 \in 1..Len(t) BY <2>1, <3>4 DEF Text
      <4>2. e = EscapedOne(t[1]) \o E[Tail(t)] /\ E[Tail(t)] \in Text
        BY <2>1, <3>4, EscapedIs, TailIsShorter
      <4>3. e # <<>> /\ e[1] = t[1]
        <5> DEFINE r == E[Tail(t)]
        <5>1. r \in Seq(Letters) /\ t[1] \in Letters /\ "%" \in Letters BY <4>1, <4>2, DirectoryAssumption DEF Text
        <5> HIDE DEF r
        <5> DEFINE d == t[1]
        <5>5. d \in Letters BY <5>1
        <5> HIDE DEF d
        <5>6. (<<d>> \o r)[1] = d /\ <<d>> \o r # <<>> BY <5>1, <5>5
        <5>2. (<<t[1]>> \o r)[1] = t[1] /\ <<t[1]>> \o r # <<>> BY <5>6 DEF d
        <5>3. (<<"%", "%">> \o r)[1] = "%" /\ <<"%", "%">> \o r # <<>> BY <5>1
        <5>4. e = EscapedOne(t[1]) \o r BY <4>2 DEF r
        <5> HIDE DEF e
        <5> QED BY <5>2, <5>3, <5>4 DEF EscapedOne
      <4>4. ~(c = "$" /\ e[1] = "{")
        <5>1. t[1] = s[2] /\ 1 \in 1..(Len(s) - 1)
          <6>1. t[1] = s[1 + 1] BY <2>2, <4>1
          <6>2. Len(t) >= 1 BY <2>1, <4>1
          <6> QED BY <2>1, <6>1, <6>2
        <5>2. ~(s[1] = "$" /\ s[1 + 1] = "{") BY <5>1 DEF Referring
        <5>3. 1 + 1 = 2 OBVIOUS
        <5> QED BY <4>3, <5>1, <5>2, <5>3
      <4>5. ~(Len(w) < 2)
        <5>1. Len(e) # 0 BY <2>5, <4>3 DEF Text
        <5> QED BY <3>2, <5>1
      <4>6. w[1] # "%" /\ ~(w[1] = "$" /\ w[2] = "{") BY <2>7, <3>2, <4>3, <4>4
      <4>7. X[w] = <<w[1]>> \o X[Tail(w)]
        <5> HIDE DEF w
        <5> QED BY <3>2, <4>5, <4>6, ExpandedIs
      <4> QED BY <2>1, <2>4, <3>1, <3>2, <4>7
    <3> QED BY <3>3, <3>4
  <2> QED BY <2>6, <2>7
<1>3. U = Nat
  <2> HIDE DEF U
  <2>1. U \in SUBSET Nat BY DEF U
  <2> QED BY <1>1, <1>2, <2>1, Induct
<1>4. Len(path) \in U BY <1>3 DEF Text
<1> QED BY <1>4

\* A control path is what was checked, with the directory it is in.
Checked ==
  control # <<>> => control = Directory!ControlOf(recorded) /\ control \in Text
                    /\ ~Directory!Unusable(control)

\* The directory in use is the only one, and a wrapper is handed out complete.
Recorded ==
  /\ temp \in Temps /\ dirPc \in {"select", "make", "check", "shorten", "ready", "failed", "closed"}
  /\ existing \subseteq {recorded}
  /\ dirPc \in {"select", "make", "shorten"} => existing = {}
  /\ dirPc = "select" => control = <<>>
  /\ dirPc \in {"make", "shorten", "check"} => base \in Bases \cup {temp}
  /\ dirPc \in {"check", "ready"} => recorded \in {"first", "second"}
  /\ dirPc = "closed" /\ ~spared => existing = {}
  /\ Checked
  /\ wrapper \in {"none", "partial", "complete"} /\ handed \in BOOLEAN
  /\ handed => wrapper = "complete"

\* It holds initially.
LEMMA DirectoryInit == Directory!Init => Recorded
BY DEF Directory!Init, Directory!Empty, Recorded, Checked

\* The checks of the directory hold as long as it does not change.
LEMMA CheckedKept ==
  ASSUME Checked, UNCHANGED base /\ UNCHANGED temp /\ UNCHANGED recorded, control' \in {control, <<>>}
  PROVE  Checked'
<1>1. CASE control' = <<>> BY <1>1 DEF Checked
<1>2. CASE control' = control BY <1>2 DEF Checked, Directory!ControlOf, Directory!Unusable
<1> QED BY <1>1, <1>2

\* Every step keeps it.
LEMMA DirectoryNext == ASSUME Recorded, Directory!Next \/ UNCHANGED directoryVars PROVE Recorded'
<1> USE DEF Recorded
<1>1. CASE Directory!SelectBase
  <2>1. Checked' BY <1>1 DEF Directory!SelectBase, Checked
  <2> QED BY <1>1, <2>1 DEF Directory!SelectBase
<1>2. CASE Directory!MakeFirst \/ Directory!MakeSecond
  <2>1. ASSUME Directory!MakeFails, UNCHANGED base, UNCHANGED temp PROVE Checked'
    BY <2>1, CheckedKept DEF Directory!MakeFails
  <2>2. ASSUME NEW dir, Directory!Make(dir) PROVE Checked'
    BY <2>2 DEF Directory!Make, Checked, Directory!Empty
  <2>3. Checked' BY <1>2, <2>1, <2>2 DEF Directory!MakeFirst, Directory!MakeSecond
  <2> QED
    BY <1>2, <2>3 DEF Directory!MakeFirst, Directory!MakeSecond, Directory!Make, Directory!MakeFails
<1>3. CASE Directory!Settle
  <2>1. Directory!ControlOf(recorded) \in Text
    <3>1. base \in Text /\ temp \in Text /\ LongName \in Text /\ ShortName \in Text
      BY <1>3, DirectoryAssumption DEF Directory!Settle, Directory!Accept, Text
    <3>2. base \o LongName \in Text /\ temp \o ShortName \in Text BY <3>1 DEF Text
    <3> QED BY <3>2 DEF Directory!ControlOf
  <2>2. Checked'
    BY <1>3, <2>1
       DEF Directory!Settle, Directory!Accept, Directory!ControlOf, Directory!Unusable, Checked
  <2> QED BY <1>3, <2>2 DEF Directory!Settle, Directory!Accept
<1>4. CASE Directory!GiveUp
  <2>1. Checked' BY <1>4, CheckedKept DEF Directory!GiveUp
  <2> QED BY <1>4, <2>1 DEF Directory!GiveUp
<1>5. CASE Directory!CreateMuxWrapper
  <2>1. /\ UNCHANGED <<dirPc, base, temp, existing, recorded, control, spared>>
        /\ wrapper = "none"
        /\ \/ wrapper' = "complete" /\ handed' = TRUE
           \/ wrapper' = "partial" /\ UNCHANGED handed
    BY <1>5 DEF Directory!CreateMuxWrapper, Directory!Write, Directory!Exclusive
  <2>2. ~handed BY <2>1
  <2>3. Checked' BY <2>1, CheckedKept
  <2>4. (wrapper \in {"none", "partial", "complete"} /\ handed \in BOOLEAN)' BY <2>1
  <2>5. (handed => wrapper = "complete")' BY <2>1, <2>2
  <2> QED BY <2>1, <2>3, <2>4, <2>5
<1>6. CASE Directory!Close
  <2>1. Checked' BY <1>6, CheckedKept DEF Directory!Close
  <2> QED BY <1>6, <2>1 DEF Directory!Close
<1>7. CASE Directory!Finished \/ UNCHANGED directoryVars
  <2>1. UNCHANGED directoryVars BY <1>7 DEF Directory!Finished, Directory!vars, directoryVars
  <2>2. Checked' BY <2>1, CheckedKept DEF directoryVars
  <2> QED BY <2>1, <2>2 DEF directoryVars
<1> QED BY <1>1, <1>2, <1>3, <1>4, <1>5, <1>6, <1>7 DEF Directory!Next

\* So no directory is forgotten and the socket is where it is looked for.
LEMMA RecordedIsOwned == Recorded => DirectoryIsOwned
<1> SUFFICES ASSUME Recorded PROVE DirectoryIsOwned
  OBVIOUS
<1>1. Directory!NothingForgotten BY DEF Recorded, Directory!NothingForgotten
<1>2. Directory!HandedIsComplete BY DEF Recorded, Directory!HandedIsComplete
<1>3. ASSUME control # <<>>
      PROVE  /\ Len(control) + BindSuffix <= SunPath
             /\ Directory!Expanded[Directory!Escaped[control]] = control
             /\ control = Directory!ControlOf(recorded)
  <2>1. control \in Text /\ ~Directory!Unusable(control) /\ control = Directory!ControlOf(recorded)
    BY <1>3 DEF Recorded, Checked
  <2>2. ~Referring(control) /\ ~(Len(control) > MaxLength)
    BY <2>1 DEF Directory!Unusable, Referring
  <2>3. Len(control) + BindSuffix <= SunPath
    <3> DEFINE n == Len(control)
    <3>1. n \in Nat BY <2>1 DEF Text
    <3>2. ~(n > MaxLength) BY <2>2
    <3> HIDE DEF n
    <3>4. /\ MaxLength \in Nat /\ BindSuffix \in Nat /\ SunPath \in Nat
          /\ MaxLength + BindSuffix <= SunPath
      BY DirectoryAssumption
    <3>3. n + BindSuffix <= SunPath BY <3>1, <3>2, <3>4
    <3> QED BY <3>3 DEF n
  <2>4. Directory!Expanded[Directory!Escaped[control]] = control BY <2>1, <2>2, EscapedExpands
  <2> QED BY <2>1, <2>3, <2>4
<1>4. Directory!SocketIsWhereExpected BY <1>3 DEF Directory!SocketIsWhereExpected, Directory!Empty
<1> QED BY <1>1, <1>2, <1>4 DEF DirectoryIsOwned

\* DirectoryIsOwned, for every directory name and every set of temporary directories:
\* none is forgotten, and ssh's expansion of the escaped path is the path itself.
THEOREM DirectoryStaysOwned == AllSpec => []DirectoryIsOwned
<1>1. AllInit => Recorded BY DirectoryInit DEF AllInit
<1>2. Recorded /\ [AllNext]_allVars => Recorded' BY StepOfEach, DirectoryNext
<1>3. Recorded => DirectoryIsOwned BY RecordedIsOwned
<1> QED BY <1>1, <1>2, <1>3, PTL DEF AllSpec

(***************************************************************************)
(* The session's environment (SessionEnvironment).                         *)
(***************************************************************************)
\* The names that the last output, if it was parsed, fills in.
Filled ==
  {n \in Names :
     /\ inherited[n] # "set" /\ printed.whole
     /\ n \in DOMAIN printed.entries /\ printed.entries[n] \notin Session!Unusable[printed.format]
     /\ n = Runtime => printed.where = "owned"}

\* The environment is the inherited one with these names filled in, at any time.
Merged ==
  /\ inherited \in [Names -> {"unset", "empty", "set"}] /\ asked = format
  /\ environment = [n \in Names |-> IF n \in Filled THEN "recovered" ELSE inherited[n]]
  /\ envPc # "done" => ~printed.whole

\* It holds initially.
LEMMA SessionInit == Session!Init => Merged
<1> SUFFICES ASSUME Session!Init PROVE Merged
  OBVIOUS
<1>1. /\ inherited \in [Names -> {"unset", "empty", "set"}] /\ environment = inherited
      /\ asked = format /\ printed.whole = FALSE
  BY DEF Session!Init, Session!NoOutput
<1>2. Filled = {} BY <1>1 DEF Filled
<1> QED BY <1>1, <1>2 DEF Merged

\* The output of a probe that succeeds is merged into what is inherited.
LEMMA ProbeSucceedsMerged == ASSUME Merged, Session!ProbeSucceeds PROVE Merged'
<1>1. /\ inherited \in [Names -> {"unset", "empty", "set"}] /\ asked = format /\ ~printed.whole
      /\ envPc' = "done" /\ UNCHANGED <<inherited, asked, format>>
  BY DEF Merged, Session!ProbeSucceeds
<1>2. environment = inherited
  <2>1. Filled = {} BY <1>1 DEF Filled
  <2> QED BY <1>1, <2>1 DEF Merged
<1>3. PICK output \in Session!Output :
        /\ output.format = asked /\ printed' = output
        /\ environment' = Session!Fill(Session!Recovered(output))
  BY DEF Session!ProbeSucceeds
<1>4. ASSUME NEW n \in Names
      PROVE  (~Session!Present(n) /\ n \in Session!Recovered(output)) <=> n \in Filled'
  <2>1. ~Session!Present(n) <=> inherited[n] # "set" BY <1>1, <1>2 DEF Session!Present
  <2>2. n \in Session!Recovered(output)
        <=> /\ output.whole /\ n \in DOMAIN output.entries
            /\ output.entries[n] \notin Session!Unusable[output.format]
            /\ n = Runtime => output.where = "owned"
    BY <1>1, <1>3 DEF Session!Recovered, Session!Parsed, Session!RuntimePath, Session!Output
  <2> QED BY <1>1, <1>3, <2>1, <2>2 DEF Filled
<1>5. environment' = [n \in Names |-> IF n \in Filled' THEN "recovered" ELSE inherited'[n]]
  BY <1>1, <1>2, <1>3, <1>4 DEF Session!Fill
<1> QED BY <1>1, <1>5 DEF Merged

\* Every step keeps it.
LEMMA SessionMerged == ASSUME Merged, Session!Next \/ UNCHANGED sessionVars PROVE Merged'
<1>1. CASE Session!ProbeSucceeds BY <1>1, ProbeSucceedsMerged
<1>2. CASE /\ UNCHANGED <<inherited, environment, printed>> /\ asked' = format'
           /\ envPc' # "done" => envPc # "done"
  BY <1>2 DEF Merged, Filled
<1>3. CASE UNCHANGED sessionVars BY <1>2, <1>3 DEF sessionVars, Merged
<1> QED
  BY <1>1, <1>2, <1>3
     DEF Merged, Session!Next, Session!Begin, Session!Return, Session!RuntimeProbed,
         Session!FallBack, Session!ProbeFails, Session!Finished, Session!vars

\* So nothing inherited is replaced, and what is recovered is what was printed.
LEMMA MergedIsRecovered == Merged => EnvironmentIsRecovered
<1> SUFFICES ASSUME Merged PROVE EnvironmentIsRecovered
  OBVIOUS
<1>1. \A n \in Names : environment[n] = "recovered" <=> n \in Filled BY DEF Merged
<1>2. Session!InheritedKept BY DEF Merged, Filled, Session!InheritedKept
<1>3. Session!RuntimeIsOwned
  BY <1>1, SessionAssumption DEF Filled, Session!RuntimeIsOwned, Session!RuntimePath
<1>4. Session!RecoversWhatIsPrinted
  BY <1>1 DEF Filled, Session!RecoversWhatIsPrinted
<1> QED BY <1>2, <1>3, <1>4 DEF EnvironmentIsRecovered

\* EnvironmentIsRecovered, for all names of variables and all outputs of the probes.
THEOREM EnvironmentStaysExact == AllSpec => []EnvironmentIsRecovered
<1>1. AllInit => Merged BY SessionInit DEF AllInit
<1>2. Merged /\ [AllNext]_allVars => Merged' BY StepOfEach, SessionMerged
<1>3. Merged => EnvironmentIsRecovered BY MergedIsRecovered
<1> QED BY <1>1, <1>2, <1>3, PTL DEF AllSpec

(***************************************************************************)
(* The bounded outputs (BoundedOutput).                                    *)
(***************************************************************************)
\* The tail is an end of the output, no shorter than the narrowest bound: the inductive invariant.
Kept ==
  /\ limit \in Int /\ total \in Nat /\ since \in 0..total /\ narrowest \in Nat
  /\ \E k \in Nat : data = Output!Bytes(total - k, total) /\ k <= total - since
                    /\ k >= Output!Lesser(total - since, narrowest)
  /\ Output!HeadIsBeginning /\ Output!TruncationIsExact /\ truncated \in BOOLEAN

\* The bytes between two positions of the output.
LEMMA BytesIs ==
  ASSUME NEW a \in Int, NEW b \in Int, a <= b
  PROVE  /\ Output!Bytes(a, b) \in Seq(Int) /\ Len(Output!Bytes(a, b)) = b - a
         /\ \A i \in 1..(b - a) : Output!Bytes(a, b)[i] = a + i
BY DEF Output!Bytes

\* Adjacent pieces of the output make a piece.
LEMMA BytesConcat ==
  ASSUME NEW a \in Int, NEW b \in Int, NEW c \in Int, a <= b, b <= c
  PROVE  Output!Bytes(a, b) \o Output!Bytes(b, c) = Output!Bytes(a, c)
<1> DEFINE x == Output!Bytes(a, b)
           y == Output!Bytes(b, c)
           z == Output!Bytes(a, c)
<1>1. /\ x \in Seq(Int) /\ Len(x) = b - a /\ \A i \in 1..(b - a) : x[i] = a + i
      /\ y \in Seq(Int) /\ Len(y) = c - b /\ \A i \in 1..(c - b) : y[i] = b + i
      /\ z \in Seq(Int) /\ Len(z) = c - a /\ \A i \in 1..(c - a) : z[i] = a + i
  <2>1. a <= c OBVIOUS
  <2>2. x \in Seq(Int) /\ Len(x) = b - a /\ \A i \in 1..(b - a) : x[i] = a + i BY BytesIs
  <2>3. y \in Seq(Int) /\ Len(y) = c - b /\ \A i \in 1..(c - b) : y[i] = b + i BY BytesIs
  <2>4. z \in Seq(Int) /\ Len(z) = c - a /\ \A i \in 1..(c - a) : z[i] = a + i BY <2>1, BytesIs
  <2> QED BY <2>2, <2>3, <2>4
<1> HIDE DEF x, y, z
<1>2. x \o y \in Seq(Int) /\ Len(x \o y) = Len(x) + Len(y)
  <2>1. x \in Seq(Int) /\ y \in Seq(Int) BY <1>1
  <2> QED BY <2>1
<1>3. ASSUME NEW i \in 1..Len(z) PROVE (x \o y)[i] = z[i]
  <2>1. CASE i <= b - a BY <1>1, <2>1
  <2>2. CASE i > b - a
    <3>1. i - (b - a) \in 1..Len(y) /\ i = Len(x) + (i - (b - a)) BY <1>1, <2>2
    <3>2. x \in Seq(Int) /\ y \in Seq(Int) BY <1>1
    <3>3. \A j \in 1..Len(y) : (x \o y)[Len(x) + j] = y[j] BY <3>2
    <3>4. (x \o y)[i] = y[i - (b - a)] BY <3>1, <3>3
    <3>5. y[i - (b - a)] = b + (i - (b - a)) BY <1>1, <3>1
    <3>6. b + (i - (b - a)) = a + i BY <1>1
    <3> QED BY <1>1, <3>4, <3>5, <3>6
  <2> QED BY <1>1, <2>1, <2>2
<1>4. Len(x \o y) = Len(z) BY <1>1, <1>2
<1> QED BY <1>1, <1>2, <1>3, <1>4, SeqEqual DEF x, y, z

\* A part of a piece is a piece.
LEMMA BytesSub ==
  ASSUME NEW a \in Int, NEW b \in Int, a <= b, NEW p \in Nat, NEW q \in Nat, p <= q, q <= b - a
  PROVE  SubSeq(Output!Bytes(a, b), p + 1, q) = Output!Bytes(a + p, a + q)
<1> DEFINE x == Output!Bytes(a, b)
           y == SubSeq(x, p + 1, q)
           z == Output!Bytes(a + p, a + q)
<1>1. /\ x \in Seq(Int) /\ Len(x) = b - a /\ \A i \in 1..(b - a) : x[i] = a + i
      /\ z \in Seq(Int) /\ Len(z) = q - p /\ \A i \in 1..(q - p) : z[i] = a + p + i
  <2>1. a + p <= a + q /\ a + p \in Int /\ a + q \in Int /\ (a + q) - (a + p) = q - p OBVIOUS
  <2> QED BY <2>1, BytesIs
<1> HIDE DEF x, z
<1>2. /\ y \in Seq(Int) /\ Len(y) = q - p /\ \A i \in 1..(q - p) : y[i] = x[p + i]
  BY <1>1
<1>3. ASSUME NEW i \in 1..Len(z) PROVE y[i] = z[i]
  <2>1. p + i \in 1..(b - a) BY <1>1
  <2> QED BY <1>1, <1>2, <2>1
<1> HIDE DEF y
<1>4. y = z BY <1>1, <1>2, <1>3, SeqEqual
<1> QED BY <1>4 DEF x, y, z

\* The length of a chunk.
LEMMA ChunkIs == ASSUME NEW t \in Nat, NEW n \in Nat PROVE Len(Output!Bytes(t, t + n)) = n
<1> DEFINE u == t + n
<1>1. t \in Int /\ u \in Int /\ t <= u /\ u - t = n OBVIOUS
<1> HIDE DEF u
<1>2. Len(Output!Bytes(t, u)) = n BY <1>1, BytesIs
<1> QED BY <1>2 DEF u

\* What Last and First keep of bytes.
LEMMA LastOfBytes ==
  ASSUME NEW a \in Int, NEW b \in Int, a <= b, NEW n \in Nat \ {0}
  PROVE  Output!Last(Output!Bytes(a, b), n) = Output!Bytes(b - Output!Lesser(n, b - a), b)
<1> DEFINE x == Output!Bytes(a, b)
<1>1. Len(x) = b - a BY BytesIs
<1>2. CASE n >= b - a
  <2>1. Output!Last(x, n) = x BY <1>1, <1>2 DEF Output!Last
  <2>2. Output!Lesser(n, b - a) = b - a BY <1>2 DEF Output!Lesser
  <2>3. b - (b - a) = a OBVIOUS
  <2> QED BY <2>1, <2>2, <2>3
<1>3. CASE n < b - a
  <2>1. Output!Last(x, n) = SubSeq(x, Len(x) - n + 1, Len(x)) BY <1>1, <1>3 DEF Output!Last
  <2> DEFINE p == b - a - n
             q == b - a
  <2>2. p \in Nat /\ q \in Nat /\ p <= q /\ q <= b - a BY <1>3
  <2>3. a + p = b - n /\ a + q = b /\ p + 1 = q - n + 1 OBVIOUS
  <2> HIDE DEF p, q
  <2>4. SubSeq(x, p + 1, q) = Output!Bytes(a + p, a + q) BY <2>2, BytesSub
  <2>5. Output!Lesser(n, b - a) = n BY <1>3 DEF Output!Lesser
  <2>6. Len(x) = q BY <1>1 DEF q
  <2> QED BY <2>1, <2>3, <2>4, <2>5, <2>6
<1> QED BY <1>2, <1>3

\* What First keeps of bytes.
LEMMA FirstOfBytes ==
  ASSUME NEW a \in Int, NEW b \in Int, a <= b, NEW n \in Nat
  PROVE  Output!First(Output!Bytes(a, b), n) = Output!Bytes(a, a + Output!Lesser(n, b - a))
<1>1. Len(Output!Bytes(a, b)) = b - a BY BytesIs
<1> DEFINE q == Output!Lesser(n, b - a)
<1>2. q \in Nat /\ q <= b - a /\ q = (IF n < b - a THEN n ELSE b - a) BY DEF Output!Lesser
<1> HIDE DEF q
<1>3. SubSeq(Output!Bytes(a, b), 0 + 1, q) = Output!Bytes(a + 0, a + q)
  <2>1. 0 \in Nat /\ 0 <= q BY <1>2
  <2> QED BY <1>2, <2>1, BytesSub
<1>5. 0 + 1 = 1 /\ a + 0 = a OBVIOUS
<1>4. Output!First(Output!Bytes(a, b), n) = SubSeq(Output!Bytes(a, b), 1, q) BY <1>1, <1>2 DEF Output!First
<1> QED BY <1>3, <1>4, <1>5 DEF q

\* A chunk after what the bound has kept of the output so far.
LEMMA BoundedPrefix ==
  ASSUME NEW t \in Nat, NEW n \in Nat, NEW bound \in Nat
  PROVE  /\ bound - Output!Lesser(t, bound) \in Nat
         /\ Output!Bytes(0, Output!Lesser(t, bound))
            \o Output!First(Output!Bytes(t, t + n), bound - Output!Lesser(t, bound))
            = Output!Bytes(0, Output!Lesser(t + n, bound))
<1> DEFINE k == Output!Lesser(t, bound)
           room == bound - k
           more == Output!Lesser(room, n)
           head1 == Output!Lesser(t + n, bound)
<1>1. k \in Nat /\ k <= t /\ room \in Nat /\ more \in Nat /\ head1 \in Nat BY DEF Output!Lesser
<1>2. Output!First(Output!Bytes(t, t + n), room) = Output!Bytes(t, t + more)
  <2>1. (t + n) - t = n /\ t <= t + n /\ t + n \in Int OBVIOUS
  <2> QED BY <1>1, <2>1, FirstOfBytes
<1>3. CASE t <= bound
  <2>1. k = t BY <1>3 DEF Output!Lesser
  <2>2. t + more = head1 BY <1>3, <2>1 DEF Output!Lesser
  <2>3. Output!Bytes(0, t) \o Output!Bytes(t, t + more) = Output!Bytes(0, t + more)
    <3>1. 0 \in Int /\ t \in Int /\ t + more \in Int /\ 0 <= t /\ t <= t + more BY <1>1
    <3> HIDE DEF more
    <3> QED BY <3>1, BytesConcat
  <2> QED BY <1>1, <1>2, <2>1, <2>2, <2>3
<1>4. CASE t > bound
  <2>1. k = bound /\ more = 0 /\ head1 = bound BY <1>4 DEF Output!Lesser
  <2>2. Output!Bytes(t, t + more) = <<>> BY <2>1 DEF Output!Bytes
  <2>3. Output!Bytes(0, bound) \in Seq(Int) BY BytesIs
  <2>4. Output!Bytes(0, bound) \o <<>> = Output!Bytes(0, bound) BY <2>3
  <2> HIDE DEF k, more, head1
  <2> QED BY <1>1, <1>2, <2>1, <2>2, <2>4 DEF k, more, head1
<1> QED BY <1>3, <1>4

\* The tail after one more chunk.
LEMMA TailGrows ==
  ASSUME Kept, limit > 0, NEW n \in Nat \ {0}
  PROVE  \E k \in Nat :
           /\ Output!TailAfter(Output!Bytes(total, total + n)) = Output!Bytes((total + n) - k, total + n)
           /\ k <= (total + n) - since
           /\ k >= Output!Lesser((total + n) - since, Output!Lesser(narrowest, limit))
<1> DEFINE chunk == Output!Bytes(total, total + n)
<1>1. /\ limit \in Nat \ {0} /\ total \in Nat /\ since \in Nat /\ since <= total /\ narrowest \in Nat
  BY DEF Kept
<1>2. PICK k \in Nat : /\ data = Output!Bytes(total - k, total) /\ k <= total - since
                       /\ k >= Output!Lesser(total - since, narrowest)
  BY DEF Kept
<1>3. Len(chunk) = n BY <1>1, ChunkIs
<1>4. CASE n >= limit
  <2>1. Output!Last(chunk, limit) = Output!Bytes((total + n) - limit, total + n)
    <3> DEFINE u == total + n
    <3>1. /\ total \in Int /\ u \in Int /\ total <= u /\ u - total = n
          /\ Output!Lesser(limit, n) = limit
      BY <1>1, <1>4 DEF Output!Lesser
    <3> HIDE DEF u
    <3>2. Output!Last(Output!Bytes(total, u), limit)
          = Output!Bytes(u - Output!Lesser(limit, u - total), u)
      BY <1>1, <3>1, LastOfBytes
    <3>3. Output!Last(Output!Bytes(total, u), limit) = Output!Bytes(u - limit, u) BY <3>1, <3>2
    <3> QED BY <3>3 DEF u
  <2>2. Output!TailAfter(chunk) = Output!Last(chunk, limit) BY <1>3, <1>4 DEF Output!TailAfter
  <2>3. limit <= (total + n) - since BY <1>1, <1>4
  <2>4. limit >= Output!Lesser((total + n) - since, Output!Lesser(narrowest, limit))
    BY <1>1 DEF Output!Lesser
  <2> QED BY <1>1, <2>1, <2>2, <2>3, <2>4
<1>5. CASE n < limit
  <2> DEFINE m == Output!Lesser(limit, k + n)
  <2>1. Output!TailAfter(chunk) = Output!Last(data \o chunk, limit)
    BY <1>1, <1>3, <1>5 DEF Output!TailAfter
  <2>2. data \o chunk = Output!Bytes(total - k, total + n)
    <3>1. total - k \in Int /\ total \in Int /\ total + n \in Int /\ total - k <= total /\ total <= total + n
      BY <1>1
    <3> QED BY <1>2, <3>1, BytesConcat
  <2>3. Output!Last(data \o chunk, limit) = Output!Bytes((total + n) - m, total + n)
    <3> DEFINE u == total + n
               v == total - k
    <3>1. u \in Int /\ v \in Int /\ v <= u /\ u - v = k + n BY <1>1
    <3> HIDE DEF u, v
    <3>2. Output!Last(Output!Bytes(v, u), limit) = Output!Bytes(u - Output!Lesser(limit, u - v), u)
      BY <1>1, <3>1, LastOfBytes
    <3>3. Output!Last(Output!Bytes(v, u), limit) = Output!Bytes(u - m, u) BY <3>1, <3>2
    <3> QED BY <2>2, <3>3 DEF u, v
  <2>4. m \in Nat /\ m <= (total + n) - since BY <1>1, <1>2 DEF Output!Lesser
  <2>5. m >= Output!Lesser((total + n) - since, Output!Lesser(narrowest, limit))
    BY <1>1, <1>2 DEF Output!Lesser
  <2> HIDE DEF m
  <2> QED BY <2>1, <2>3, <2>4, <2>5
<1> QED BY <1>1, <1>4, <1>5

\* A chunk arrives.
LEMMA ArrivesKept == ASSUME Kept, Output!Arrives PROVE Kept'
<1>1. /\ limit \in Int /\ total \in Nat /\ since \in 0..total /\ narrowest \in Nat /\ limit > 0
      /\ Output!HeadIsBeginning /\ Output!TruncationIsExact /\ truncated \in BOOLEAN
  BY DEF Kept, Output!Arrives, Output!Valid
<1>2. PICK n \in 1..MaxChunk :
        LET chunk == Output!Bytes(total, total + n) IN
          /\ total' = total + n
          /\ data' = Output!TailAfter(chunk) /\ narrowest' = Output!Lesser(narrowest, limit)
          /\ head' = head \o Output!First(chunk, Output!Room)
          /\ captured' = captured \o Output!First(chunk, ProbeLimit - Len(captured))
          /\ truncated' = (truncated \/ Output!Exceeds(chunk))
  BY DEF Output!Arrives
<1>3. n \in Nat \ {0} BY OutputAssumption
<1>4. UNCHANGED <<since, limit>> BY DEF Output!Arrives
<1>5. limit' \in Int /\ total' \in Nat /\ since' \in 0..total' /\ narrowest' \in Nat
  BY <1>1, <1>2, <1>3, <1>4 DEF Output!Lesser
<1>6. (\E k \in Nat : data = Output!Bytes(total - k, total) /\ k <= total - since
                      /\ k >= Output!Lesser(total - since, narrowest))'
  <2>1. PICK k \in Nat :
           /\ Output!TailAfter(Output!Bytes(total, total + n)) = Output!Bytes((total + n) - k, total + n)
           /\ k <= (total + n) - since
           /\ k >= Output!Lesser((total + n) - since, Output!Lesser(narrowest, limit))
    BY <1>1, <1>3, TailGrows
  <2>2. /\ data' = Output!Bytes(total' - k, total') /\ k <= total' - since'
        /\ k >= Output!Lesser(total' - since', narrowest')
    <3>1. /\ total' = total + n /\ since' = since /\ narrowest' = Output!Lesser(narrowest, limit)
          /\ data' = Output!TailAfter(Output!Bytes(total, total + n))
      BY <1>2, <1>4
    <3> QED BY <2>1, <3>1
  <2> QED BY <2>2
<1>7. Output!HeadIsBeginning'
  <2> DEFINE k == Output!Lesser(total, HeadLimit)
  <2>1. head = Output!Bytes(0, k) BY <1>1 DEF Output!HeadIsBeginning
  <2>2. k \in Nat /\ k <= HeadLimit BY <1>1, OutputAssumption DEF Output!Lesser
  <2>3. Len(head) = k
    <3>1. 0 \in Int /\ 0 <= k /\ k - 0 = k BY <2>2
    <3> HIDE DEF k
    <3> QED BY <2>1, <2>2, <3>1, BytesIs
  <2>4. Output!Room = HeadLimit - k BY <2>2, <2>3, OutputAssumption DEF Output!Room
  <2>5. head' = Output!Bytes(0, Output!Lesser(total + n, HeadLimit))
    BY <1>1, <1>2, <1>3, <2>1, <2>4, BoundedPrefix, OutputAssumption
  <2> QED BY <1>2, <2>5 DEF Output!HeadIsBeginning
<1>8. Output!TruncationIsExact'
  <2> DEFINE k == Output!Lesser(total, ProbeLimit)
  <2>1. captured = Output!Bytes(0, k) /\ (truncated <=> total > ProbeLimit)
    BY <1>1 DEF Output!TruncationIsExact
  <2>2. k \in Nat /\ k <= ProbeLimit BY <1>1, OutputAssumption DEF Output!Lesser
  <2>3. Len(captured) = k
    <3>1. 0 \in Int /\ 0 <= k /\ k - 0 = k BY <2>2
    <3> HIDE DEF k
    <3> QED BY <2>1, <2>2, <3>1, BytesIs
  <2>4. captured' = Output!Bytes(0, Output!Lesser(total + n, ProbeLimit))
    <3>1. captured' = captured \o Output!First(Output!Bytes(total, total + n), ProbeLimit - k)
      BY <1>2, <2>3
    <3>2. n \in Nat /\ total \in Nat /\ ProbeLimit \in Nat BY <1>1, <1>3, OutputAssumption
    <3>3. Output!Bytes(0, k) \o Output!First(Output!Bytes(total, total + n), ProbeLimit - k)
          = Output!Bytes(0, Output!Lesser(total + n, ProbeLimit))
      BY <3>2, BoundedPrefix
    <3> HIDE DEF k
    <3> QED BY <2>1, <3>1, <3>3
  <2>5. Output!Exceeds(Output!Bytes(total, total + n)) <=> n > ProbeLimit - k
    <3>1. Len(Output!Bytes(total, total + n)) = n BY <1>1, <1>3, ChunkIs
    <3> QED BY <2>3, <3>1 DEF Output!Exceeds
  <2>6. (total > ProbeLimit \/ n > ProbeLimit - k) <=> total + n > ProbeLimit
    BY <1>1, <1>3, OutputAssumption DEF Output!Lesser
  <2>7. truncated' <=> total' > ProbeLimit BY <1>2, <2>1, <2>5, <2>6
  <2> QED BY <1>2, <2>4, <2>7 DEF Output!TruncationIsExact
<1>9. truncated' \in BOOLEAN
  <2>1. Output!Exceeds(Output!Bytes(total, total + n)) \in BOOLEAN BY DEF Output!Exceeds
  <2> QED BY <1>1, <1>2, <2>1
<1> QED BY <1>5, <1>6, <1>7, <1>8, <1>9 DEF Kept

\* It holds initially.
LEMMA OutputInit == Output!Init => Kept
<1> SUFFICES ASSUME Output!Init PROVE Kept
  OBVIOUS
<1>1. /\ limit \in Int /\ total = 0 /\ since = 0 /\ narrowest = MaxTotal
      /\ data = <<>> /\ head = <<>> /\ captured = <<>> /\ truncated = FALSE
  BY OutputAssumption DEF Output!Init
<1>2. Output!Bytes(0, 0) = <<>> BY DEF Output!Bytes
<1>3. \E k \in Nat : data = Output!Bytes(total - k, total) /\ k <= total - since
                     /\ k >= Output!Lesser(total - since, narrowest)
  <2>1. 0 \in Nat /\ 0 - 0 = 0 /\ 0 >= Output!Lesser(0, MaxTotal) BY OutputAssumption DEF Output!Lesser
  <2> QED BY <1>1, <1>2, <2>1
<1>4. Output!Lesser(0, HeadLimit) = 0 /\ Output!Lesser(0, ProbeLimit) = 0
  BY OutputAssumption DEF Output!Lesser
<1>5. Output!HeadIsBeginning BY <1>1, <1>2, <1>4 DEF Output!HeadIsBeginning
<1>6. Output!TruncationIsExact
  <2>1. ~(0 > ProbeLimit) BY OutputAssumption
  <2> QED BY <1>1, <1>2, <1>4, <2>1 DEF Output!TruncationIsExact
<1>7. limit \in Int /\ total \in Nat /\ since \in 0..total /\ narrowest \in Nat BY <1>1, OutputAssumption
<1>8. truncated \in BOOLEAN BY <1>1
<1> QED BY <1>3, <1>5, <1>6, <1>7, <1>8 DEF Kept

\* Every step keeps it.
LEMMA OutputNext == ASSUME Kept, Output!Next \/ UNCHANGED outputVars PROVE Kept'
<1>1. CASE Output!Arrives BY <1>1, ArrivesKept
<1>2. CASE Output!Resize
  <2>1. limit' \in Int /\ UNCHANGED <<total, since, data, narrowest, head, captured, truncated>>
    BY <1>2, OutputAssumption DEF Output!Resize
  <2> QED BY <2>1 DEF Kept, Output!HeadIsBeginning, Output!TruncationIsExact
<1>3. CASE Output!Clear
  <2>1. /\ data' = <<>> /\ since' = total /\ narrowest' = MaxTotal
        /\ UNCHANGED <<total, limit, head, captured, truncated>>
    BY <1>3 DEF Output!Clear
  <2>2. total \in Nat BY DEF Kept
  <2>3. (\E k \in Nat : data = Output!Bytes(total - k, total) /\ k <= total - since
                        /\ k >= Output!Lesser(total - since, narrowest))'
    <3>1. Output!Bytes(total - 0, total) = <<>> BY <2>2 DEF Output!Bytes
    <3>2. 0 \in Nat /\ 0 <= total - total /\ 0 >= Output!Lesser(total - total, MaxTotal)
      BY <2>2, OutputAssumption DEF Output!Lesser
    <3> QED BY <2>1, <3>1, <3>2
  <2>4. /\ limit' \in Int /\ total' \in Nat /\ since' \in 0..total' /\ narrowest' \in Nat
    BY <2>1, <2>2, OutputAssumption DEF Kept
  <2>5. (Output!HeadIsBeginning /\ Output!TruncationIsExact /\ truncated \in BOOLEAN)'
    BY <2>1 DEF Kept, Output!HeadIsBeginning, Output!TruncationIsExact
  <2> QED BY <2>3, <2>4, <2>5 DEF Kept
<1>4. CASE UNCHANGED outputVars
  BY <1>4 DEF Kept, Output!HeadIsBeginning, Output!TruncationIsExact, outputVars
<1> QED BY <1>1, <1>2, <1>3, <1>4 DEF Output!Next

\* So what is kept is the output's very end.
LEMMA KeptIsOutput == Kept => OutputIsKept
<1> SUFFICES ASSUME Kept PROVE OutputIsKept
  OBVIOUS
<1>1. PICK k \in Nat : data = Output!Bytes(total - k, total) /\ k <= total - since
                       /\ k >= Output!Lesser(total - since, narrowest)
  BY DEF Kept
<1>2. total - k \in Int /\ total \in Int /\ total - k <= total /\ total - (total - k) = k BY DEF Kept
<1>3. Len(data) = k BY <1>1, <1>2, BytesIs
<1>4. Output!TailIsEnd BY <1>1, <1>3 DEF Output!TailIsEnd
<1> QED BY <1>4 DEF Kept, OutputIsKept

\* OutputIsKept, for every bound and every chunk size: the tail is the end of the
\* output, the head its beginning, and the truncation is noted exactly.
THEOREM OutputStaysKept == AllSpec => []OutputIsKept
<1>1. AllInit => Kept BY OutputInit DEF AllInit
<1>2. Kept /\ [AllNext]_allVars => Kept' BY StepOfEach, OutputNext
<1>3. Kept => OutputIsKept BY KeptIsOutput
<1> QED BY <1>1, <1>2, <1>3, PTL DEF AllSpec
=============================================================================
