--------------------------- MODULE EventLoop_proofs ---------------------------
(***************************************************************************)
(* Order in the queue of the EventLoop.  An object whose _close task must  *)
(* act on its _start task before that runs again relies on the loop: tasks *)
(* run in the order in which they became ready.                            *)
(***************************************************************************)
EXTENDS EventLoop, SequenceTheorems, TLAPS

\* The queue has at most one wake-up of a task; one of t is in it; every one of
\* startup is behind one of the _close task; the wake-ups in it.
Single(q)   == \A i, j \in DOMAIN q : q[i].task = q[j].task => i = j
Waits(q, t) == \E i \in DOMAIN q : q[i].task = t
Ahead(q)    == \A i \in DOMAIN q : q[i].task = "start" =>
                 \E j \in DOMAIN q : j < i /\ q[j].task = "close"
Pending(q)  == {q[i] : i \in DOMAIN q}

\* Taking the first wake-up from a queue keeps the order of the others.
LEMMA Shorter ==
  ASSUME NEW W, NEW q \in Seq(W), q # <<>>, Single(q)
  PROVE  /\ Single(Tail(q))
         /\ ~Waits(Tail(q), Head(q).task)
         /\ \A t : t # Head(q).task => (Waits(Tail(q), t) <=> Waits(q, t))
         /\ Ahead(q) /\ Head(q).task # "close" => Ahead(Tail(q))
         /\ Ahead(q) => Head(q).task # "start"
<1> DEFINE n == Len(q)
<1>1. n \in Nat \ {0} /\ DOMAIN q = 1..n /\ Head(q) = q[1]
  OBVIOUS
<1>2. Len(Tail(q)) = n - 1 /\ DOMAIN Tail(q) = 1..(n - 1) /\ \A i \in 1..(n - 1) : Tail(q)[i] = q[i + 1]
  BY <1>1
<1>3. Single(Tail(q)) /\ ~Waits(Tail(q), Head(q).task)
  BY <1>1, <1>2 DEF Single, Waits
<1>4. ASSUME NEW t, t # Head(q).task  PROVE Waits(Tail(q), t) <=> Waits(q, t)
  <2>1. ASSUME NEW i \in 1..n, q[i].task = t  PROVE Waits(Tail(q), t)
    <3>1. i # 1
      BY <1>1, <1>4, <2>1
    <3>2. i - 1 \in 1..(n - 1) /\ Tail(q)[i - 1] = q[i]
      BY <1>1, <1>2, <3>1
    <3>3. QED  BY <1>2, <2>1, <3>2 DEF Waits
  <2>2. ASSUME NEW i \in 1..(n - 1), Tail(q)[i].task = t  PROVE Waits(q, t)
    BY <1>1, <1>2, <2>2 DEF Waits
  <2>3. QED  BY <1>1, <1>2, <2>1, <2>2 DEF Waits
<1>5. ASSUME Ahead(q), Head(q).task # "close"  PROVE Ahead(Tail(q))
  <2> SUFFICES ASSUME NEW i \in 1..(n - 1), Tail(q)[i].task = "start"
               PROVE  \E j \in 1..(n - 1) : j < i /\ Tail(q)[j].task = "close"
    BY <1>2 DEF Ahead
  <2>1. i + 1 \in 1..n /\ q[i + 1].task = "start"
    BY <1>1, <1>2
  <2>2. PICK j \in 1..n : j < i + 1 /\ q[j].task = "close"
    BY <1>1, <1>5, <2>1 DEF Ahead
  <2>3. j # 1
    BY <1>1, <1>5, <2>2
  <2>4. j - 1 \in 1..(n - 1) /\ j - 1 < i /\ Tail(q)[j - 1] = q[j]
    BY <1>1, <1>2, <2>2, <2>3
  <2>5. QED  BY <2>2, <2>4
<1>6. ASSUME Ahead(q)  PROVE Head(q).task # "start"
  BY <1>1, <1>6 DEF Ahead
<1>7. QED  BY <1>3, <1>4, <1>5, <1>6

\* Appending the only wake-up of a task keeps the order of the others.
LEMMA Longer ==
  ASSUME NEW W, NEW q \in Seq(W), NEW t, NEW o, Single(q), ~Waits(q, t)
  PROVE  LET r == Append(q, Resume(t, o))
         IN  /\ Single(r) /\ Waits(r, t)
             /\ \A u : u # t => (Waits(r, u) <=> Waits(q, u))
             /\ Ahead(q) /\ (t = "start" => Waits(q, "close")) => Ahead(r)
<1> DEFINE n == Len(q)
           r == Append(q, Resume(t, o))
<1>1. n \in Nat /\ DOMAIN q = 1..n
  OBVIOUS
<1>2. Len(r) = n + 1 /\ DOMAIN r = 1..(n + 1) /\ (\A i \in 1..n : r[i] = q[i]) /\ r[n + 1].task = t
  BY <1>1 DEF Resume
<1>3. Single(r)
  BY <1>1, <1>2 DEF Single, Waits
<1>4. Waits(r, t)
  BY <1>1, <1>2 DEF Waits
<1>5. \A u : u # t => (Waits(r, u) <=> Waits(q, u))
  BY <1>1, <1>2 DEF Waits
<1>6. ASSUME Ahead(q), t = "start" => Waits(q, "close")  PROVE Ahead(r)
  <2> SUFFICES ASSUME NEW i \in 1..(n + 1), r[i].task = "start"
               PROVE  \E j \in 1..(n + 1) : j < i /\ r[j].task = "close"
    BY <1>2 DEF Ahead
  <2>1. CASE i = n + 1
    <3>1. PICK j \in 1..n : q[j].task = "close"
      BY <1>1, <1>2, <1>6, <2>1 DEF Waits
    <3>2. QED  BY <1>1, <1>2, <2>1, <3>1
  <2>2. CASE i \in 1..n
    <3>1. PICK j \in 1..n : j < i /\ q[j].task = "close"
      BY <1>1, <1>2, <1>6, <2>2 DEF Ahead
    <3>2. QED  BY <1>1, <1>2, <2>2, <3>1
  <2>3. QED  BY <1>1, <2>1, <2>2
<1>7. QED  BY <1>3, <1>4, <1>5, <1>6

\* Which wake-ups are left when the first was taken, and when one was added.
LEMMA PendingTail ==
  ASSUME NEW W, NEW q \in Seq(W), q # <<>>, Single(q)
  PROVE  /\ Pending(Tail(q)) \subseteq Pending(q)
         /\ \A w \in Pending(Tail(q)) : w.task # Head(q).task
         /\ Head(q) \in Pending(q)
<1> DEFINE n == Len(q)
<1>1. n \in Nat \ {0} /\ DOMAIN q = 1..n /\ Head(q) = q[1]
  OBVIOUS
<1>2. DOMAIN Tail(q) = 1..(n - 1) /\ \A i \in 1..(n - 1) : Tail(q)[i] = q[i + 1]
  BY <1>1
<1>3. ASSUME NEW i \in 1..(n - 1)
      PROVE  i + 1 \in 1..n /\ q[i + 1].task # Head(q).task
  BY <1>1, <1>3 DEF Single
<1>4. QED  BY <1>1, <1>2, <1>3 DEF Pending

LEMMA PendingAppend ==
  ASSUME NEW W, NEW q \in Seq(W), NEW w
  PROVE  Pending(Append(q, w)) = Pending(q) \cup {w}
<1> DEFINE n == Len(q)
           r == Append(q, w)
<1>1. n \in Nat /\ DOMAIN q = 1..n
  OBVIOUS
<1>2. DOMAIN r = 1..(n + 1) /\ (\A i \in 1..n : r[i] = q[i]) /\ r[n + 1] = w
  BY <1>1
<1>3. 1..(n + 1) = (1..n) \cup {n + 1}
  BY <1>1
<1> HIDE DEF n, r
<1>4. QED  BY <1>1, <1>2, <1>3 DEF Pending, r
=============================================================================
