--------------------------- MODULE ObjectLifecycle ---------------------------
(***************************************************************************)
(* What an OpenSSHMaster and an OwnedRemoteProcess promise about the       *)
(* resources they own, whatever tasks call them and wherever those are     *)
(* cancelled: the object's life goes one way, every resource is acquired   *)
(* at most once, and by the time the object is closed, which closing       *)
(* always leads to, it holds none and will acquire none.                   *)
(***************************************************************************)
CONSTANT Resources

VARIABLES phase,  \* where the object is in its life
          held,   \* the resources it holds
          spent   \* the resources it has ever acquired

vars == <<phase, held, spent>>

Init == phase = "new" /\ held = {} /\ spent = {}

Open == phase = "new" /\ phase' = "opening" /\ UNCHANGED <<held, spent>>

\* An acquisition may come to nothing.  One under way when closing begins may
\* still complete.
Acquire ==
  /\ phase \in {"opening", "closing"}
  /\ \E R \in (SUBSET Resources) \ {{}} :
       /\ R \cap spent = {} /\ spent' = spent \cup R
       /\ \E S \in SUBSET R : held' = held \cup S
  /\ UNCHANGED phase

\* It serves once everything was acquired, the last of it in this very step.
Serve ==
  /\ phase = "opening" /\ phase' = "serving" /\ spent' = Resources
  /\ \E S \in SUBSET (Resources \ spent) : held' = held \cup S

\* A resource goes by itself or is released, at any time.
Lose ==
  /\ phase \in {"opening", "serving", "closing"}
  /\ \E r \in held : held' = held \ {r}
  /\ UNCHANGED <<phase, spent>>

Close == phase \in {"new", "opening", "serving"} /\ phase' = "closing" /\ UNCHANGED <<held, spent>>

Finish == phase = "closing" /\ phase' = "closed" /\ held' = {} /\ UNCHANGED spent

Next == Open \/ Acquire \/ Serve \/ Lose \/ Close \/ Finish

Spec == Init /\ [][Next]_vars /\ WF_vars(Finish)
=============================================================================
