------------------------- MODULE CandidateLifecycle -------------------------
(***************************************************************************)
(* What the backend promises about one candidate, as atomic operations: a  *)
(* CV is received, the candidate is scored, a dossier turns it "analyzed", *)
(* humans decide on the dossier, and a deletion ends everything for good.  *)
(***************************************************************************)
CONSTANTS Candidate, Uploaded, Decider

VARIABLES
  stage,    \* where each candidate is
  scored,   \* candidates with a score
  decided   \* pairs <<candidate, the request that decided>>

lifecycle == <<stage, scored, decided>>

Init ==
  /\ stage = [c \in Candidate |-> IF c \in Uploaded THEN "received" ELSE "unborn"]
  /\ scored = {}
  /\ decided = {}

Alive(c) == stage[c] \in {"received", "analyzed"}

Receive(c) ==
  /\ stage[c] = "unborn"
  /\ stage' = [stage EXCEPT ![c] = "received"]
  /\ UNCHANGED <<scored, decided>>

Score(c) ==
  /\ Alive(c)
  /\ scored' = scored \cup {c}
  /\ UNCHANGED <<stage, decided>>

Analyze(c) ==
  /\ Alive(c) /\ c \in scored
  /\ stage' = [stage EXCEPT ![c] = "analyzed"]
  /\ UNCHANGED <<scored, decided>>

Decide(c, d) ==
  /\ stage[c] = "analyzed"
  /\ decided' = decided \cup {<<c, d>>}
  /\ UNCHANGED <<stage, scored>>

Delete(c) ==
  /\ Alive(c)
  /\ stage' = [stage EXCEPT ![c] = "deleted"]
  /\ scored' = scored \ {c}
  /\ decided' = {p \in decided : p[1] # c}

Next ==
  \E c \in Candidate :
    \/ Receive(c) \/ Score(c) \/ Analyze(c) \/ Delete(c)
    \/ \E d \in Decider : Decide(c, d)

Spec == Init /\ [][Next]_lifecycle
=============================================================================
