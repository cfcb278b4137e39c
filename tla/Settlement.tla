----------------------------- MODULE Settlement ------------------------------
(***************************************************************************)
(* What a client of the bridge may rely on, with no sockets, frames or     *)
(* timers in it. A call is settled once. An answer is the outcome of the   *)
(* call's own execution; a refusal means that it has not been executed and *)
(* never will be; an unknown outcome (mutationMayHaveOccurred) means that  *)
(* it may have been, or may be yet. No call is executed twice.             *)
(***************************************************************************)
CONSTANT Calls

VARIABLES
  outcome,  \* what each call's promise holds
  ran       \* the calls that have been executed

vars == <<outcome, ran>>

Init == outcome = [r \in Calls |-> "none"] /\ ran = {}

Issue(r) ==
  /\ outcome[r] = "none"
  /\ outcome' = [outcome EXCEPT ![r] = "waiting"]
  /\ UNCHANGED ran

Run(r) ==
  /\ r \notin ran
  /\ outcome[r] \in {"waiting", "unknown"}
  /\ ran' = ran \cup {r}
  /\ UNCHANGED outcome

Answer(r) ==
  /\ outcome[r] = "waiting" /\ r \in ran
  /\ outcome' = [outcome EXCEPT ![r] = "answered"]
  /\ UNCHANGED ran

Refuse(r) ==
  /\ outcome[r] \in {"none", "waiting"} /\ r \notin ran
  /\ outcome' = [outcome EXCEPT ![r] = "refused"]
  /\ UNCHANGED ran

\* Several calls may be given up at once, when their connection goes.
GiveUp(R) ==
  /\ \A r \in R : outcome[r] = "waiting"
  /\ outcome' = [r \in Calls |-> IF r \in R THEN "unknown" ELSE outcome[r]]
  /\ UNCHANGED ran

Next ==
  \/ \E r \in Calls : Issue(r) \/ Run(r) \/ Answer(r) \/ Refuse(r)
  \/ \E R \in SUBSET Calls : GiveUp(R)

Spec == Init /\ [][Next]_vars
=============================================================================
