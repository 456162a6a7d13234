---------------------------- MODULE PassContract ----------------------------
(***************************************************************************)
(* What the service controller relies on when it runs a pass: the pass     *)
(* ends, and it says "ok" only when the cloud has shown what the pass was  *)
(* asked for.  An error says nothing, and neither does a process that dies *)
(* before it answers.  Who else changes the cloud, and when, is left open. *)
(***************************************************************************)
VARIABLES
    result,  \* "idle", "running", "ok" or "error"
    holds    \* since it began, the cloud has shown what the pass was asked for

vars == <<result, holds>>

TypeOK == result \in {"idle", "running", "ok", "error"} /\ holds \in BOOLEAN

Init == result = "idle" /\ holds \in BOOLEAN

Begin == result = "idle" /\ result' = "running"
Succeed == result = "running" /\ holds /\ result' = "ok"
Fail == result = "running" /\ result' = "error"
Return == result \in {"ok", "error"} /\ result' = "idle"
Die == result = "running" /\ result' = "idle"
Others == result' = result

Next == (Begin \/ Succeed \/ Fail \/ Return \/ Die \/ Others) /\ holds' \in BOOLEAN

(* An answer is true.                                                      *)
Safety == Init /\ [][Next]_vars

(* There is an answer.                                                     *)
Fairness == WF_vars((Succeed \/ Fail) /\ holds' \in BOOLEAN)

Spec == Safety /\ Fairness
=============================================================================
