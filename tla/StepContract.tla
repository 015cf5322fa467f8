---------------------------- MODULE StepContract ----------------------------
(***************************************************************************)
(* What the execution of one step owes the workflow, the run's log and the *)
(* operator, whatever happens to the processes and providers behind it     *)
(* (bindings/mastra/buildSteps.ts, spec 036 D2): it settles once, and a    *)
(* step whose start is in the log has one terminal result there, which     *)
(* agrees with what the workflow is told.                                  *)
(***************************************************************************)
EXTENDS Naturals, Sequences

CONSTANTS
  Declared,         \* declarations [kind, required, optional] a step may have
  Enforcers         \* declaration -> the providers that can enforce it

VARIABLES
  declared,         \* the declaration of this step
  cancelled,        \* the run was cancelled
  starts,           \* step.start events in the log
  results,          \* statuses of the step.result events in the log
  outcome,          \* what execute gave the workflow, or "none"
  by                \* the provider whose answer that is

vars == <<declared, cancelled, starts, results, outcome, by>>

Init ==
  /\ declared \in Declared
  /\ cancelled \in BOOLEAN
  /\ starts = 0
  /\ results = <<>>
  /\ outcome = "none"
  /\ by \notin Enforcers[declared]

(* The operator cancels the run, before, during or after the step.         *)
Cancel ==
  /\ cancelled' = TRUE
  /\ UNCHANGED <<declared, starts, results, outcome, by>>

(* The step is refused before it begins: nothing of it is in the log, and  *)
(* not even an optional step lets the run go on.                           *)
Refuse ==
  /\ outcome = "none"
  /\ starts = 0
  /\ outcome' = "threw"
  /\ UNCHANGED <<declared, cancelled, starts, results, by>>

Begin ==
  /\ outcome = "none"
  /\ starts = 0
  /\ starts' = 1
  /\ UNCHANGED <<declared, cancelled, results, outcome, by>>

(* The terminal statuses an outcome may have in the log.                   *)
Agrees(status, o) ==
  \/ status = "succeeded" /\ o = "value"
  \/ status = "failed"    /\ ~cancelled /\ o = "threw"
  \/ status = "failed"    /\ ~cancelled /\ o = "marker" /\ declared.optional
  \/ status = "cancelled" /\ cancelled /\ o = "threw"
  \/ declared.kind # "llm" /\ o = "value"
       /\ \/ status = "cancelled" /\ cancelled
          \/ status = "failed" /\ ~cancelled /\ ~declared.required

(* The last word, of a step that has begun or that begins and ends in one. *)
(* What a model step gives is the answer of a provider that can enforce    *)
(* the permissions and the budget the step declares.                       *)
Settle ==
  /\ outcome = "none"
  /\ starts' = 1
  /\ \E status \in {"succeeded", "failed", "cancelled"}, o \in {"value", "marker", "threw"} :
       /\ Agrees(status, o)
       /\ results' = Append(results, status)
       /\ outcome' = o
       /\ (by' \in Enforcers[declared]) = (declared.kind = "llm" /\ o = "value")
  /\ UNCHANGED <<declared, cancelled>>

Next == Cancel \/ Refuse \/ Begin \/ Settle

Spec == Init /\ [][Next]_vars
=============================================================================
