-------------------------- MODULE MCStepExecution --------------------------
(* Small instances of StepExecution and ReviewMaterial.                    *)
EXTENDS ReviewMaterial, TLC

CONSTANTS opus, codex, sonnet, local, t1, t2, i1, i2, pr

Models == {opus, codex, sonnet, local}
Kinds == (opus :> "claude") @@ (sonnet :> "claude") @@ (codex :> "codex") @@ (local :> "api")
Chain == <<Unknown, local, codex, sonnet>>

Plain ==
  [kind |-> "llm", needs |-> {}, budget |-> 0, timed |-> FALSE, schema |-> FALSE,
   pinned |-> FALSE, override |-> FALSE, required |-> FALSE, optional |-> FALSE]

(* A review with a schema that reads the repository, a step with a budget  *)
(* and a deadline, an optional one that never leaves its provider, one     *)
(* that nobody can enforce, a check, a required check and a capture.       *)
SomeSteps ==
  {[Plain EXCEPT !.schema = TRUE, !.needs = {"read"}, !.optional = TRUE],
   [Plain EXCEPT !.needs = {"budget", "read"}, !.budget = 2, !.timed = TRUE, !.schema = TRUE],
   [Plain EXCEPT !.timed = TRUE],
   [Plain EXCEPT !.pinned = TRUE, !.optional = TRUE],
   [Plain EXCEPT !.override = TRUE, !.needs = {"write"}, !.schema = TRUE],
   [Plain EXCEPT !.kind = "check"],
   [Plain EXCEPT !.kind = "check", !.required = TRUE, !.timed = TRUE],
   [Plain EXCEPT !.kind = "review"],
   [Plain EXCEPT !.kind = "review", !.required = TRUE]}

(* A pull request that names two issues, one of them twice.                *)
Kind == (i1 :> "issue") @@ (i2 :> "issue") @@ (pr :> "pull")
Named == (i1 :> <<>>) @@ (i2 :> <<>>) @@ (pr :> <<i1, i2, i1>>)

At(l, k) == [label |-> l, kind |-> k]
Bare(k) == [kind |-> k]

(* A renamed file and a plain one; either name may be denied.              *)
Renamed == {[from |-> "a", to |-> ".env"], [from |-> "b", to |-> "b"]}
Restored == {[from |-> ".env", to |-> "a"], [from |-> ".key", to |-> ".key"]}

Asked ==
  [sources: {<<>>,
             <<Bare("text"), At(i1, "issues")>>,
             <<At(pr, "pull")>>,
             <<At(pr, "unknown"), At(i1, "unknown")>>,
             <<At(i1, "bare"), At(i1, "issues")>>,
             <<At(i1, "pull"), At(i1, "issues")>>,
             <<Bare("refused"), At(i2, "issues")>>},
   origin: BOOLEAN,
   baseline: {"omitted", "refused", "known"},
   ahead: {TRUE}, parent: BOOLEAN,
   changes: {Renamed, Restored}]
=============================================================================
