----------------------------- MODULE MCWorkflowRun -----------------------------
(***************************************************************************)
(* The pipelines of the repository (pipelines/*.yaml, with the             *)
(* placeholders of prompts/*.md), run two at a time; and one more, whose   *)
(* spec nobody revises.                                                    *)
(***************************************************************************)
EXTENDS WorkflowRun

CONSTANTS r1, r2

Step(name, kind, deps) ==
  [id |-> <<name>>, kind |-> kind, deps |-> [i \in DOMAIN deps |-> <<deps[i]>>],
   set |-> {}, bad |-> {}, pipeline |-> "", with |-> <<>>, asks |-> {},
   required |-> FALSE, writes |-> FALSE, until |-> <<>>, max |-> 0]

With(step, fields) == [step EXCEPT !.set = @ \cup fields]
Llm(name, deps, asks) ==
  [With(Step(name, "llm", deps), {"prompt", "role"}) EXCEPT !.asks = {<<a>> : a \in asks}]
Writer(name, deps, asks) == [Llm(name, deps, asks) EXCEPT !.writes = TRUE]
Optionally(step) == With(step, {"required"})
Nested(name, deps, pipeline, with) ==
  [With(Step(name, "pipeline", deps), {"pipeline"}) EXCEPT !.pipeline = pipeline, !.with = with]
Check(name, deps) == With(Step(name, "check", deps), {"command"})
Required(step) == [With(step, {"required"}) EXCEPT !.required = TRUE]
Exporter(name, deps) == With(Step(name, "export-spec", deps), {"path"})
Loop(name, deps, pipeline, until, max) ==
  [With(Step(name, "loop", deps), {"pipeline", "until", "maxIterations"})
     EXCEPT !.pipeline = pipeline, !.until = until, !.max = max]

File(id, inputs, steps) ==
  [id |-> id, inputs |-> inputs, optional |-> {}, bad |-> {}, steps |-> steps, bodies |-> <<>>]

Shipped ==
  [drafts |-> File("drafts", {"request"},      \* a spec without a revision
     <<Step("assemble", "assemble-spec", <<>>), Step("approve", "gate", <<"assemble">>),
       Exporter("export", <<"approve">>)>>),
   investigate |-> File("investigate", {"request"},
     <<Llm("survey", <<>>, {"request"}), Llm("findings", <<"survey">>, {"survey"})>>),
   audit |-> File("audit", {"plan"},
     <<Llm("correctness", <<>>, {"plan"}), Llm("security", <<>>, {"plan"}),
       Llm("synthesis", <<"correctness", "security">>, {"correctness", "security"})>>),
   correctPlan |-> File("correctPlan", {"plan", "findings"},
     <<With(Llm("revise", <<>>, {"plan", "findings"}), {"produces"})>>),
   specCreation |-> File("specCreation", {"request", "findings"},
     <<Llm("intake", <<>>, {"request", "findings"}), Llm("enrich", <<"intake">>, {"intake"}),
       Llm("critic", <<"enrich">>, {"intake", "enrich"}),
       Llm("security", <<"enrich">>, {"intake", "enrich"}),
       Step("assemble", "assemble-spec", <<"critic", "security">>),
       Nested("verify", <<"assemble">>, "audit", [plan |-> <<"assemble">>]),
       Nested("correct", <<"verify">>, "correctPlan",
              [plan |-> <<"assemble">>, findings |-> <<"verify", "synthesis">>]),
       Step("approve", "gate", <<"correct">>),
       Step("persist", "persist-ticket", <<"approve">>),
       Exporter("export", <<"persist">>)>>),
   develop |-> File("develop", {"plan"}, <<Writer("implement", <<>>, {"plan"})>>),
   buildRound |-> File("buildRound", {},
     <<Check("test", <<>>), Writer("fix", <<"test">>, {"test"})>>),
   build |-> File("build", {"plan"},
     <<Nested("develop", <<>>, "develop", <<>>),
       Loop("converge", <<"develop">>, "buildRound", <<"test">>, 3),
       Nested("review", <<"converge">>, "audit", [plan |-> <<"plan">>]),
       Required(Check("verify", <<"review">>))>>),
   ship |-> File("ship", {"plan"},
     <<With(Step("approve", "gate", <<>>), {"manualOnly"}), Check("commit", <<"approve">>)>>),
   cycle |-> File("cycle", {"request"},
     <<Nested("investigate", <<>>, "investigate", <<>>),
       Nested("plan", <<"investigate">>, "specCreation",
              [findings |-> <<"investigate", "findings">>]),
       Nested("build", <<"plan">>, "build", [plan |-> <<"plan", "correct", "revise">>]),
       Nested("ship", <<"build">>, "ship", <<>>)>>),
   codeReview |-> File("codeReview", {"plan", "baseline", "introducedCommits", "specSources"},
     <<Step("material", "review-material", <<>>),
       Optionally(Llm("brief", <<"material">>, {"material", "plan"})),
       Llm("radius", <<"material", "brief">>, {"brief", "material"}),
       Llm("falsifiability", <<"material", "brief">>, {"brief", "material"}),
       Optionally(Llm("delivery", <<"material", "brief">>, {"brief", "material", "specSources"})),
       Llm("correctness", <<"radius", "brief">>, {"brief", "material", "radius"}),
       Llm("security", <<"radius", "brief">>, {"brief", "material", "radius"}),
       Llm("verify", <<"correctness", "security", "falsifiability", "delivery", "brief">>,
           {"brief", "correctness", "delivery", "falsifiability", "material", "security"}),
       Llm("synthesis", <<"verify">>, {"verify"})>>)]

ShippedPlans == AllWorkflows(Load(Shipped))
AnyName == STRING

(* A pipeline whose last prompt asks for the step it depends on, a gate.   *)
Asking ==
  [asking |-> File("asking", {"request"},
     <<Step("assemble", "assemble-spec", <<>>), Step("approve", "gate", <<"assemble">>),
       Llm("summary", <<"approve">>, {"approve"})>>)]

(* The loader accepts it, and what it builds asks for no value: the gate   *)
(* leaves only `approve.approved`.  So the condition is one on the files,  *)
(* which nothing in the loader ensures.                                    *)
ASSUME GatePromptLoads ==
  \A plans \in {AllWorkflows(Load(Asking))} :
    DOMAIN plans = {"asking"} /\ ~AsksForValues(plans["asking"])

Pairs == r1 :> {"cycle", "codeReview", "specCreation"} @@ r2 :> {"drafts"}

(* All files of the repository load and can be executed.                   *)
ASSUME AllRunnable ==
  LET files == Shipped
  IN  DOMAIN ShippedPlans = DOMAIN files /\ \A id \in DOMAIN files : WellFormed(files[id])

(* All of them keep the conditions under which the promises are proved.    *)
ASSUME ShippedIsSafe ==
  \A plans \in {ShippedPlans} : \A id \in DOMAIN plans :
    AsksForValues(plans[id]) /\ ExportsApproved(plans[id]) /\ OneTicket(plans[id])
      /\ ReadsBetween(plans[id])

ASSUME BesideIsSafe == \A plans \in {Plans} : ReadersBeside(plans)
=============================================================================
