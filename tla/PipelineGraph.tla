---------------------------- MODULE PipelineGraph ----------------------------
(***************************************************************************)
(* Pipeline files and what the loader makes of them (canon/load.ts,        *)
(* canon/nest.ts, canon/graph.ts): the rules a file must keep, the         *)
(* expansion of nested pipelines into one flat list of steps, the levels   *)
(* in which the steps run and the ancestors whose outputs a step may read. *)
(*                                                                         *)
(* A step id is a sequence of names: the dots of "plan.correct.revise" are *)
(* the boundaries of the sequence.  A prompt is the set of its             *)
(* placeholders.  A file is well-formed YAML here; a field that is present *)
(* with a value the loader refuses is in "bad".                            *)
(***************************************************************************)
EXTENDS Naturals, Sequences, FiniteSets, TLC, SequencesExt, FiniteSetsExt

CONSTANT Refused    \* the file does not load

(* StepDef: what a step may have besides its id, kind and dependsOn.       *)
StepFields ==
  {"prompt", "role", "model", "schema", "permissions", "skills", "produces", "maxBudgetUsd",
   "failover", "timeoutMs", "required", "env", "command", "path", "pipeline", "with",
   "maxIterations", "until", "message", "manualOnly", "workspace"}

(* PipelineDef and LoadedPipeline.                                         *)
WellFormed(p) ==
  /\ p.bad \subseteq {"inputs", "defaultTimeoutMs", "defaultMaxBudgetUsd"}
  /\ \A s \in ToSet(p.steps) : s.bad \subseteq s.set /\ s.set \subseteq StepFields

Ids(steps) == {s.id : s \in ToSet(steps)}
StepAt(steps, id) == CHOOSE s \in ToSet(steps) : s.id = id
Deps(steps, id) == ToSet(StepAt(steps, id).deps)

(***************************************************************************)
(* graph.ts.                                                               *)
(***************************************************************************)
(* pipelineAncestors: what a step depends on, and what that depends on.    *)
Ancestors(steps) ==
  LET down[ids \in SUBSET Ids(steps)] ==
        LET more == ids \cup (UNION {Deps(steps, d) : d \in ids} \cap Ids(steps))
        IN  IF more = ids THEN ids ELSE down[more]
  IN  [id \in Ids(steps) |-> down[Deps(steps, id) \cap Ids(steps)]]

(* validate: unique ids, known references, no cycle.                       *)
UniqueIds(steps) == Cardinality(Ids(steps)) = Len(steps)
KnownReferences(steps) == \A s \in ToSet(steps) : ToSet(s.deps) \subseteq Ids(steps)
Acyclic(steps) == \A id \in Ids(steps) : id \notin Ancestors(steps)[id]

ValidGraph(steps) == UniqueIds(steps) /\ KnownReferences(steps) /\ Acyclic(steps)

(* Variant: a step is ready once one of its dependencies is done.        *)
ReadySoon(steps, done) ==
  SelectSeq(steps, LAMBDA s : s.id \notin done /\ (s.deps = <<>> \/ ToSet(s.deps) \cap done # {}))

(* The steps of the next level, in the order of the file.                  *)
Ready(steps, done) ==
  SelectSeq(steps, LAMBDA s : s.id \notin done /\ ToSet(s.deps) \subseteq done)

(* _computeLevels.                                                         *)
Levels(steps) ==
  LET from[done \in SUBSET Ids(steps)] ==
        LET level == Ready(steps, done)
        IN  IF level = <<>> THEN <<>> ELSE <<level>> \o from[done \cup Ids(level)]
  IN  from[{}]

(***************************************************************************)
(* nest.ts.                                                                *)
(***************************************************************************)
Entries(steps) == {s.id : s \in {t \in ToSet(steps) : t.deps = <<>>}}

(* Variant: the steps a pipeline begins with.                            *)
FirstSteps(steps) == SelectSeq(steps, LAMBDA s : s.deps = <<>>)

(* The steps no other step of the pipeline depends on.                     *)
Terminals(steps) ==
  SelectSeq(steps, LAMBDA s : \A t \in ToSet(steps) : s.id \notin ToSet(t.deps))

(* rewritePromptPlaceholders: an input becomes the parent's key it is      *)
(* mapped to, or stays as it is; a sibling gets the nesting step's name.   *)
RewrittenAsk(ask, nested, nesting) ==
  IF \E i \in nested.inputs : ask = <<i>>
    THEN IF ask[1] \in DOMAIN nesting.with THEN nesting.with[ask[1]] ELSE ask
    ELSE IF ask \in Ids(nested.steps) THEN nesting.id \o ask ELSE ask

(* A step of a nested pipeline under its new name.  The name of a loop's   *)
(* body is left behind; the body itself travels in "bodies".               *)
Renamed(s, nested, nesting) ==
  [s EXCEPT !.id = nesting.id \o @,
            !.deps = IF @ = <<>> THEN nesting.deps
                     ELSE [i \in DOMAIN @ |-> nesting.id \o @[i]],
            !.asks = {RewrittenAsk(a, nested, nesting) : a \in @},
            !.set = @ \ {"pipeline"},
            !.with = <<>>]

Nests(s) == s.kind = "pipeline"
Loops(s) == s.kind = "loop"

(* The keys of "with" name inputs of the nested pipeline.                  *)
MapsInputs(s, nested) == DOMAIN s.with \subseteq nested.inputs

(* A second expansion, of a pipeline that was expanded before, looks for   *)
(* the bodies of its loops again, by the name of their file.               *)
BodiesFound(p, loaded) ==
  \A s \in ToSet(p.steps) :
    Loops(s) => "pipeline" \in s.set /\ loaded[s.pipeline] # Refused

(* expand: nested steps in the place of their nesting step, dependencies   *)
(* on the nesting step turned into dependencies on its last steps.         *)
Expanded(p, loaded) ==
  LET nested(s) == loaded[s.pipeline]
      unfold(s) ==
        IF Nests(s) THEN [i \in DOMAIN nested(s).steps |-> Renamed(nested(s).steps[i], nested(s), s)]
        ELSE <<s>>
      raw == FlattenSeq([i \in DOMAIN p.steps |-> unfold(p.steps[i])])
      nesting == {s \in ToSet(p.steps) : Nests(s)}
      lasts(s) == LET t == Terminals(nested(s).steps) IN [i \in DOMAIN t |-> s.id \o t[i].id]
      resolved(d) ==
        IF \E s \in nesting : s.id = d THEN lasts(CHOOSE s \in nesting : s.id = d) ELSE <<d>>
      rewired(s) == [s EXCEPT !.deps = FlattenSeq([i \in DOMAIN @ |-> resolved(@[i])])]
      own == {s \in ToSet(p.steps) : Loops(s)}
      keys == {s.id : s \in own}
                \cup UNION {{s.id \o k : k \in DOMAIN nested(s).bodies} : s \in nesting}
      body(k) ==
        IF \E s \in own : s.id = k THEN nested(CHOOSE s \in own : s.id = k)
        ELSE LET s == CHOOSE s \in nesting : \E j \in DOMAIN nested(s).bodies : s.id \o j = k
             IN  nested(s).bodies[CHOOSE j \in DOMAIN nested(s).bodies : s.id \o j = k]
  IN  [p EXCEPT !.steps = [i \in DOMAIN raw |-> rewired(raw[i])],
                !.bodies = [k \in keys |-> body(k)]]

(***************************************************************************)
(* load.ts: the rules for one step.                                        *)
(***************************************************************************)
LlmOnly ==
  {"prompt", "model", "schema", "permissions", "skills", "produces", "maxBudgetUsd", "failover",
   "role"}

(* NON_LLM_FORBIDDEN, NON_CHECK_FORBIDDEN, REQUIRED_ALLOWED_KINDS.         *)
Forbidden(kind) ==
  IF kind = "llm" THEN {"env", "manualOnly"}
  ELSE LlmOnly
         \cup (IF kind = "check" THEN {} ELSE {"env"})
         \cup (IF kind \in {"check", "review-material"} THEN {} ELSE {"required"})
         \cup (IF kind = "gate" THEN {} ELSE {"manualOnly"})
         \cup (IF kind = "review-material" THEN {"command"} ELSE {})

Needed(kind) ==
  CASE kind = "llm"         -> {"prompt"}
    [] kind = "pipeline"    -> {"pipeline"}
    [] kind = "loop"        -> {"pipeline", "maxIterations", "until"}
    [] kind = "check"       -> {"command"}
    [] kind = "export-spec" -> {"path"}
    [] OTHER                -> {}

(* The fields whose values the loader looks at.                            *)
Examined(kind) ==
  CASE kind = "llm"             -> {"required", "timeoutMs", "produces", "failover", "maxBudgetUsd",
                                    "role", "prompt", "schema", "permissions", "skills"}
    [] kind = "check"           -> {"required", "env", "command"}
    [] kind = "review-material" -> {"required"}
    [] kind = "gate"            -> {"manualOnly"}
    [] kind = "loop"            -> {"maxIterations"}
    [] OTHER                    -> {}

LawfulNonLlm(s) ==
  /\ s.set \cap Forbidden(s.kind) = {}
  /\ Needed(s.kind) \subseteq s.set
  /\ s.bad \cap Examined(s.kind) = {}

(* An llm step names a role or a model, and not both; its prompt lies      *)
(* under the root of its layer and can be read.                            *)
LawfulLlm(s) ==
  /\ s.set \cap Forbidden("llm") = {}
  /\ Needed("llm") \subseteq s.set
  /\ Cardinality(s.set \cap {"role", "model"}) = 1
  /\ s.bad \cap Examined("llm") = {}

Lawful(s) == IF s.kind = "llm" THEN LawfulLlm(s) ELSE LawfulNonLlm(s)

(* The rules for the file before anything is expanded.                     *)
LawfulFile(p) ==
  /\ UniqueIds(p.steps)
  /\ \A s \in ToSet(p.steps) : "workspace" \notin s.set
  /\ p.bad = {}                   \* defaultTimeoutMs, defaultMaxBudgetUsd, input names
  /\ p.optional \subseteq p.inputs
  /\ ValidGraph(p.steps)
  /\ \A s \in ToSet(p.steps) : Lawful(s)

(* A placeholder names an input, "models" or an ancestor.                  *)
AsksKnown(p) ==
  LET before == Ancestors(p.steps)
  IN  \A s \in ToSet(p.steps) :
        s.asks \subseteq {<<i>> : i \in p.inputs \cup {"models"}} \cup before[s.id]

(* One file, given what the files it nests have loaded to.  A file on a    *)
(* cycle of files waits for itself and is refused.                         *)
LoadOne(p, loaded) ==
  LET children == {s \in ToSet(p.steps) : Nests(s) \/ Loops(s)}
      usable ==
        \A s \in children :
          /\ s.pipeline \in DOMAIN loaded
          /\ loaded[s.pipeline] # Refused
          /\ BodiesFound(loaded[s.pipeline], loaded)
          /\ Nests(s) => MapsInputs(s, loaded[s.pipeline])
      whole == Expanded(p, loaded)
  IN  IF LawfulFile(p) /\ usable /\ ValidGraph(whole.steps) /\ AsksKnown(whole)
        THEN whole ELSE Refused

(* loadPipeline for every id of a catalogue: a file after the files it     *)
(* nests.                                                                  *)
Load(files) ==
  LET ids == DOMAIN files
      children(p) == {s.pipeline : s \in {t \in ToSet(p.steps) : Nests(t) \/ Loops(t)}}
      pass[n \in Nat] ==
        IF n = 0 THEN [id \in {i \in ids : files[i] = Refused} |-> Refused] @@ <<>>
        ELSE LET prev == pass[n - 1]
                 next == {id \in ids \ DOMAIN prev :
                            children(files[id]) \cap ids \subseteq DOMAIN prev}
             IN  [id \in next |-> LoadOne(files[id], prev)] @@ prev
      done == pass[Cardinality(ids)]
  IN  done @@ [id \in ids |-> Refused]

(***************************************************************************)
(* What the workflow builder can execute (bindings/mastra/build.ts).       *)
(***************************************************************************)
Gates(steps) == {s.id : s \in {t \in ToSet(steps) : t.kind = "gate"}}

(* findGateAncestor: depth first, in the order of the dependencies; here   *)
(* only whether there is one.                                              *)
HasGate(steps, id) == Ancestors(steps)[id] \cap Gates(steps) # {}

Executable ==
  {"llm", "assemble-spec", "gate", "persist-ticket", "loop", "check", "review-material",
   "export-spec"}

(* buildLevelsOntoBuilder throws for anything else.                        *)
BuildsFlat(p) ==
  /\ \A l \in ToSet(Levels(p.steps)) : Len(l) > 1 => \A s \in ToSet(l) : s.kind = "llm"
  /\ \A s \in ToSet(p.steps) :
       /\ s.kind \in Executable
       /\ s.kind \in {"persist-ticket", "export-spec"} => HasGate(p.steps, s.id)
       /\ Loops(s) => s.id \in DOMAIN p.bodies

Builds(p) == BuildsFlat(p) /\ \A k \in DOMAIN p.bodies : BuildsFlat(p.bodies[k])

(***************************************************************************)
(* Reference definitions.                                                  *)
(***************************************************************************)
(* The order the author of nested files means: two steps of an expanded    *)
(* pipeline are ordered as the two steps of the first file in which their  *)
(* names part.                                                             *)
MeantBefore(files, p, x, y) ==
  LET before[d \in 1 .. Len(y), f \in DOMAIN files] ==
        LET steps == files[f].steps
            a == <<x[d]>>
            b == <<y[d]>>
        IN  IF a # b THEN a \in Ancestors(steps)[b]
            ELSE d < Len(x) /\ d < Len(y) /\ before[d + 1, StepAt(steps, a).pipeline]
  IN  before[1, p]

(* The level of a step is the length of the longest chain behind it.       *)
Depth(steps) ==
  LET depth[id \in Ids(steps)] ==
        IF Deps(steps, id) = {} THEN 1 ELSE 1 + Max({depth[d] : d \in Deps(steps, id)})
  IN  [id \in Ids(steps) |-> depth[id]]

(* Each step is in the level of its depth, once.                           *)
LevelsRight(steps) ==
  LET levels == Levels(steps)
  IN  /\ UNION {Ids(levels[n]) : n \in DOMAIN levels} = Ids(steps)
      /\ \A n \in DOMAIN levels : \A s \in ToSet(levels[n]) : Depth(steps)[s.id] = n

(* The expansion keeps the meant order, no more and no less.               *)
OrderKept(files, p, loaded) ==
  \A x, y \in Ids(loaded[p].steps) :
    x \in Ancestors(loaded[p].steps)[y] <=> MeantBefore(files, p, x, y)
=============================================================================
