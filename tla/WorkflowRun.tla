------------------------------ MODULE WorkflowRun ------------------------------
(***************************************************************************)
(* Runs of loaded pipelines as the workflow builder composes them          *)
(* (bindings/mastra/build.ts, buildSteps.ts): the levels in order, the     *)
(* steps of a level in parallel, the context that every step extends, the  *)
(* loops, the gates, the tickets and the documents that are saved.         *)
(*                                                                         *)
(* What happens inside one step is StepExecution's subject; here a step    *)
(* ends as StepContract says: with a value, or without one.                *)
(*                                                                         *)
(* The context is a function from keys to values.  A key is a step id or,  *)
(* for what is derived from one, the id with its last name replaced or     *)
(* extended.  The keys "models" and "provider" are not modelled, nor is    *)
(* what cannot differ: a value is known by the step that made it.          *)
(***************************************************************************)
EXTENDS PipelineGraph

CONSTANTS
  Run,       \* the runs
  Name,      \* what a step, an input or a key may be called
  Plans,     \* the workflows that can be run: see AllWorkflows
  Starts,    \* the pipelines a run may be started on
  MaxDirs,   \* MAX_DIR_SUFFIX: how many directories one title may have
  None       \* no value

ASSUME MaxDirsAssumption == MaxDirs \in Nat \ {0}

(* A step as the builder closes over it, with the keys its prompt may read.*)
Built(s, p) ==
  [id |-> s.id, kind |-> s.kind, asks |-> s.asks,
   visible |-> {<<i>> : i \in p.inputs} \cup Ancestors(p.steps)[s.id],
   optional |-> "required" \in s.set /\ ~s.required, required |-> s.required,
   produces |-> "produces" \in s.set, writes |-> s.writes, until |-> s.until, max |-> s.max]

(* buildLevelsOntoBuilder: a flat pipeline as a sequence of levels.        *)
Workflow(p) ==
  LET levels == Levels(p.steps)
  IN  [n \in DOMAIN levels |-> [i \in DOMAIN levels[n] |-> Built(levels[n][i], p)]]

(* The workflow of a loaded pipeline, under <<>>, and of its loops' bodies.*)
Workflows(p) == [k \in {<<>>} \cup DOMAIN p.bodies |->
                   Workflow(IF k = <<>> THEN p ELSE p.bodies[k])]

(* buildPipelineWorkflow for every file that loads and builds.             *)
AllWorkflows(loaded) ==
  [id \in {i \in DOMAIN loaded : loaded[i] # Refused /\ Builds(loaded[i])} |->
     Workflows(loaded[id])]

(* The names of the builder's own keys are among them.                     *)
ASSUME NameAssumption == {"input", "spec", "revisedSpec", "approved", "ticketId"} \subseteq Name

Key == Seq(Name)

BuiltStep ==
  [id : Key \ {<<>>}, kind : Executable, asks : SUBSET Key, visible : SUBSET Key, optional : BOOLEAN,
   required : BOOLEAN, produces : BOOLEAN, writes : BOOLEAN, until : Key, max : Nat]

(* The steps in front of a level.                                          *)
Passed(levels, n) == UNION {ToSet(levels[m]) : m \in 1 .. n - 1}

(* The inputs of a pipeline: what a step without dependencies may read.    *)
InputsOf(levels) == levels[1][1].visible

(* Levels of steps with an id of their own: only llm steps run in parallel *)
(* or write, and what a prompt asks for is an input or a step in front of  *)
(* it.                                                                     *)
BuiltWorkflow(levels) ==
  /\ levels \in Seq(Seq(BuiltStep)) \ {<<>>}
  /\ \A n \in DOMAIN levels :
       /\ levels[n] # <<>>
       /\ Len(levels[n]) > 1 => \A s \in ToSet(levels[n]) : s.kind = "llm"
       /\ \A s \in ToSet(levels[n]) :
            /\ s.writes => s.kind = "llm"
            /\ s.asks \subseteq s.visible
            /\ s.visible \subseteq InputsOf(levels) \cup {t.id : t \in Passed(levels, n)}
       /\ \A m \in DOMAIN levels : \A s \in ToSet(levels[m]), t \in ToSet(levels[n]) :
            s.id = t.id => m = n /\ s = t

(* The workflow of a pipeline and those of its loops' bodies; in this      *)
(* model the body of a loop has no loops of its own.                       *)
BuiltPlan(p) ==
  /\ <<>> \in DOMAIN p
  /\ \A k \in DOMAIN p : k \in Key /\ BuiltWorkflow(p[k])
  /\ \A s \in Passed(p[<<>>], Len(p[<<>>]) + 1) : s.kind = "loop" => s.id \in DOMAIN p \ {<<>>}
  /\ \A k \in DOMAIN p \ {<<>>} : \A s \in Passed(p[k], Len(p[k]) + 1) : s.kind # "loop"

(* What a run may have been started on.                                    *)
StartedOn(r) == {Plans[id] : id \in Starts[r]}

(* A run is started on something that can be run.                          *)
ASSUME PlansAssumption ==
  \A plans \in {Plans} :
    /\ Starts \in [Run -> SUBSET DOMAIN plans]
    /\ \A p \in Range(plans) : BuiltPlan(p)

VARIABLES
  plan,      \* the workflow each run was started on
  at,        \* where each run is: [body, level, round]; "outer" is where its loop stands
  ctx,       \* the accumulated context
  part,      \* what the steps of a parallel level have ended with
  status,    \* of the run
  shown,     \* at a gate: what is on the screen of the approver
  approved,  \* what the approvers have seen and approved
  tree,      \* the working tree, known by the step that has changed it last
  disk,      \* the saved documents, by directory
  source,    \* the manifest's specSource of each run
  ticket,    \* the ticket each run has created
  saving     \* the part of the ticket that is written next

vars == <<plan, at, ctx, part, status, shown, approved, tree, disk, source, ticket, saving>>

(* What one ticket consists of, in the order it is written.                *)
Parts ==
  <<"requirements", "criteria", "weaknesses", "findings", "provenance", "ready">>

Made == {"value", "marker", "outcome", "spec", "rendered"}

(* A value: the step that made it; whether a check passed, a document is   *)
(* finished, a loop converged; the tree a check has run on.                *)
Value(by, made, good, seen) == [by |-> by, made |-> made, good |-> good, seen |-> seen]

Position == [body : Key, level : Nat \ {0}, round : Nat, outer : Nat]
Trees == {None} \cup [of : Run, step : Key]
Values == [by : Key, made : Made, good : BOOLEAN, seen : Trees]
Tickets == [spec : Values, parts : SUBSET ToSet(Parts)]
ASSUME NoneAssumption == None \notin Tickets

Current(r) == plan[r][at[r].body]
Level(r) == Current(r)[at[r].level]
Alone(r) == Len(Level(r)) = 1
Only(r) == Level(r)[1]

(* nsKey and publishedSpecKey.                                             *)
NsKey(id, bare) == Append(Front(id), bare)
PublishedKey(id) ==
  IF Len(id) = 1 THEN <<"revisedSpec">> ELSE NsKey(Front(id), "revisedSpec")

Set(c, k, v) == [x \in {k} \cup DOMAIN c |-> IF x = k THEN v ELSE c[x]]

(* Variant: the assembled spec, whether there is a revision or not.      *)
AssembledSpec(c, reader) ==
  IF NsKey(reader, "spec") \in DOMAIN c THEN c[NsKey(reader, "spec")] ELSE None

(* resolveApprovedSpec: a published revision wins over the assembled one.  *)
ResolveSpec(c, reader) ==
  LET revised == NsKey(reader, "revisedSpec")
      spec == NsKey(reader, "spec")
  IN  CASE revised \in DOMAIN c                          -> c[revised]
        [] revised \notin DOMAIN c /\ spec \in DOMAIN c  -> c[spec]
        [] OTHER                                         -> None

(* resolveDotPath: the first name of the path is the key, the rest leads   *)
(* into its value; a step id with dots in it is never found.               *)
Truthy(c, until) == Len(until) = 1 /\ until \in DOMAIN c /\ c[until].good

(* renderPrompt, with the keys of the context that are visible.            *)
Renders(r, s) == s.asks \subseteq s.visible \cap DOMAIN ctx[r]

Init ==
  /\ \E plans \in {Plans} : \E f \in {g \in [Run -> DOMAIN plans] : \A r \in Run : g[r] \in Starts[r]} :
       plan = [r \in Run |-> plans[f[r]]]
  /\ at = [r \in Run |-> [body |-> <<>>, level |-> 1, round |-> 0, outer |-> 0]]
  /\ ctx = [r \in Run |-> [k \in InputsOf(plan[r][<<>>]) |->
                              Value(<<"input">>, "value", TRUE, None)]]
  /\ part = [r \in Run |-> <<>>]
  /\ status = [r \in Run |-> "running"]
  /\ shown = [r \in Run |-> None]
  /\ approved = [r \in Run |-> {}]
  /\ tree = None
  /\ disk \in {<<>>, Set(<<>>, 1, [by |-> None, doc |-> None])}     \* a spec of an earlier run, or none
  /\ source = [r \in Run |-> None]
  /\ ticket = [r \in Run |-> None]
  /\ saving = [r \in Run |-> 0]

(***************************************************************************)
(* From level to level.                                                    *)
(***************************************************************************)
Fails(r) == status' = [status EXCEPT ![r] = "failed"]

(* The next level with context c, or the end of the run.  In the body of a *)
(* loop the counter step is still to come.                                 *)
Advance(r, c) ==
  /\ ctx' = [ctx EXCEPT ![r] = c]
  /\ at' = [at EXCEPT ![r].level = @ + 1]
  /\ status' = IF at[r].level = Len(Current(r)) /\ at[r].body = <<>>
                 THEN [status EXCEPT ![r] = "completed"] ELSE status

AtStep(r, kind) ==
  /\ status[r] = "running"
  /\ at[r].level <= Len(Current(r))
  /\ Alone(r)
  /\ Only(r).kind = kind

(***************************************************************************)
(* Steps with an agent, a command or a capture behind them.                *)
(***************************************************************************)
(* A step with contents: write may have changed the tree, however it ends. *)
Touches(r, s) == tree' \in IF s.writes THEN {tree, [of |-> r, step |-> s.id]} ELSE {tree}

(* buildLlmStep: the value under the id and, for a revision, where the     *)
(* siblings of the nesting step look for it.                               *)
Extended(c, s, v) ==
  LET own == Set(c, s.id, v)
  IN  IF s.kind = "llm" /\ s.produces /\ v.made = "value"
        THEN Set(own, PublishedKey(s.id), v) ELSE own

(* What a step may end with; nothing when its prompt does not render.      *)
Outcomes(r, s) ==
  IF s.kind = "llm" /\ ~Renders(r, s) THEN {}
  ELSE {Value(s.id, "value", g, IF s.kind = "check" THEN tree ELSE None) :
          g \in IF s.kind = "check" \/ s.produces THEN BOOLEAN ELSE {TRUE}}
         \cup (IF s.kind = "llm" /\ s.optional THEN {Value(s.id, "marker", TRUE, None)} ELSE {})

(* An optional llm step fails only where its prompt does not render.       *)
MayThrow(r, s) == ~(s.kind = "llm" /\ s.optional /\ Renders(r, s))

Works(s) == s.kind \in {"llm", "check", "review-material"}

(* Variant: a check that failed does not stop the run.                   *)
NeverStops(s, v) == FALSE

(* buildCheckStep, buildReviewMaterialStep: required: true.                *)
Stops(s, v) == s.kind # "llm" /\ s.required /\ ~v.good

EndStep(r) ==
  /\ \E kind \in {"llm", "check", "review-material"} : AtStep(r, kind)
  /\ LET s == Only(r)
     IN  \/ \E v \in Outcomes(r, s) :
              IF Stops(s, v) THEN Fails(r) /\ UNCHANGED <<at, ctx>>
              ELSE Advance(r, Extended(ctx[r], s, v))
         \/ MayThrow(r, s) /\ Fails(r) /\ UNCHANGED <<at, ctx>>
  /\ Touches(r, Only(r))
  /\ UNCHANGED <<plan, part, shown, approved, disk, source, ticket, saving>>

(* One step of a parallel level; all of them are llm steps.                *)
EndParallel(r) ==
  /\ status[r] = "running"
  /\ at[r].level <= Len(Current(r))
  /\ ~Alone(r)
  /\ \E s \in ToSet(Level(r)) :
       /\ s.id \notin DOMAIN part[r]
       /\ \/ \E v \in Outcomes(r, s) :
               part' = [part EXCEPT ![r] = Set(@, s.id, Extended(ctx[r], s, v))]
          \/ MayThrow(r, s) /\ part' = [part EXCEPT ![r] = Set(@, s.id, None)]
       /\ Touches(r, s)
  /\ UNCHANGED <<plan, at, ctx, status, shown, approved, disk, source, ticket, saving>>

(* Variant: the context of the first step is the whole of it.            *)
FirstOnly(level, ends) == ends[level[1].id]

(* buildParallelMergeStep: the first step's context, and of every other    *)
(* step the key of its id.                                                 *)
Merged(level, ends) ==
  LET first == ends[level[1].id]
      others == Ids(level) \ {level[1].id}
  IN  [k \in others \cup DOMAIN first |-> IF k \in others THEN ends[k][k] ELSE first[k]]

Merge(r) ==
  /\ status[r] = "running"
  /\ at[r].level <= Len(Current(r))
  /\ ~Alone(r)
  /\ DOMAIN part[r] = Ids(Level(r))
  /\ part' = [part EXCEPT ![r] = <<>>]
  /\ IF \E k \in DOMAIN part[r] : part[r][k] = None
       THEN Fails(r) /\ UNCHANGED <<at, ctx>>
       ELSE Advance(r, Merged(Level(r), part[r]))
  /\ UNCHANGED <<plan, shown, approved, tree, disk, source, ticket, saving>>

(***************************************************************************)
(* Specs, gates, tickets and documents.                                    *)
(***************************************************************************)
(* buildAssembleStep.                                                      *)
Assemble(r) ==
  /\ AtStep(r, "assemble-spec")
  /\ LET id == Only(r).id
         spec == Value(id, "spec", TRUE, None)
     IN  Advance(r, Set(Set(ctx[r], id, spec), NsKey(id, "spec"), spec))
  /\ UNCHANGED <<plan, part, shown, approved, tree, disk, source, ticket, saving>>

(* buildGateStep: the run waits with a spec on the screen ...              *)
Suspend(r) ==
  /\ AtStep(r, "gate")
  /\ status' = [status EXCEPT ![r] = "awaiting"]
  /\ shown' = [shown EXCEPT ![r] = ResolveSpec(ctx[r], Only(r).id)]
  /\ UNCHANGED <<plan, at, ctx, part, approved, tree, disk, source, ticket, saving>>

(* ... until it is approved, which is noted under the gate's own key ...   *)
Approve(r) ==
  /\ status[r] = "awaiting"
  /\ LET id == Only(r).id
     IN  /\ ctx' = [ctx EXCEPT ![r] = Set(@, Append(id, "approved"), Value(id, "value", TRUE, None))]
         /\ at' = [at EXCEPT ![r].level = @ + 1]
         /\ status' = [status EXCEPT ![r] = IF at[r].level = Len(Current(r))
                                               /\ at[r].body = <<>>
                                              THEN "completed" ELSE "running"]
  /\ approved' = [approved EXCEPT ![r] = @ \cup {shown[r]}]
  /\ shown' = [shown EXCEPT ![r] = None]
  /\ UNCHANGED <<plan, part, tree, disk, source, ticket, saving>>

(* ... or rejected, which fails the run.                                   *)
Reject(r) ==
  /\ status[r] = "awaiting"
  /\ Fails(r)
  /\ shown' = [shown EXCEPT ![r] = None]
  /\ UNCHANGED <<plan, at, ctx, part, approved, tree, disk, source, ticket, saving>>

(* buildPersistStep and persistTicket: the ticket of the assembled spec    *)
(* and then its parts, each a write of its own that can fail.              *)
CreateTicket(r) ==
  /\ AtStep(r, "persist-ticket")
  /\ saving[r] = 0
  /\ LET spec == AssembledSpec(ctx[r], Only(r).id)
     IN  \/ /\ spec # None
            /\ ticket' = [ticket EXCEPT ![r] = [spec |-> spec, parts |-> {}]]
            /\ saving' = [saving EXCEPT ![r] = 1]
            /\ UNCHANGED status
         \/ Fails(r) /\ UNCHANGED <<ticket, saving>>
  /\ UNCHANGED <<plan, at, ctx, part, shown, approved, tree, disk, source>>

(* Variant: the ticket is ready before its provenance is written.        *)
ReadyEarly(n) ==
  IF n = 5 THEN "ready" ELSE IF n = 6 THEN "provenance" ELSE Parts[n]

NextPart(n) == Parts[n]

WritePart(r) ==
  /\ AtStep(r, "persist-ticket")
  /\ saving[r] > 0
  /\ \/ /\ ticket' = [ticket EXCEPT ![r].parts = @ \cup {NextPart(saving[r])}]
        /\ IF saving[r] < Len(Parts)
             THEN /\ saving' = [saving EXCEPT ![r] = @ + 1]
                  /\ UNCHANGED <<at, ctx, status>>
             ELSE /\ saving' = [saving EXCEPT ![r] = 0]
                  /\ LET id == Only(r).id
                     IN  Advance(r, Set(ctx[r], NsKey(id, "ticketId"),
                                          Value(id, "value", TRUE, None)))
     \/ /\ Fails(r)
        /\ saving' = [saving EXCEPT ![r] = 0]
        /\ UNCHANGED <<at, ctx, ticket>>
  /\ UNCHANGED <<plan, part, shown, approved, tree, disk, source>>

(* Variant: a directory that is taken is written to again.               *)
FirstDir == {1}

(* writeSpecDocument: the first of the title's directories that has no     *)
(* spec.md yet; all specs have one title here.                             *)
FreeDir ==
  LET free == {n \in 1 .. MaxDirs : n \notin DOMAIN disk}
  IN  {n \in free : \A m \in free : n <= m}

(* renderSpecKitSpec: the document of an assembled spec, which never is    *)
(* without clarification markers.                                          *)
Rendered(spec) == [spec EXCEPT !.made = "rendered", !.good = FALSE]

Document(spec) == IF spec.made = "spec" THEN Rendered(spec) ELSE spec

(* assertRevisionIsFinished: a revision has no open markers.               *)
Exportable(spec) == spec # None /\ (spec.made = "spec" \/ spec.good)

(* buildExportSpecStep.                                                    *)
Export(r) ==
  /\ AtStep(r, "export-spec")
  /\ LET id == Only(r).id
         spec == ResolveSpec(ctx[r], id)
     IN  \/ /\ Exportable(spec)
            /\ \E n \in FreeDir :
                 /\ disk' = Set(disk, n, [by |-> r, doc |-> Document(spec)])
                 /\ source' = [source EXCEPT ![r] = [by |-> spec.by, dir |-> n]]
            /\ Advance(r, Set(ctx[r], id, Value(id, "value", TRUE, None)))
         \/ /\ ~Exportable(spec) \/ FreeDir = {}
            /\ Fails(r)
            /\ UNCHANGED <<at, ctx, disk, source>>
  /\ UNCHANGED <<plan, part, shown, approved, tree, ticket, saving>>

(***************************************************************************)
(* Loops: the body is a workflow of its own over the same context.         *)
(***************************************************************************)
EnterLoop(r) ==
  /\ AtStep(r, "loop")
  /\ at' = [at EXCEPT ![r] = [body |-> Only(r).id, level |-> 1, round |-> 0,
                              outer |-> at[r].level]]
  /\ UNCHANGED <<plan, ctx, part, status, shown, approved, tree, disk, source, ticket, saving>>

LoopStep(r) == plan[r][<<>>][at[r].outer][1]

(* Variant: only the condition ends the loop.                            *)
UntilOnly(s, c, rounds) == Truthy(c, s.until)

(* The condition of buildLoopStep.                                         *)
LoopEnds(s, c, rounds) == Truthy(c, s.until) \/ rounds >= s.max

(* The counter step at the end of the body, the condition, and after the   *)
(* last round the outcome under the loop's id in the place of the counter. *)
EndRound(r) ==
  /\ status[r] = "running"
  /\ at[r].body # <<>>
  /\ at[r].level > Len(Current(r))
  /\ LET s == LoopStep(r)
         rounds == at[r].round + 1
         outcome == Value(s.id, "outcome", Truthy(ctx[r], s.until), None)
     IN  IF LoopEnds(s, ctx[r], rounds)
           THEN LET last == at[r].outer = Len(plan[r][<<>>])
                IN  /\ ctx' = [ctx EXCEPT ![r] = Set(@, s.id, outcome)]
                    /\ at' = [at EXCEPT ![r] = [body |-> <<>>, level |-> at[r].outer + 1,
                                                round |-> 0, outer |-> 0]]
                    /\ status' = IF last THEN [status EXCEPT ![r] = "completed"] ELSE status
           ELSE /\ at' = [at EXCEPT ![r].level = 1, ![r].round = Min({rounds, s.max})]
                /\ UNCHANGED <<ctx, status>>
  /\ UNCHANGED <<plan, part, shown, approved, tree, disk, source, ticket, saving>>

Next ==
  \E r \in Run :
    \/ EndStep(r) \/ EndParallel(r) \/ Merge(r)
    \/ Assemble(r) \/ Suspend(r) \/ Approve(r) \/ Reject(r)
    \/ CreateTicket(r) \/ WritePart(r) \/ Export(r)
    \/ EnterLoop(r) \/ EndRound(r)

(* The engine takes a run further as long as it can; nobody has to answer  *)
(* a gate.                                                                 *)
Engine(r) ==
  \/ EndStep(r) \/ EndParallel(r) \/ Merge(r) \/ Assemble(r) \/ Suspend(r)
  \/ CreateTicket(r) \/ WritePart(r) \/ Export(r) \/ EnterLoop(r) \/ EndRound(r)

Spec == Init /\ [][Next]_vars /\ \A r \in Run : WF_vars(Engine(r))

(***************************************************************************)
(* Properties.                                                             *)
(***************************************************************************)
AtWork(r) == status[r] = "running" /\ at[r].level <= Len(Current(r))

StepsOf(levels) == Passed(levels, Len(levels) + 1)
StepIds == UNION {UNION {{s.id : s \in StepsOf(plan[r][k])} : k \in DOMAIN plan[r]} : r \in Run}

IsContext(c) ==
  /\ c = [k \in DOMAIN c |-> c[k]]
  /\ \A k \in DOMAIN c : k \in Key /\ c[k] \in Values

(* The variables have the types their comments give.                       *)
TypeOK ==
  /\ at \in [Run -> Position]
  /\ ctx = [r \in Run |-> ctx[r]] /\ \A r \in Run : IsContext(ctx[r])
  /\ part = [r \in Run |-> part[r]]
  /\ \A r \in Run : part[r] = [k \in DOMAIN part[r] |-> part[r][k]]
  /\ \A r \in Run : \A k \in DOMAIN part[r] : part[r][k] # None => IsContext(part[r][k])
  /\ status \in [Run -> {"running", "awaiting", "completed", "failed"}]
  /\ shown \in [Run -> {None} \cup Values]
  /\ \A r \in Run : \A v \in approved[r] : v \in {None} \cup Values
  /\ approved = [r \in Run |-> approved[r]]
  /\ tree \in Trees
  /\ DOMAIN disk \subseteq 1 .. MaxDirs /\ disk = [n \in DOMAIN disk |-> disk[n]]
  /\ source \in [Run -> {None} \cup [by : Key, dir : DOMAIN disk]]
  /\ ticket \in [Run -> {None} \cup Tickets]
  /\ saving \in [Run -> 0 .. Len(Parts)] /\ \A r \in Run : saving[r] > 0 => ticket[r] # None

(* When a step is reached, its prompt renders: every placeholder the       *)
(* loader let through has a value by then, through nesting, renaming,      *)
(* parallel levels, optional steps that failed, and loops.                 *)
PromptsRender ==
  \A r \in Run : AtWork(r) =>
    \A s \in ToSet(Level(r)) : s.kind = "llm" => Renders(r, s)

(* What a run has saved is the document of a spec that somebody approved   *)
(* on the screen; the manifest names the step that wrote it; no later      *)
(* export, of this run or another one, replaces it.                        *)
ExportIsApproved ==
  \A r \in Run : source[r] # None =>
    LET saved == disk[source[r].dir]
    IN  /\ saved.by = r
        /\ \E spec \in approved[r] \ {None} : saved.doc = Document(spec)
        /\ saved.doc.by = source[r].by

(* A ticket is ready only when all of it is written, and a run that is     *)
(* past its persist step has a ready one.                                  *)
TicketIsWhole ==
  \A r \in Run :
    /\ ticket[r] # None /\ "ready" \in ticket[r].parts => ticket[r].parts = ToSet(Parts)
    /\ (\E id \in StepIds : NsKey(id, "ticketId") \in DOMAIN ctx[r])
         => ticket[r] # None /\ "ready" \in ticket[r].parts

WritesBetween(steps, c, s) ==
  \E w \in steps : /\ w.writes \/ w.kind = "loop"
                   /\ c.id \in w.visible /\ w.id \in s.visible

(* A step after a required check, with no writing step in between, runs on *)
(* the very tree the check has passed on, as long as other runs only read. *)
NothingOnBrokenTree ==
  \A r \in Run : AtWork(r) =>
    LET steps == StepsOf(Current(r))
    IN  \A s \in ToSet(Level(r)), c \in steps :
          /\ c.kind = "check" /\ c.required
          /\ c.id \in s.visible
          /\ ~WritesBetween(steps, c, s)
          => ctx[r][c.id].good /\ ctx[r][c.id].seen = tree

(***************************************************************************)
(* Workflows of which runs keep these promises, whatever their pipelines.  *)
(***************************************************************************)
(* A gate and a persist step leave no value under their own id.            *)
Silent == {"gate", "persist-ticket"}
SilentIds(steps) == {s.id : s \in {t \in steps : t.kind \in Silent}}

(* No prompt asks for one that leaves none; what the body of a loop takes  *)
(* as an input is there when the loop begins.                              *)
AsksForValues(p) ==
  \A k \in DOMAIN p : \A s \in StepsOf(p[k]) :
    /\ s.kind = "llm" => s.asks \cap SilentIds(StepsOf(p[k])) = {}
    /\ s.kind = "loop" => InputsOf(p[s.id]) \subseteq s.visible \ SilentIds(StepsOf(p[k]))

(* The keys a step writes.                                                 *)
SpecKeys(id) == {NsKey(id, "spec"), NsKey(id, "revisedSpec")}

Written(s) ==
  CASE s.kind = "llm" /\ s.produces -> {s.id, PublishedKey(s.id)}
    [] s.kind = "assemble-spec"     -> {s.id, NsKey(s.id, "spec")}
    [] s.kind = "gate"              -> {Append(s.id, "approved")}
    [] s.kind = "persist-ticket"    -> {NsKey(s.id, "ticketId")}
    [] OTHER                        -> {s.id}

(* Every export has a gate in its namespace in front of it, after which    *)
(* nothing touches the spec.                                               *)
ExportsApproved(p) ==
  \A k \in DOMAIN p : \A n \in DOMAIN p[k] : \A e \in ToSet(p[k][n]) : e.kind = "export-spec" =>
    \E m \in 1 .. n - 1 : \E g \in ToSet(p[k][m]) :
      /\ g.kind = "gate" /\ Front(g.id) = Front(e.id)
      /\ \A j \in m + 1 .. n - 1 : \A s \in ToSet(p[k][j]) :
           s.kind # "loop" /\ Written(s) \cap SpecKeys(e.id) = {}

(* One persist step at most, in no loop, and no key but its own is named   *)
(* like the ticket's.                                                      *)
OneTicket(p) ==
  /\ \A k \in DOMAIN p \ {<<>>} : \A s \in StepsOf(p[k]) : s.kind # "persist-ticket"
  /\ \A s, t \in StepsOf(p[<<>>]) :
       s.kind = "persist-ticket" /\ t.kind = "persist-ticket" => s = t
  /\ \A k \in DOMAIN p : \A id \in InputsOf(p[k]) \cup {s.id : s \in StepsOf(p[k])} :
       id # <<>> => Last(id) # "ticketId"

(* Between a required check and a step that may count on it, nothing       *)
(* writes, not even what does not depend on the check.                     *)
ReadsBetween(p) ==
  \A k \in DOMAIN p : \A m \in DOMAIN p[k] : \A c \in ToSet(p[k][m]) :
    c.kind = "check" /\ c.required =>
      /\ c.id \notin InputsOf(p[k])
      /\ \A n \in DOMAIN p[k] : \A s \in ToSet(p[k][n]) :
           c.id \in s.visible /\ ~WritesBetween(StepsOf(p[k]), c, s) =>
             /\ \A j \in m + 1 .. n - 1 : \A w \in ToSet(p[k][j]) :
                  ~w.writes /\ w.kind # "loop" /\ c.id \notin Written(w)
             /\ Len(p[k][n]) > 1 => \A w \in ToSet(p[k][n]) : ~w.writes

HasWriter(p) == \E k \in DOMAIN p : \E s \in StepsOf(p[k]) : s.writes
HasCheck(p) == \E k \in DOMAIN p : \E s \in StepsOf(p[k]) : s.kind = "check" /\ s.required

(* A run that counts on a check is beside runs that only read.             *)
ReadersBeside(plans) ==
  \A q, r \in Run : q # r =>
    \A p \in Starts[q], o \in Starts[r] : ~(HasWriter(plans[p]) /\ HasCheck(plans[o]))

(* A run comes to its end or to a gate: loops are bounded, and whatever    *)
(* fails ends the run.                                                     *)
RunEnds == \A r \in Run : (status[r] = "running") ~> (status[r] # "running")
=============================================================================
