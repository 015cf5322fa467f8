# TLA+ models of agent-flows

agent-flows runs pipelines of LLM and check steps with approval gates. A
per-project HTTP daemon executes the runs on the Mastra workflow engine; MCP
processes (one per chat) and a web page talk to it. This directory holds TLA+
modules of the parts of that program where the order of events decides whether
it is correct, the TLC configurations that check them on small instances, and
proofs, checked by TLAPS, of what holds for every size. Paths below are those
of the repository (`src/...`); `PROJECT.json` maps each definition to the lines
it stands for.

    tlc  -workers 2 -config RunProduction.cfg MCRunService
    tlc  -workers 2 -config StepExecution.cfg MCStepExecution
    tlapm RunServiceProofs.tla

The other runs go the same way: the configuration, and the module `runs` names
for it in `PROJECT.json`.

## 1. The system

How the parts interact: an MCP process **resolves** the project's daemon (files
and ports), and sends it HTTP requests. A request starts, approves or cancels a
run in the **run service**, which calls the engine with a workflow the
**builder** made of **loaded pipelines**; the engine calls back into the
**steps**, which spawn model CLIs or call APIs, and write the **step log**. The
run service writes **artifacts** and a manifest, which later stages of a chain,
a restarted daemon and the MCP tools read back, and appends decisions to the
log. The **run page** and the `get_run_events` tool follow the log by stream and
by cursor; the page also edits the **canon**, the files the pipelines are loaded
from. Everything in one daemon is one JavaScript thread, interleaved at `await`;
between processes only files, ports and signals are shared.

| component | state it keeps | operations | what is hard | what makes it correct |
|---|---|---|---|---|
| Run service (`runtime/runService.ts`) | `RunRecord` per run: status, gate, decisions, `settledPromise`, `persistPromise`; engine calls in flight | `start`, `approve`, `cancel`, `waitForSettled`, continuations of engine, judge and summary calls | every continuation resumes in a record others changed meanwhile; aborted calls still answer; two promises per run | a gate is answered once; an ended run stays ended; cancellation is final; the starter is told once, the truth, after it is on disk |
| Gate judge, gate summary, gate material (`runtime/gate*.ts`) | none across calls | one model call each, with a deadline | the answer comes minutes late | a late answer is recorded as superseded and moves nothing (the code keeps to it only while the run has not reached another gate: section 6) |
| Artifact store (`runtime/artifactStore.ts`, `serve/artifactInputs.ts`) | artifact per stage, `manifest.json` per chain | write, upsert or record in the manifest, reconcile on read, restore, hand on | read-modify-write over awaits; failed writes are swallowed; several stages in one directory | no chain is called completed too early; artifacts and manifest agree; a restart finds a run's own artifact |
| Step log (`runtime/stepLog.ts`) | sink per open run, events file | open, append, decide, close, read back | torn lines, caps, cancellation against the builder's own last line, continuing another run's file | numbers increase; every started step ends in one terminal line |
| Run page and `get_run_events` (`serve/ui-log.js`, `serve/ui.html`, `bindings/mastra/daemonTools.ts`) | shown events, buffer, cursor | backfill, stream, merge, poll | stream and log are two requests | nothing is missed; a cursor stays within the log |
| Daemon discovery and lifecycle (`bindings/mastra/daemonResolver.ts`, `runtime/daemonRecord.ts`, `serve/stop.ts`, `serve/idleShutdown.ts`) | `daemon.start.lock`, `daemon.json`, memoised port | search, lock, spawn, wait, exit, stop | several processes, crashes, reused ports, check-then-act on files | one starter; only our own daemon and version is used or stopped; a crash wedges nobody |
| Step execution (`canon/runStep.ts`, `runClaudeCli.ts`, `stepRuntime.ts`, `adapters/*`, `bindings/mastra/failover.ts`, `buildSteps.ts`) | child process, watchdog and stall timers, deadline, failover chain, grant directory | run, retry, fail over, abort | timers against the answer and the operator; retry of work already done; children that ignore signals | one settlement per step, which agrees with the log; only providers that enforce the declaration answer; a cancelled chain asks nobody new |
| Review material (`runtime/reviewMaterial.ts`) | ticket queue, baseline, withheld paths | fetch tickets, diff against a baseline | every call may fail; caps; renames of denied files | what is missing is said; a denied path is named, never shown |
| Workflow builder (`bindings/mastra/build*.ts`, `canon/exportSpec.ts`, `persistTicket.ts`) | the context a run accumulates, tickets and documents | levels, merges, loops, gates, assembly, persistence, export, commit | names through nesting; parallel merges; two runs beside each other | prompts render; only what was approved is saved; tickets are whole; nothing is committed that the required check refused |
| Pipeline loading (`canon/load.ts`, `nest.ts`, `graph.ts`) | none | functions from files to workflows | cycles, nested inputs, renaming | load time and run time agree on names |
| Canon editing (`canon/layers.ts`, `canonWriter.ts`, `draftStore.ts`, `fork.ts`, routes of `serve/server.ts`) and bundles (`bundle/*`) | drafts; files of three layers | draft, save, create, delete, fork, import, export | a draft against a newer file; lookups made before a body arrives; layers that appear | nothing is overwritten unseen; the package is never written; what is saved loads; a bundle means what its workflow means here |
| MCP tools (`bindings/mastra/daemonTools.ts`) | memoised port | proxies to the daemon, or reads of the files it left | daemon and files tell the same run differently | the two agree, or the files say so |
| State directories (`runtime/projectState.ts`) | a directory per project, migrated once | create, copy, lock | a copy killed halfway; two starts at once | a partial copy is never taken for a whole one |
| Harness registration and uninstall (`harness/*`, `serve/stop.ts`) | entries in files of the user's | install, uninstall | text edits of somebody else's file; partial failure; live daemons | reports are true; the file comes back as it was (four exceptions: section 6); live state is kept |
| Workspace protection, web page, SQLite store, evaluation, doctor, command line | little or none | string matching, rendering, single statements, one-shot programs | - | see the notes in `PROJECT.json` |

## 2. Modules

| module | models | uses |
|---|---|---|
| `RunLifecycle` | abstract: what a run promises its operator and its starter | |
| `RunService` | one run in `runService.ts`, every method and continuation | refines `RunLifecycle` |
| `StepLog`, `LogReaders` | sinks and events file with their writers; page and poller | `LogReaders` extends `StepLog` |
| `DaemonStart` | MCP processes, daemons, ports, lock, record, stop command | |
| `StepContract` | abstract: what the builder promises of one step | |
| `StepExecution` | one llm, check or review-material step | refines `StepContract` |
| `ReviewMaterial` | what a review-material step captures | extends `StepExecution` |
| `PipelineGraph` | the loader as operators: refusals, nesting, ancestors, levels | |
| `WorkflowRun` | runs of loaded pipelines, side by side | extends `PipelineGraph`; its steps end as `StepContract` says |
| `ArtifactChain` | artifacts and manifest of a chain, crash and restart | |
| `RunTools` | what MCP tools say of a run with and without a daemon | extends `ArtifactChain` |
| `CanonFiles` | the canon's files, drafts, requests, bundles | |
| `JsonMember`, `Harnesses` | the text edit of opencode.json; install and uninstall | `Harnesses` extends `JsonMember` |
| `ProjectHome` | state directories, migration, deletion | |
| `Uninstall` | the uninstall command across both | extends `Harnesses`, `ProjectHome` |
| `MC...` | instances for TLC | |
| `...Proofs` | theorems (section 4) | |

Operators under a comment "Variant" are deliberate mistakes. No behaviour uses
them: each stands ready to replace the definition it is a variant of, to show
that a property notices. `PROJECT.json` lists the pairs under `mutants`. Each
module's `TypeOK`, where there is one, says what its variables hold; where it is
proved the runs do not check it again.

### RunService

State: `record` (the `RunRecord`, plus the judge and summary calls that hold
it), `engine` (start and resume calls not yet answered, the abort, how often
each suspension was resumed), `disk` (the write in progress and what is
published) and `waiter` (one caller of `waitForSettled`). One action is one
stretch of JavaScript between awaits: `Approve`, `CancelAtGate`,
`CancelRunning` are the public methods up to their first await;
`StartReturns`, `ApproveReturns`, `JudgeResumeReturns`, `CancelResumeReturns`,
`CancelAbortReturns`, `JudgeDecides`, `JudgeFails`, `SummaryReturns` are
continuations. The private methods they call (`applyWorkflowResult`,
`afterSettlement`, `degradeToManual`, `finalizeSettlement`, ...) are operators
from record to record, composed in the order of the calls. Artifact writes are
a chain of `persists` links served by `PersistSnapshot`, `PersistArtifact` and
`PersistManifest`; a failing write ends its link, as in the code. What may fail
is the constant `Faults`. The engine is external: it answers every call with
any outcome it can report, aborted calls included.

### StepLog and LogReaders

`log` is the events file as a sequence of numbered lines, `sink[r]` the
`RunLogEntry` of an open run, `work` what the step builders are doing, `feed`
what the subscriber has been sent. `Open` renumbers from the file
(`nextSeqFromFile`), `StartStep`, `Emit`, `FinishStep` and `Decide` append
through `AppendStepLog` (bulk caps, one terminal line per step) or past the sink
once it is closed, `Cancel` and `CancelStep` write the terminal lines of what
is in flight, `Close` ends it; `Crash` may leave half a line. In `LogReaders`,
`page` opens its stream, asks for the log, buffers and merges by number; `poll`
reads by cursor from the route or the file.

### DaemonStart

`client[c]` is an MCP process: its place in `resolveDaemonPort`, what it holds
and its memoised port. One action is one system call or probe: `FindOurDaemon`
reads the record, `Identified` and `PassOver` are the outcome of a probe,
`AcquireStartLock`, `StatLock`, `ReclaimLock` and `RetakeLock` the four steps of
`acquireStartLock`, then `SpawnDaemon`, the polls, and `ReleaseLock`. A daemon
is bound before its record is written (`Listen`, `WriteDaemonRecord`) and takes
the record back in two steps (`Exit`, `UnlinkRecord`). Daemons are ours (this
project and version), old (another version) or of another project, and may
reuse each other's ports. The stop command is `StopProjectDaemon` to
`StopUnlink`. A probe may fail although somebody listens. Left out: a pinned
port in the checked instances (`Pinned` is `NoPort` there; the model has it),
a machine that sleeps while a lock is held, recycled pids, and the rule by which
an idle daemon retires (it may at any time).

### StepExecution, StepContract, ReviewMaterial

`step` is the declaration; `pc` where `execute` is; `call` the one open
`runner()` call: what its child has said, which signal it was sent, whether the
deadline or the watchdog has struck, how often it was attempted. A call is
opened by `Open` (with the codex grant directory, which may not be made); the
child's output (`ClaudeResult`, `CodexMessage`, `ToolCall`), the timers
(`Stall`, `Expire`, `Escalate`), the operator (`Cancel`) and the end of the
child (`ClaudeCloses`, `CodexCloses`, `ApiResponds`, `SpawnError`,
`ShellCloses`) are events in any order. What runs without returning to the
event loop are the steps with `pc` "failed" and "answered": `SkipCandidate`,
`TryCandidate`, `Fail`, `Succeed`, `Retry`, `RejectAnswer`. `StepContract` knows
only starts, results, the outcome and who answered.

`ReviewMaterial` takes the capture apart into its calls: `ParseWord`,
`FollowLink`, `SkipSeen`, `StopAtCap` and `Fetch` work on the queue of
`resolveSpecSources`, `PickBaseline`, `Withhold`, `PairRenames` and
`ReadChange` on the diff. They run inside the one turn of the event loop in
which `StepExecution` settles the step. References are labels, what GitHub says
of a label is a constant; the repository stands still.

### PipelineGraph and WorkflowRun

A step id is the sequence of names its dots separate, a prompt the set of its
placeholders. `WellFormed`, `Load` and `AllWorkflows` are the loader on a set of
files. `WorkflowRun` runs what they give: `ctx[r]` is the accumulated context,
`at[r]` the level (and body and round of a loop), `part[r]` what the steps of a
parallel level have ended with. A value is known by the step that made it; the
working tree by the step that changed it last. Documents are saved in numbered
directories, tickets row by row. A crash is a prefix of a run here. What the
proofs use of the loader is the shape of its result, `BuiltPlan`; the last
section of the module names the conditions on a workflow under which its runs
keep each promise.

### ArtifactChain and RunTools

`record` is the registry, `writer[r]` the chain of writes of a run, `exporter[r]`
the manifest its export step is about to write, `file` and `manifest` the
disk. `Persist...` steps read, modify and write; the daemon may die between
them, one write may fail. `RunTools` has no state of its own: `ToldByDisk`,
`Restored`, `LogLocation`, `SentTo` and `Accepts` are what get_run, a restarted
registry, the log route, decide_entry_point and resolveArtifactInputs make of
the same files. Texts and the order of manifest entries are abstracted; the
status of an entry is read together with the manifest.

### CanonFiles

`files[layer][f]` is the text of a file, `dirs` which directories exist,
`draft[c]` the draft a page has open, `request[c]` the request whose body the
daemon still awaits, with everything the handler looked up before the await,
`seen` what each page last showed its user. Of a pipeline's text its id, what it
nests, what it hands down, its inputs and its prompts are kept. Whoever edits by
hand writes a whole file between two handlers. The package a project may use
as its layer is a constant.

### Harnesses, JsonMember, ProjectHome, Uninstall

`config` and `backup` are texts of tokens, which `SetMember` and `DeleteMember`
edit as `jsonMember.ts` does; Claude Code and Codex are registered through their
own CLIs, which may fail. A command may be interrupted between two system calls,
and while it writes or copies. In `ProjectHome` a start is a process that takes
one system call at a time through `ensureProjectState` and the copy of the old
runs. `Uninstall` runs the removal, then the two questions, then stops the
daemons and deletes. `Solid` and `Others` compare two texts by `Among`: the
tokens that count, each with its place among them, so that "the same members in
the same order" can be stated without a recursion.

## 3. Runs

| run | instance | shows |
|---|---|---|
| `RunProduction` | the shipped daemon: summaries, no judge, two gates, one `manualOnly`, no faults | a running run has exactly one engine call; a waiter's answer is on disk; the run implements `RunLifecycle`; the starter is told; artifacts catch up |
| `RunJudged` | judge, auto mode, three gates, the second `manualOnly`, every fault | no gate resumed twice; the audit trail tells in order who answered what; a judged gate never waits unattended |
| `RunLog` | two runs on one file, two events, caps, one failing kind of append, crashes | numbers increase; a closed log has every terminal line; the page has no gaps; a cursor stays within the log |
| `DaemonStart` | two processes, one mortal; one daemon each of ours, old and foreign; two ports; one hand start | one starter; no lock left behind; what is found is ours; every call ends; a dead starter wedges nobody |
| `StepExecution` | nine declarations over four entries and a chain with an unknown one; captures of seven lists of references and two changes | the builder implements `StepContract`; a cancelled chain asks nobody new; every step settles; review material says what it lacks |
| `WorkflowRun` | the repository's `cycle`, `code-review` and `spec-creation`, each beside a second exporter | prompts render; only approved specs are saved and none is replaced; tickets are whole; nothing runs on a tree the required check refused; runs end or wait |
| `ArtifactChain` | two runs of three stages, the second chained from the first; one crash, one failing write | no chain completed too early; manifest and artifacts agree; a restart finds a run's own artifact; tools with and without a daemon agree |
| `CanonFiles` | two pages, a child and a parent pipeline, a prompt, `providers.yaml`, one bundle, three layers | the package is never written; no unseen text is replaced; no false conflict; what is saved loads; bundles are faithful |
| `Uninstall` | three harnesses, five shapes of opencode.json; two projects, three starts | reports are true; opencode.json comes back, but where `Misled`; no partial copy counts; members of the user's survive; live state is kept |
| `EventCursor` | poller on an empty file | **violated**: the event numbered `nextSeq` is never returned |
| `SpecHandoff` | as `ArtifactChain`, no faults | **violated**: the artifact of an approved, succeeded spec run holds no spec to hand on |
| `EditTheCopy` | as `CanonFiles` | **violated**: a forked workflow that nests others runs, but the editor's routes do not find it |

Each violated property states what a comment, document or test of the
repository says; `PROJECT.json` quotes it under `findings`.

**Bounds.** Two gates are enough for everything said about "this gate and the
next one", which is where the run service goes wrong if it does; with a judge a
third lets a verdict come two gates late, at a `manualOnly` gate or beside
another verdict. Every fault can happen at every point. In `RunLog` two runs,
one after the other, are what renumbering needs; a cap of four bytes is passed
by the second long line; one kind of event fails to append, so a used-up number
with no line occurs; four lines hold two runs, or one run with a torn line
inside. The constraint `OneReader` lets either the page or the poller act: they
share nothing but the file, which neither changes. In `DaemonStart` two clients
give every race for the lock between a starter and a waiter, and between a dead
owner and its successor; three daemons give a found, a refused and a foreign
one, and two ports force reuse; `MaxPolls = 1` is "some polls, then the
deadline", since the deadline may come after any poll. Two processes that
reclaim one dead owner's lock at once would take a third client; `OneStarter`
excludes that.

In `StepExecution` the nine declarations have every need, a schema, a budget, a
deadline and a pinned provider somewhere; the chain holds one entry of each
transport and one nobody knows; `MaxCalls = 3` tool calls are what the loop
detector's two rules need at thresholds of 2 and 3. The captures have three
labels (a pull request that names two issues, one of them twice), a cap of two
fetches, which three labels pass, and two changes: a file renamed to a denied
name, and one renamed from it.

`WorkflowRun` runs the shipped files themselves; the second run exports under
the same title, in two directories. `ArtifactChain`: only `r1` starts without an
artifact, `r2` may be chained into its directory or run on its own; one crash
and one failing write at any point, as a second one meets nothing new.
`CanonFiles`: two symmetric pages, drafts may be open at the start, three
requests and one edit by hand give every order of "open, somebody else writes,
save, save again"; what is edited by hand may be a `providers.yaml` that does
not parse; bundles of a layer that has one are excepted from
`BundleIsFaithful`. `Uninstall`: the two halves share only the command, so one
moves at a time (`OneHalfAtATime`); two actions of the user's, one death, two of
three starts are made.

**Deadlock** is checked in `Uninstall` only, whose user can always begin again.
Elsewhere a run ends, a file reaches its bound, and a machine on which nobody
calls anything rests.

**Fairness.** `RunService`: engine answers, aborts, judge and summary calls,
writes and the waiter are weakly fair, because the code bounds each (step
watchdogs and timeouts, model call deadlines, file writes that return); no
human has to act. `DaemonStart`: a call that has begun runs to its end, and the
clock moves on over an abandoned lock; nobody has to call, serve or stop, and
nothing is assumed of daemons. `StepExecution`: timers fire, a queued step is
begun, a turn of the event loop ends, a child that got SIGKILL is gone; of a
claude child or a shell nothing else is assumed, so it may ignore SIGTERM and
never say a word; codex, which is only sent SIGTERM, and the HTTP client end
when told. `WorkflowRun`: the engine goes on with a run that is running, whose
steps settle by `StepSettles`; nobody has to answer a gate. The other
specifications have no fairness.

## 4. Proofs

All obligations of the eight proof modules are checked by TLAPS; constants are
constrained only by the named assumptions in the modules, which TLC evaluates
on the instances. A condition that only some configurations meet (`~JudgeDeps`,
`~Shared`) is a hypothesis of the theorem. The inductive invariants were checked
by TLC before they were proved (those of the registration with their
quantifiers over positions bounded by the text).

**Run service** (`RunServiceProofs`), for any number of gates.

- `TypeCorrect`, `SingleFlight`: with or without judge and under every fault.
  `AnsweredOnce` alone is not inductive; `IInv` adds that gates ahead have not
  been resumed and that the gate a run waits at has not either. Each private
  method has a lemma about what it does to the record; each action is shown to
  `Advance` the run or to answer a gate.
- `AuditTrailIsComplete`: the same generality. `AuditInv` adds that a run has
  one engine call at most and none at a gate, has one answer for every gate it
  has passed, and that a judge still at work was asked about a gate the run has
  reached and has no entry yet. A step is quiet, an engine answer, a verdict
  overtaken or an answer (`AuditStep`), and each keeps it. What is proved of an
  agent's entry is that its gate had been answered by then, not that this
  verdict answered it: the late verdict of section 6 breaks that.
- `RunningHasAnActor`: `DrivenInv` is at most one engine call, none at a gate,
  one while running, and an abort only of a cancelled run. A resume the engine
  rejects, or a suspension without a path, leaves a run "running" with nobody
  at work, so neither may be among `Faults`.
- `ImplementsLifecycle`, `CancellationIsFinal`: assuming `~JudgeDeps`, the
  shipped configuration, since with a judge both fail (a cancellation during the
  judge's resume ends as `failed`). `HumanInv` adds that no call is by a judge
  and that none is in flight unless the run is running or cancelled; every step
  then maps to a step of `RunLifecycle` or a stutter. Safety only: the abstract
  `Spec` has no fairness.
- `SettlementIsDurable`: without a judge or a failing disk. `DurableInv` counts
  links of the write chain: an announced end has a link that will publish it,
  and what a waiter was told is on disk once its own links are done.

**Step log** (`StepLogProofs`), for all runs, steps, caps, crashes, torn lines and
failing appends.

- `NumbersIncrease`, assuming `~Shared` (one run at a time holds the file).
  `LogInv`: the readable lines are numbered upwards, the number of the open sink
  bounds them, at most one sink is open. `NextSeqFromFile` looks only at the
  last readable line, so it needs the order it maintains.
- `ClosedLogsAreComplete`, runs that share the file included. `StoryInv` says
  what the file must hold for each step by what its builder and its sink say of
  it (`EntryOK`, `StoriesTold`); the line that ends a step may come from the
  builder, from its cancellation or from the end of the run, and whoever is
  first silences the others.
- `CursorsStayWithinTheLog`, assuming `~Shared`: the file only grows, so what a
  cursor has reached stays reached.
- `PagesKeepUp`, assuming `~Shared`. `PageInv` follows every line of the page's
  run: shown, in the buffer, in what the stream still has to deliver, or in the
  answer under way.

**Artifacts** (`ArtifactChainProofs`), for any pipelines, runs, crashes and
failing writes, from `PipelineAssumption` (what exports a spec has a gate first;
a stage offers only findings besides its spec), `MarkersAssumption` (an absent or
a torn file is no artifact) and, for the tools, `DevelopAssumption` and
`KindAssumption` (develop needs no input but the plan; no input kind is none of
them).

- `TypesAreCorrect`, `OwnArtifactIsRestored`, `CompletedChainsSucceeded`,
  `ReadersOfARunAgree` rest on `DiskFacts`: every file says of a run what its
  registry says or said, what a writer holds is true of its run, every entry of
  a manifest has an artifact behind it, and the first artifact a search finds
  with a run's id is its own. It is kept by each system call of each writer, so
  no pair of writers has to be considered.
- `ManifestsAgree`: for directories whose stages did not overlap (`mixed`
  remembers those whose did). `OrderInv`: one run at a time is active in such a
  directory, and while none writes the manifest has the status of each settled
  stage.

**Canon** (`CanonFilesProofs`), for any files, layers, texts, pages, requests and
edits by hand, from `CanonAssumption` (which texts a file may hold; a pipeline
has its own id).

- `PackageIsNeverWritten`: a handler writes where it looked before its await and
  a draft may be days old; `IInv` says that what either holds as its target is
  not the package.
- `ConflictsAreOthers`, `SavesLoseNothingUnseen`: `SeenInv` ties the text a draft
  or a request is compared with to what its page was last shown.
- `WhatIsSavedLoads`, `BundlesAreFaithful`: a pipeline loads when the loader's
  passes reach it (`Grounded`: each pass admits what nests only what is in).
  Three lemmas replace the induction over passes that the provers lack: the
  passes grow, are closed under what they nest, and, by a smallest pass, reach
  whatever a closed set reaches. `GroundedTransfer` matches the passes over the
  merged layers with the passes over the unpacked bundle.

**Steps** (`StepExecutionProofs`).

- `TypeCorrect`, `ChainEndsOnCancel`: for any registry, chain, declarations and
  loop thresholds. `Standing` ties the place of the builder to what is in the
  log: one start and no result while the step is active. `CallEnforces`: whoever
  is being asked, and the entry the step may ask again for its schema, can
  enforce the declaration; that is what makes an accepted answer one of an
  `Enforcers` provider. `FirstAsked`: that entry was already asked, so a retry
  under a cancellation asks nobody new.
- `ReviewIsHonest`: for any references, repository, links, cap and failures.
  `ResolvedIsRead` looks only at a finished list, so `TicketsInv` follows every
  word and link: it is still to be taken, or in the queue, or looked at, or
  something was said (`WordsKept`, `LinksKept`, `SeenIsRead`). `ChangeInv`
  carries the diff from call to call, and needs `BegunStays`: a step is captured
  once.
- `MaterialKeepsContract`: with its calls taken apart the capture is still a
  step of `StepExecution`, so every behaviour implements `StepContract`.

**Workflows** (`WorkflowRunProofs`), for any number of runs of any loaded
workflows. `PlansAssumption` says what the builder's output looks like: levels of
steps with unique ids, only llm steps in parallel or writing, prompts that ask
for inputs or earlier steps, loops with a body. Not every such workflow is safe
(one may export what nobody approved), so each promise has a condition on the
workflow, `WorkflowRun`'s last section, that `MCWorkflowRun` checks of the
shipped files. `RunInv` is the types, where a run may stand (`Placed`) and what
the ends of a parallel level are (`PartOK`); every action is shown to be one of
five moves (`Moves`: rest, pass a level, begin, repeat or leave a loop), and a
level that is passed `Extends` the context by what its steps write. The rest is
about moves:

- `TypeCorrect`: no condition.
- `PromptsAlwaysRender`, if nothing asks for a gate's or a persist step's value
  (`AsksForValues`): `Held`, the inputs and the ids of all passed steps that
  leave a value are in the context, in a loop for both workflows.
- `ExportsAreApproved`, if each export has a gate of its namespace in front of it
  after which nothing writes the spec (`ExportsApproved`): `Seen`, what was on
  the screen of a passed gate is what a reader in its namespace finds until
  something writes it.
- `TicketsAreWhole`, with one persist step (`OneTicket`): `Ticketing`, the parts
  are a prefix, and the id is in the context only behind that step. No other key
  can be named like the ticket's (`WrittenNames`).
- `ChecksHold`, if nothing writes between a check and what counts on it
  (`ReadsBetween`) and beside runs that only read (`ReadersBeside`): `Checked`
  follows the check's value and the tree from the level of the check.

**Daemons** (`DaemonStartProofs`): `TypeCorrect`, `OneStarterAtATime`,
`NoLockLeftBehind`, for any processes, daemons and ports. `TypeInv` adds that a
recorded daemon has listened, so that its port is one. `LockInv` adds
`Undisturbed`: while no client has died the lock is fresh, nobody reclaims it and
whoever believes to hold it is its owner on disk; that is what fails once someone
has died. `OnlyOursIsFound` and `StopIsCareful` are action properties from
`TypeInv`: only `Identified` memoises a port, only `StopProbe` decides to signal.

**Uninstall** (`UninstallProofs`), for any projects, starts, old runs and daemons,
from `AbsentAssumption` (the marker of an absent directory is no set of runs),
`LegacyAssumption` and `StartsAssumption`. `CopiesAreWhole`: a start copies into
`runs.partial` and renames. `CopyInv`: in a project of which no copy failed, was
skipped or lost its lock (`spoiled`), whoever is between taking the lock and
giving it back holds it, what it has copied is in the partial directory, and a
start that is past the copy has left a `runs/` behind, so that no first run can
make an empty one. `NoLiveStateIsDeleted`:
a record names a daemon of its project (`RecordsOurs`), and whoever answered the
uninstall is dead or has its project kept back.

**Registration** (also `UninstallProofs`), for any content of opencode.json, any
places the package can be at and any number of commands, kills and edits, from
`CommandsAssumption` and `NoTextAssumption` (markers are no commands and no
texts), `WrittenAssumption` (what the user has written is a JSON object, or
`Unparsable`; it names at most one `mcp`, which is an object without an entry of
ours) and `AddedAssumption` (the member added by hand is neither).

- The texts come first. Every edit of `JsonMember` is shown to be a splice
  (`SetIsSplice`, `ReplaceIsSplice`, `DeleteIsSplice`). `Nesting` is a difference
  of counts: it adds up over stretches (`NestingSplit`) and does not change under
  a shift, so where what goes and what comes is balanced (`Inert`) every object
  around the splice ends where it ended (`SplicedInside`) and members are where
  they were (`SplicedMembers`, `OuterSplice`). That takes the place of an
  induction over the text. `Among`, the tokens outside a set with their ranks, is
  what a splice of tokens of the set leaves alone (`AmongSpliced`).
- `ReportsAreTrue`, `OthersAreKept`: `HarnessInv` says that opencode.json bears
  nothing of ours (`Plain`) or exactly one entry (`Bears`), what is about to be
  written has the other members of the file, and of each harness a command has
  passed, what may be said of it (`Claim`). A text with two entries of ours
  would break all three, which is why `Members` has to be a singleton after
  every edit, the user's included.
- `FileIsRestored`: `DeleteInserted`, `deleteMember` takes back what `setMember`
  has inserted, but for blanks of an object that was empty. `FoundInv` follows
  what an install has found, beside a backup (`Saved`) that is a copy of it or
  of an older file, from the step that is about to write to the backup that is
  discarded (`Coming`, `Present`, `Going`, `Parting`, `Gone`); an install that
  replaces an entry of another place keeps it (`InstalledAgain`).

Model-checked only:

- liveness (`RunSettles`, `EndedRunIsPublished`, `JudgedGateIsAttended`,
  `ResolutionEnds`, `NeverWedged`, `StepSettles`, `RunEnds`) needs fairness and
  `ENABLED`, beyond the prover;
- that a file which loads and builds is a `BuiltPlan`, and that the shipped ones
  keep the conditions of `WorkflowRunProofs`: TLC evaluates both on the shipped
  files. `Levels` and `Ancestors` are recursive, so for all files it would be
  induction over data. The conditions are not the loader's: `GatePromptLoads`, in
  `MCWorkflowRun`, is a file whose last prompt asks for the gate it depends on. It
  loads and builds, and once the gate is approved its prompt cannot render
  (`load.ts:541` admits any ancestor, the gate at `buildSteps.ts:811` leaves only
  `<id>.approved`). No shipped file does so.

## 5. Hazards

`PROJECT.json` lists, per line, what is hard to test here and the properties
that would catch it. A property and a note together mean that the property
holds with the exception the note names.

## 6. Seen on the way

Places where code, comments or documents disagree, or where the code does what
nobody may have wanted, met while modelling. No run shows them; the models do
what the code does.

Runs and steps:
- With a judge (not shipped): a late verdict on gate g that finds the run
  waiting at another answers that one, `manualOnly` or not, and is entered under
  g as not superseded (`runService.ts:1317` asks whether the run waits, not at
  which gate). Spec 025 has it "discarded and recorded as `superseded: true`,
  never applied" (FR-003, `specs/025-gate-modes/spec.md:36`), and `resolveGate`
  refuse an agent at a `manualOnly` gate (FR-013, `:46`). `approve()` does not
  settle a run parked at a judged gate; a cancellation during the judge's resume
  ends as `failed`.
- A schema retry after a failover goes to the entry the step resolved to first,
  and is attributed to the one that failed over (`buildSteps.ts:668`).
- The budget of a review counts references; a short `#n` costs up to two gh
  calls, although `reviewMaterial.ts:137-142` says "Max `gh` invocations per
  capture". A label named once as a pull request and once as an issue is fetched
  under the first kind only; a rename pass that fails counts as no renames.
- A ticket is made of the assembled spec although a revision was approved
  (`buildSteps.ts:863`). Two writing runs share the working tree unguarded.
- `dynamicMastra` rebuilds only on a miss and throws for all pipelines if one
  cannot be built. types.ts says that `timeoutMs` 0 disables a timeout, load.ts
  refuses it.

Artifacts and tools:
- Stages of one chain that overlap leave stale manifest entries; after a restart
  a chained run is missing from `list()` and `get()`.
- A retired daemon's port stays memoised (`daemonResolver.ts:290`), although
  daemonTools says "The next call starts a new one". The search is not repeated
  under the start lock, so the loser can start a second daemon.
- `get_run` drops `source`, so a run restored as `awaiting_approval` or
  `running` is told as current, and `run_pipeline` polls it for hours; the tool
  that approves reports "cancelled" as "failed"; without a daemon the reader
  takes the first events file of a chained directory; every investigate artifact
  is sent to develop, which refuses it.

Canon and machine:
- `canon_source.contentHash` and the validation state are written, never read. A
  preview that adds an input and uses it in a prompt cannot be saved at once. An
  import with skips validates the whole bundle and writes a part. Two pipelines
  of different layers that share a prompt path lose one prompt in a bundle: the
  steps are followed in order, so with a nested step ahead the root's is lost,
  although `closure.ts:68-69` says that the root's own layer supplies the path. A YAML
  save writes in place, so a crash can tear it, where prompts and providers use
  a temporary file. A deletion checks dependants before its body arrives
  (`server.ts:1602`) and can remove a workflow that has just been mounted.
- Uninstall does not always leave "the directory exactly as it was found"
  (`harnesses.ts:606-610`), as the one backup misleads it (`Misled`). Install
  creates opencode.json, the package moves, install backs up its own file:
  uninstall leaves `{"mcp":{}}` and the backup. Install over a file; the user
  deletes it; install, uninstall: `{}` stays (`:638` asks for a backup, and
  there is an old one), or `{"mcp":{}}` if the old file had an `mcp`. Install;
  the user removes our entry and leaves `"mcp":{}`; install, uninstall: the
  empty object goes, as the old copy had none (`:632`). Install; the user writes
  the file anew without `mcp` where the old copy had one: an empty one stays. A
  copy that a kill cut short (`:546`) counts as one without `mcp`. A `"mcp"`
  that is not an object is corrupted by `setMember`.
- Two starts can reclaim one stale `migrate.lock`, or rob a copy that takes more
  than ten minutes; a failed copy followed by a first run leaves the old runs
  behind for good. Uninstall deletes the state of a daemon whose 2 s probe times
  out.

## 7. Not modelled

Rendering, HTTP parsing, provider accounts, path matching of workspace
protection and of bundles (string work without state), the SQLite store beyond
the rows of a ticket (single statements), and the one-shot programs of
evaluation, doctor and command line, beside which nothing runs. Within modelled
parts: texts and their caps, the introspection channel, the rescan of
`dynamicMastra`, a pinned `--pipelines-dir`, the visibility of workflows, T3
Code, HEAD moving between two git calls, recycled pids, and a machine that
sleeps.

What could come next: that nesting keeps the conditions of `WorkflowRunProofs`,
so that they need to be looked at in the nested files only.
