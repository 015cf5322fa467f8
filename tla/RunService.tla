---------------------------- MODULE RunService ----------------------------
(***************************************************************************)
(* One run of src/runtime/runService.ts: its RunRecord, the workflow       *)
(* engine calls it has in flight, the judge and summary model calls that   *)
(* hold the record across an await, the chained artifact writes, and one   *)
(* caller of waitForSettled.                                               *)
(*                                                                         *)
(* JavaScript runs a handler without interruption up to its next await, so *)
(* each action below is one such stretch: a public method up to its first  *)
(* await, or the continuation of an await.  The private methods a stretch  *)
(* calls are operators from record to record, composed in the order of the *)
(* calls.  Texts, timestamps and step states are left out; gates are named *)
(* by the order in which the run reaches them, so two suspensions at the   *)
(* same step id (a gate in a loop body) are told apart.                    *)
(***************************************************************************)
EXTENDS Naturals, Sequences, FiniteSets

CONSTANTS
  NumGates,       \* bound: suspensions the workflow can reach
  ManualOnly,     \* the gates declared manualOnly in the pipeline
  GateModes,      \* the gate modes a caller may start the run with
  JudgeDeps,      \* a judge is configured
  SummaryDeps,    \* a gate summary model is configured
  Faults          \* what may fail: see FaultKinds

(* "throw": resume or start rejects without having been aborted; "nopath":  *)
(* the engine reports a suspension without a step path; "abort": the        *)
(* engine's cancel() rejects; "disk": an artifact write fails.              *)
FaultKinds == {"throw", "nopath", "abort", "disk"}

ASSUME ConstantsAssumption ==
  /\ NumGates \in Nat
  /\ ManualOnly \subseteq 1..NumGates
  /\ GateModes \subseteq {"manual", "auto"}
  /\ JudgeDeps \in BOOLEAN
  /\ SummaryDeps \in BOOLEAN
  /\ Faults \subseteq FaultKinds

Gates == 1..NumGates
NoGate == 0

Terminal == {"succeeded", "rejected", "failed", "cancelled"}
Status == Terminal \cup {"running", "awaiting_approval"}

VARIABLES
  record,         \* the RunRecord, and the model calls that hold it
  engine,         \* the workflow engine: calls in flight, abort, resumes seen
  disk,           \* the artifact writer and what it has published
  waiter          \* one caller of waitForSettled

vars == <<record, engine, disk, waiter>>

Decision == [gate: 0..NumGates, by: {"human", "agent"},
             approved: BOOLEAN, superseded: BOOLEAN]

Call == [by: {"start", "human", "judge", "cancel"}, approved: BOOLEAN]

RunRecord ==
  [status: Status,
   gateMode: GateModes,
   cancelled: BOOLEAN,
   suspendedStep: 0..NumGates,       \* NoGate before the first suspension
   judgeError: 0..NumGates,          \* the gate whose judge failed, or NoGate
   gateSummary: 0..NumGates,         \* the gate the summary describes, or NoGate
   gateDecisions: Seq(Decision),
   settled: Status \cup {"pending"}, \* what settledPromise resolved with
   settledAt: BOOLEAN,               \* finalizeSettlement has run
   persists: Nat,                    \* links of persistPromise not yet done
   judging: SUBSET Gates,            \* judge calls in flight, by gate
   summarising: [0..NumGates -> Nat]]\* summary calls in flight, by gate

Engine ==
  [calls: SUBSET Call,               \* start() and resume() not yet answered
   cancelling: BOOLEAN,              \* cancel() awaits run.cancel()
   aborted: BOOLEAN,                 \* run.cancel() has been called
   resumed: [Gates -> Nat]]          \* resume() calls each suspension received

Disk ==
  [phase: {"idle", "artifact", "manifest"},
   snapshot: Status,                 \* status in the artifact being written
   entry: Status,                    \* status in the manifest entry being written
   artifact: Status \cup {"none"},
   manifest: Status \cup {"none"}]

Waiter ==
  [phase: {"waiting", "persisting", "returned"},
   links: Nat,                       \* links of the persistPromise it captured
   result: Status \cup {"pending"}]

TypeOK ==
  /\ record \in RunRecord
  /\ engine \in Engine
  /\ disk \in Disk
  /\ waiter \in Waiter
-----------------------------------------------------------------------------
(* The private methods: what each does to the record.                      *)

(* finalizeSettlement: stamp the settle time, close the run's log.         *)
FinalizeSettlement(r) == [r EXCEPT !.settledAt = TRUE]

(* beginPersist: chain one more artifact write behind the pending ones.    *)
BeginPersist(r) == [r EXCEPT !.persists = @ + 1]

(* record.settle: resolving a promise a second time does nothing.          *)
Settle(r, result) ==
  IF r.settled = "pending" THEN [r EXCEPT !.settled = result] ELSE r

(* dispatchGateSummary: fire-and-forget, for the gate last suspended at.   *)
DispatchGateSummary(r) ==
  IF SummaryDeps THEN [r EXCEPT !.summarising[r.suspendedStep] = @ + 1] ELSE r

(* Variant: the starter is not told that the judge gave up.                *)
DegradeSilently(r, g) == DispatchGateSummary([r EXCEPT !.judgeError = g])

(* degradeToManual, with the error of the judge of gate g.                 *)
DegradeToManual(r, g) ==
  Settle(DispatchGateSummary([r EXCEPT !.judgeError = g]), "awaiting_approval")

(* dispatchJudge: without JudgeDeps it degrades before any await.          *)
DispatchJudge(r) ==
  IF JudgeDeps
    THEN [r EXCEPT !.judging = @ \cup {r.suspendedStep}]
    ELSE DegradeToManual(r, r.suspendedStep)

(* The gate the run has just reached is the judge's to answer.             *)
JudgeAnswers(r) ==
  /\ r.status = "awaiting_approval"
  /\ r.gateMode = "auto"
  /\ r.suspendedStep \notin ManualOnly

(* The "suspended" branch of applyWorkflowResult.                          *)
RecordSuspension(r) ==
  [r EXCEPT !.status = "awaiting_approval",
            !.suspendedStep = @ + 1,
            !.judgeError = NoGate,
            !.gateSummary = NoGate]

(* Variant: only the outcomes somebody thought of end the run.             *)
FinalStatusPartial(outcome) ==
  CASE outcome = "success"      -> "succeeded"
    [] outcome = "gateRejected" -> "rejected"
    [] OTHER                    -> "running"

FinalStatus(outcome) ==
  CASE outcome = "success"      -> "succeeded"
    [] outcome = "gateRejected" -> "rejected"
    [] OTHER                    -> "failed"

(* Variant: the cancellation is forgotten.                                 *)
ApplyWhateverIsSaid(r, outcome) ==
  IF outcome = "suspended" THEN RecordSuspension(r)
  ELSE [r EXCEPT !.status = FinalStatus(outcome)]

(* applyWorkflowResult: a cancelled run keeps its status whatever is said. *)
ApplyWorkflowResult(r, outcome) ==
  IF r.cancelled THEN [r EXCEPT !.status = "cancelled"]
  ELSE IF outcome = "suspended" THEN RecordSuspension(r)
  ELSE [r EXCEPT !.status = FinalStatus(outcome)]

FinalizeIfEnded(r) ==
  IF r.status = "awaiting_approval" THEN r ELSE FinalizeSettlement(r)

(* afterSettlement: finalise an ended run, persist, then judge or settle.  *)
AfterSettlement(r) ==
  LET p == BeginPersist(FinalizeIfEnded(r))
  IN  IF JudgeAnswers(p)
        THEN DispatchJudge(p)
        ELSE Settle(DispatchGateSummary(p), p.status)

(* What approve() does with the answer to its resume: it persists, but it  *)
(* neither settles nor summarises the next gate.                           *)
AfterApproval(r) ==
  LET f == FinalizeIfEnded(r)
  IN  BeginPersist(IF JudgeAnswers(f) THEN DispatchJudge(f) ELSE f)

(* The catch branches of start() and resolveGate(): no artifact is begun.  *)
Fail(r) == Settle(FinalizeSettlement([r EXCEPT !.status = "failed"]), "failed")
-----------------------------------------------------------------------------
(* The workflow engine, external: @mastra/core as runService.ts uses it.   *)

(* What a call may come back with.  A rejecting resume makes the gate step *)
(* throw GateRejectedError; an aborted run may reject its pending promise. *)
Outcomes(call) ==
  (IF call.approved THEN {"success", "failed"} ELSE {"gateRejected"})
    \cup (IF call.approved /\ record.suspendedStep < NumGates
            THEN {"suspended"} ELSE {})
    \cup (IF engine.aborted THEN {"throw", "failed"} ELSE {})
    \cup (Faults \cap {"throw", "nopath"})

(* The await throws: the promise rejected, or applyWorkflowResult refused  *)
(* a suspension it could not resume.                                       *)
Throws(outcome) ==
  \/ outcome = "throw"
  \/ outcome = "nopath" /\ ~record.cancelled

(* resume() of the suspended step on behalf of `by`.                       *)
Resume(by, approved) ==
  engine' = [engine EXCEPT !.calls = @ \cup {[by |-> by, approved |-> approved]},
                           !.resumed[record.suspendedStep] = @ + 1]

Answered(call) == engine' = [engine EXCEPT !.calls = @ \ {call}]

(* Variant: a verdict that came too late is recorded as if it had counted. *)
RecordedAsApplied(gate, by, approved, superseded) ==
  Append(record.gateDecisions, [gate |-> gate, by |-> by,
                                approved |-> approved, superseded |-> FALSE])

(* gateDecisions after one more entry.                                     *)
Recorded(gate, by, approved, superseded) ==
  Append(record.gateDecisions, [gate |-> gate, by |-> by,
                                approved |-> approved, superseded |-> superseded])
-----------------------------------------------------------------------------
(* start(): the record is registered and run.start() fired in one stretch. *)
Init ==
  /\ \E mode \in GateModes :
       record = [status |-> "running", gateMode |-> mode, cancelled |-> FALSE,
                 suspendedStep |-> NoGate, judgeError |-> NoGate,
                 gateSummary |-> NoGate, gateDecisions |-> <<>>,
                 settled |-> "pending", settledAt |-> FALSE, persists |-> 0,
                 judging |-> {}, summarising |-> [g \in 0..NumGates |-> 0]]
  /\ engine = [calls |-> {[by |-> "start", approved |-> TRUE]},
               cancelling |-> FALSE, aborted |-> FALSE,
               resumed |-> [g \in Gates |-> 0]]
  /\ disk = [phase |-> "idle", snapshot |-> "running", entry |-> "running",
             artifact |-> "none", manifest |-> "none"]
  /\ waiter = [phase |-> "waiting", links |-> 0, result |-> "pending"]

(* run.start() answers: the then and catch branches of start().            *)
StartReturns ==
  \E call \in engine.calls : \E outcome \in Outcomes(call) :
    /\ call.by = "start"
    /\ Answered(call)
    /\ IF ~Throws(outcome)
         THEN record' = AfterSettlement(ApplyWorkflowResult(record, outcome))
         ELSE record' = IF record.cancelled THEN record ELSE Fail(record)
    /\ UNCHANGED <<disk, waiter>>

(* The guard of approve() and of the gate branch of cancel().              *)
AwaitsApproval == record.status = "awaiting_approval"

(* approve() up to its await; any other status is refused with an error.   *)
Approve(approved) ==
  /\ AwaitsApproval
  /\ record' = [record EXCEPT
       !.status = "running",
       !.gateDecisions = Recorded(record.suspendedStep, "human", approved, FALSE)]
  /\ Resume("human", approved)
  /\ UNCHANGED <<disk, waiter>>

(* The rest of approve().  A throw goes to the HTTP caller: nothing here   *)
(* catches it, and the record keeps the status it has.                     *)
ApproveReturns ==
  \E call \in engine.calls : \E outcome \in Outcomes(call) :
    /\ call.by = "human"
    /\ Answered(call)
    /\ record' = IF Throws(outcome) THEN record
                 ELSE AfterApproval(ApplyWorkflowResult(record, outcome))
    /\ UNCHANGED <<disk, waiter>>

(* cancel() records the gate it rejects as the human's decision.           *)
CancelDecision == Recorded(record.suspendedStep, "human", FALSE, FALSE)

(* cancel() of a run waiting at a gate: the gate is rejected to unwind it. *)
CancelAtGate ==
  /\ AwaitsApproval
  /\ record' = [record EXCEPT !.status = "cancelled", !.cancelled = TRUE,
                              !.gateDecisions = CancelDecision]
  /\ Resume("cancel", FALSE)
  /\ UNCHANGED <<disk, waiter>>

(* cancel() of an executing run: the engine is told to abort.              *)
CancelRunning ==
  /\ record.status = "running"
  /\ record' = [record EXCEPT !.status = "cancelled", !.cancelled = TRUE]
  /\ engine' = [engine EXCEPT !.cancelling = TRUE, !.aborted = TRUE]
  /\ UNCHANGED <<disk, waiter>>

(* Variants: the cancellation is not written to disk, or not announced.    *)
CancelledUnwritten(r) == Settle(FinalizeSettlement(r), "cancelled")
CancelledUnsettled(r) == BeginPersist(FinalizeSettlement(r))

(* The end of cancel(), common to both paths.                              *)
Cancelled(r) == BeginPersist(Settle(FinalizeSettlement(r), "cancelled"))

CancelResumeReturns ==
  \E call \in engine.calls : \E outcome \in Outcomes(call) :
    /\ call.by = "cancel"
    /\ Answered(call)
    /\ record' = Cancelled(IF Throws(outcome) THEN record
                           ELSE ApplyWorkflowResult(record, outcome))
    /\ UNCHANGED <<disk, waiter>>

CancelAbortReturns ==
  /\ engine.cancelling
  /\ engine' = [engine EXCEPT !.cancelling = FALSE]
  /\ record' = Cancelled(record)
  /\ UNCHANGED <<disk, waiter>>

(* run.cancel() rejects: cancel() throws before it finalises anything.     *)
CancelAbortFails ==
  /\ "abort" \in Faults
  /\ engine.cancelling
  /\ engine' = [engine EXCEPT !.cancelling = FALSE]
  /\ UNCHANGED <<record, disk, waiter>>

(* Variant: a verdict is always in time.                                   *)
NeverTooLate == FALSE

(* The guard of resolveGate asks whether the run waits, not at which gate. *)
TooLate == record.status # "awaiting_approval"

(* The judge of gate g answers: dispatchJudge goes on into resolveGate.    *)
JudgeDecides(g, approved) ==
  /\ g \in record.judging
  /\ IF TooLate
       THEN /\ record' = [record EXCEPT
                 !.judging = @ \ {g},
                 !.gateDecisions = Recorded(g, "agent", approved, TRUE)]
            /\ UNCHANGED engine
       ELSE /\ record' = [record EXCEPT
                 !.judging = @ \ {g},
                 !.status = "running",
                 !.gateDecisions = Recorded(g, "agent", approved, FALSE)]
            /\ Resume("judge", approved)
  /\ UNCHANGED <<disk, waiter>>

(* The judge of gate g fails: two malformed verdicts or a transport error. *)
JudgeFails(g) ==
  /\ g \in record.judging
  /\ record' = DegradeToManual([record EXCEPT !.judging = @ \ {g}], g)
  /\ UNCHANGED <<engine, disk, waiter>>

(* The rest of resolveGate(): unlike start(), its catch asks nothing.      *)
JudgeResumeReturns ==
  \E call \in engine.calls : \E outcome \in Outcomes(call) :
    /\ call.by = "judge"
    /\ Answered(call)
    /\ record' = IF Throws(outcome) THEN Fail(record)
                 ELSE AfterSettlement(ApplyWorkflowResult(record, outcome))
    /\ UNCHANGED <<disk, waiter>>

(* The summary model answers for gate g, or fails and only logs.           *)
AttachSummary(r, g) ==
  IF r.status = "awaiting_approval" THEN [r EXCEPT !.gateSummary = g] ELSE r

SummaryReturns(g) ==
  /\ record.summarising[g] > 0
  /\ \E ok \in BOOLEAN :
       LET r == [record EXCEPT !.summarising[g] = @ - 1]
       IN  record' = IF ok THEN AttachSummary(r, g) ELSE r
  /\ UNCHANGED <<engine, disk, waiter>>
-----------------------------------------------------------------------------
(* persistArtifact, one link of the chain at a time: the snapshot is taken *)
(* when the link starts, the manifest entry when the artifact is published.*)

PersistSnapshot ==
  /\ record.persists > 0
  /\ disk.phase = "idle"
  /\ disk' = [disk EXCEPT !.phase = "artifact", !.snapshot = record.status]
  /\ UNCHANGED <<record, engine, waiter>>

PersistArtifact ==
  /\ disk.phase = "artifact"
  /\ disk' = [disk EXCEPT !.phase = "manifest", !.artifact = disk.snapshot,
                          !.entry = record.status]
  /\ UNCHANGED <<record, engine, waiter>>

LinkDone ==
  /\ record' = [record EXCEPT !.persists = @ - 1]
  /\ waiter' = [waiter EXCEPT !.links = IF @ > 0 THEN @ - 1 ELSE 0]
  /\ UNCHANGED engine

PersistManifest ==
  /\ disk.phase = "manifest"
  /\ disk' = [disk EXCEPT !.phase = "idle", !.manifest = disk.entry]
  /\ LinkDone

(* A failed write is warned about and swallowed: the link ends anyway.     *)
PersistFails ==
  /\ "disk" \in Faults
  /\ disk.phase # "idle"
  /\ disk' = [disk EXCEPT !.phase = "idle"]
  /\ LinkDone

(* Variant: waitForSettled returns as soon as the run has settled.         *)
NoLinks == 0

(* waitForSettled waits for the writes begun by the time it looks.         *)
LinksToAwait == record.persists

(* waitForSettled: await settledPromise, then the persistPromise of then.  *)
WaiterSettles ==
  /\ waiter.phase = "waiting"
  /\ record.settled # "pending"
  /\ waiter' = [phase |-> "persisting", links |-> LinksToAwait,
                result |-> record.settled]
  /\ UNCHANGED <<record, engine, disk>>

WaiterReturns ==
  /\ waiter.phase = "persisting"
  /\ waiter.links = 0
  /\ waiter' = [waiter EXCEPT !.phase = "returned"]
  /\ UNCHANGED <<record, engine, disk>>
-----------------------------------------------------------------------------
Human == CancelAtGate \/ CancelRunning \/ \E ok \in BOOLEAN : Approve(ok)

EngineReturns ==
  \/ StartReturns
  \/ ApproveReturns
  \/ CancelResumeReturns
  \/ JudgeResumeReturns

AbortReturns == CancelAbortReturns \/ CancelAbortFails

JudgeReturns(g) ==
  \/ JudgeFails(g)
  \/ \E ok \in BOOLEAN : JudgeDecides(g, ok)

Persist ==
  \/ PersistSnapshot
  \/ PersistArtifact
  \/ PersistManifest
  \/ PersistFails

Wait == WaiterSettles \/ WaiterReturns

Next ==
  \/ Human
  \/ EngineReturns
  \/ AbortReturns
  \/ \E g \in Gates : JudgeReturns(g)
  \/ \E g \in 0..NumGates : SummaryReturns(g)
  \/ Persist
  \/ Wait

Spec == Init /\ [][Next]_vars

(* Every promise the service awaits settles in the end: engine calls are   *)
(* supervised by the step watchdogs, model calls by their deadlines, disk  *)
(* writes return.  Nothing obliges a human to act.                         *)
Fairness ==
  /\ WF_vars(EngineReturns)
  /\ WF_vars(AbortReturns)
  /\ \A g \in Gates : WF_vars(JudgeReturns(g))
  /\ \A g \in 0..NumGates : WF_vars(SummaryReturns(g))
  /\ WF_vars(Persist)
  /\ WF_vars(Wait)

FairSpec == Spec /\ Fairness
-----------------------------------------------------------------------------
(* Properties.                                                             *)

(* Single flight: no suspension is ever resumed twice, whoever answers it  *)
(* (two humans, a human and the judge, a human and a cancellation), since  *)
(* resuming a workflow twice runs the steps behind the gate twice          *)
(* (approve, resolveGate and cancel take the status before they await).    *)
AnsweredOnce == \A g \in Gates : engine.resumed[g] <= 1

(* The engine works on at most one call of a run; a run waiting at a gate  *)
(* has none in flight, and a run reported as running always has one, so    *)
(* some continuation is left to move it (start, approve, resolveGate).     *)
RunningIsDriven ==
  /\ Cardinality(engine.calls) <= 1
  /\ record.status = "awaiting_approval" => engine.calls = {}
  /\ record.status = "running" => engine.calls # {}

Applied(decisions) == {i \in DOMAIN decisions : ~decisions[i].superseded}

(* How many answers the trail holds up to its entry k.                     *)
AnswersBy(decisions, k) == Cardinality({i \in Applied(decisions) : i <= k})

(* The n-th answer stands under gate n if a human gave it, and a judge's   *)
(* entry, superseded or not, behind the answer to the gate it was asked.   *)
InOrder(decisions) ==
  \A k \in DOMAIN decisions :
    LET d == decisions[k]
    IN  /\ d.gate <= AnswersBy(decisions, k)
        /\ d.by = "human" => ~d.superseded /\ d.gate = AnswersBy(decisions, k)
        /\ d.by = "agent" => d.gate \notin ManualOnly

JudgedOnce(decisions) ==
  \A i, k \in DOMAIN decisions :
    /\ decisions[i].by = "agent"
    /\ decisions[k].by = "agent"
    /\ decisions[i].gate = decisions[k].gate
    => i = k

(* The last answer of the trail.                                           *)
LastAnswer(decisions, by, approved) ==
  \E k \in Applied(decisions) :
    /\ \A i \in Applied(decisions) : i <= k
    /\ decisions[k].by = by
    /\ decisions[k].approved = approved

(* Whom the trail names for a resume of the engine.                        *)
Decider(by) == IF by = "judge" THEN "agent" ELSE "human"

(* The audit trail tells what moved the run (spec 025 FR-008): there is    *)
(* one answer for each gate the engine was resumed at, in the order of the *)
(* gates; a human's stands under the gate it was given at; a superseded    *)
(* verdict stands behind the answer that overtook it; the judge is entered *)
(* once per gate, and never for a manualOnly one; and a resume in flight   *)
(* carries the verdict and the author of the last answer.                  *)
(*                                                                         *)
(* What InOrder does not say of an agent, gate = AnswersBy, is not so: the *)
(* late verdict on gate g that finds the run waiting again answers the     *)
(* gate then on screen, be it manualOnly, and is entered under g as not    *)
(* superseded, since resolveGate does not ask at which gate the run waits. *)
(* FR-003 ("never applied") and FR-013 (a manualOnly gate "refuses an      *)
(* agent decision") say otherwise; the property holds in spite of it.      *)
EveryAnswerRecorded ==
  LET decisions == record.gateDecisions
  IN  /\ Cardinality(Applied(decisions)) =
           Cardinality({g \in Gates : engine.resumed[g] > 0})
      /\ InOrder(decisions)
      /\ JudgedOnce(decisions)
      /\ \A call \in engine.calls :
           call.by # "start" => LastAnswer(decisions, Decider(call.by), call.approved)

(* waitForSettled has returned: a caller that saw the run end may restart  *)
(* the daemon and still find the run as it saw it, since the artifact and  *)
(* its manifest entry were published before the call returned.             *)
ObservedSettlementIsDurable ==
  waiter.phase = "returned" /\ waiter.result \in Terminal =>
    /\ disk.artifact = waiter.result
    /\ disk.manifest = waiter.result

(* The record keeps the promises of RunLifecycle: an ended run stays as it *)
(* ended, and the starter is told, once, the status the run then has.      *)
Lifecycle == INSTANCE RunLifecycle WITH
  status <- record.status,
  gate <- record.suspendedStep,
  settled <- record.settled

LifecycleSpec == Lifecycle!Spec

(* The starter of a run is told something in the end: the run ended or it  *)
(* waits for a human; no waitForSettled hangs on a run that is over.       *)
RunSettles == <>(record.settled # "pending")

(* A run that ended is closed (log, introspection) and the disk catches up *)
(* with it: artifact and manifest end with the status the registry shows.  *)
EndedRunIsPublished ==
  record.status \in Terminal ~>
    /\ record.settledAt
    /\ disk.artifact = record.status
    /\ disk.manifest = record.status

(* An auto run never waits unattended: a gate that is the judge's is left, *)
(* or the starter is told that the run now waits for a human (spec 025     *)
(* FR-005, FR-009), whatever the judge does and whoever else answers.      *)
JudgedGateIsAttended ==
  JudgeAnswers(record) ~>
    \/ record.status # "awaiting_approval"
    \/ record.settled # "pending"

(* Cancellation is the operator's last word: whatever the aborted engine   *)
(* call reports, the status stays "cancelled" (comment on RunRecord        *)
(* .cancelled and in applyWorkflowResult).                                 *)
CancelIsSticky == record.cancelled => record.status = "cancelled"
=============================================================================
