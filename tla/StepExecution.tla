---------------------------- MODULE StepExecution ----------------------------
(***************************************************************************)
(* The execution of one llm, check or review-material step of a run        *)
(* (bindings/mastra/buildSteps.ts, bindings/mastra/failover.ts,            *)
(* canon/runStep.ts, canon/stepRuntime.ts, canon/runClaudeCli.ts,          *)
(* canon/adapters/).                                                       *)
(*                                                                         *)
(* A step calls a provider: a claude or codex child process, an HTTP       *)
(* request, or a shell for a check.  The child's output and its end, the   *)
(* deadline, the progress watchdog and the operator's cancellation are     *)
(* events of the daemon's event loop in any order.  What the code does     *)
(* between two of them without going back to the loop - an answer parsed   *)
(* and asked for again, a candidate skipped and the next one tried - are   *)
(* the steps with pc "failed" and "answered", during which no other event  *)
(* is taken.  The contents of prompts and answers are left out; time is    *)
(* what may have happened.                                                 *)
(***************************************************************************)
EXTENDS Integers, Sequences, FiniteSets

CONSTANTS
  Entries,          \* model entries of the registry
  Transport,        \* entry -> "claude", "codex" or "api"
  Entry0,           \* what the step resolves to
  Fallback,         \* the profile's chain: the entry of each candidate ...
  Unknown,          \* ... or Unknown, a profile nobody declared
  Shell, None,
  Declarations,     \* the steps a pipeline may hold
  Tools,            \* (name, input) pairs of tool calls
  LoopConsecutive, LoopWindow, LoopDistinctMin,
  MaxCalls          \* BOUND: tool calls of one child

Caps == {"read", "write", "deny", "budget"}

Declaration ==
  [kind: {"llm", "check", "review"},
   needs: SUBSET Caps,       \* permissions and budget the step declares
   budget: Nat,              \* maxBudgetUsd when "budget" is among them
   timed: BOOLEAN,           \* a declared timeout
   schema: BOOLEAN,
   pinned: BOOLEAN,          \* failover: false
   override: BOOLEAN,        \* the run names a model for this step
   required: BOOLEAN,        \* required: true
   optional: BOOLEAN]        \* required: false

ASSUME EntriesAssumption ==
  /\ Transport \in [Entries -> {"claude", "codex", "api"}]
  /\ Entry0 \in Entries
  /\ Unknown \notin Entries
  /\ Shell \notin Entries \cup {Unknown}
  /\ None \notin Entries \cup {Shell, Unknown}
  /\ Fallback \in Seq(Entries \cup {Unknown})
ASSUME DeclarationsAssumption == Declarations \subseteq Declaration
ASSUME LoopAssumption ==
  /\ LoopConsecutive \in Nat \ {0}
  /\ LoopWindow \in Nat \ {0}
  /\ LoopDistinctMin \in Nat
  /\ MaxCalls \in Nat

VARIABLES
  step,             \* the declaration of the step
  cancelled,        \* Mastra's abortSignal
  pc,               \* "queued", "calling", "failed", "answered" or "done"
  call,             \* the runner() call
  fault,            \* the error the last call ended with
  next,             \* position in the chain
  spent,            \* spentUsd, from usage events
  starts, results,  \* step.start events, statuses of step.result events
  named,            \* the model step.result names, or None
  outcome,          \* what execute returned or threw
  by,               \* history: the entry whose answer was accepted
  asked,            \* history: the entries a call was opened for
  stray,            \* entries of children alive after their call settled
  grant             \* the directory a codex child runs in exists

vars == <<step, cancelled, pc, call, fault, next, spent, starts, results, named,
          outcome, by, asked, stray, grant>>

Call ==
  [entry: Entries \cup {Shell},
   use: {"first", "candidate", "retry"},
   attempt: 1 .. 2,
   cap: Int,                                \* --max-budget-usd
   pairs: Seq(Tools),                       \* the loop detector's history
   said: {"nothing", "success", "blocked", "budget", "turns", "error"},
   trip: BOOLEAN,                           \* watchdogTrip
   expired: BOOLEAN,                        \* the deadline aborted the call
   sent: {"nothing", "term", "kill"}]       \* the signal sent to the child

Faults == {"none", "abort", "timeout", "transport", "turns", "budget", "watchdog", "other"}

TypeOK ==
  /\ step \in Declarations
  /\ cancelled \in BOOLEAN
  /\ pc \in {"queued", "calling", "failed", "answered", "done"}
  /\ call \in Call
  /\ fault \in Faults
  /\ next \in 1 .. Len(Fallback) + 1
  /\ spent \in Int
  /\ starts \in Nat
  /\ results \in Seq({"succeeded", "failed", "cancelled"})
  /\ named \in Entries \cup {None}
  /\ outcome \in {"none", "value", "marker", "threw"}
  /\ by \in Entries \cup {Shell, None}
  /\ asked \subseteq Entries \cup {Shell}
  /\ stray \subseteq Entries \cup {Shell}
  /\ grant \in BOOLEAN

Fresh(e, use, cap) ==
  [entry |-> e, use |-> use, attempt |-> 1, cap |-> cap, pairs |-> <<>>, said |-> "nothing",
   trip |-> FALSE, expired |-> FALSE, sent |-> "nothing"]

Init ==
  /\ step \in Declarations
  /\ cancelled \in BOOLEAN
  /\ pc = "queued"
  /\ call = Fresh(Entry0, "first", 0)
  /\ fault = "none"
  /\ next = 1
  /\ spent = 0
  /\ starts = 0
  /\ results = <<>>
  /\ named = None
  /\ outcome = "none"
  /\ by = None
  /\ asked = {}
  /\ stray = {}
  /\ grant = FALSE

(***************************************************************************)
(* What a transport can do.                                                *)
(***************************************************************************)
Via(e) == IF e = Shell THEN "shell" ELSE Transport[e]

(* capabilities() of the adapters.                                         *)
Capabilities(t) ==
  CASE t = "claude" -> Caps
    [] t = "codex"  -> {"read", "deny"}
    [] OTHER        -> {}

(* checkPortability: the entry can enforce what the step declares.         *)
Portable(e) == step.needs \subseteq Capabilities(Via(e))

Budgeted == "budget" \in step.needs

(* withDeadline: only claude, which the watchdog supervises, runs without  *)
(* a deadline when none is declared.                                       *)
HasDeadline(c) == step.timed \/ Via(c.entry) # "claude"

(* The signal a call sees: the run's, or the deadline's.                   *)
Aborted == cancelled \/ call.expired

Raise(sent) == IF sent = "nothing" THEN "term" ELSE sent

(***************************************************************************)
(* Opening a call.  The codex adapter makes the child's directory first,   *)
(* which can fail; a call opened under a signal that is already aborted    *)
(* spawns the child, sends it SIGTERM and rejects without waiting for it.  *)
(***************************************************************************)
Opens(e) ==
  IF cancelled
    THEN /\ pc' = "failed"
         /\ fault' = IF Via(e) = "api" THEN "transport" ELSE "abort"
         /\ stray' = IF Via(e) = "api" THEN stray ELSE stray \cup {e}
         /\ grant' = FALSE
    ELSE /\ pc' = "calling"
         /\ grant' = (Via(e) = "codex")
         /\ UNCHANGED <<fault, stray>>

NoGrant(e) ==
  /\ Via(e) = "codex"
  /\ pc' = "failed"
  /\ fault' = "other"
  /\ grant' = FALSE
  /\ UNCHANGED stray

Open(e, use, cap) ==
  /\ call' = Fresh(e, use, cap)
  /\ \/ Opens(e) /\ asked' = asked \cup {e}
     \/ NoGrant(e) /\ UNCHANGED asked

(***************************************************************************)
(* The beginning of the step.                                              *)
(***************************************************************************)
Unportable == step.kind = "llm" /\ ~Portable(Entry0)

(* assertNotCancelled and the portability check come before step.start.    *)
Refuse ==
  /\ pc = "queued"
  /\ cancelled \/ Unportable
  /\ pc' = "done"
  /\ outcome' = "threw"
  /\ UNCHANGED <<step, cancelled, call, fault, next, spent, starts, results, named, by,
                 asked, stray, grant>>

BeginLlm ==
  /\ pc = "queued"
  /\ step.kind = "llm"
  /\ ~cancelled /\ ~Unportable
  /\ starts' = starts + 1
  /\ Open(Entry0, "first", IF Budgeted THEN step.budget ELSE 0)
  /\ UNCHANGED <<step, cancelled, next, spent, results, named, outcome, by>>

BeginCheck ==
  /\ pc = "queued"
  /\ step.kind = "check"
  /\ ~cancelled
  /\ starts' = starts + 1
  /\ Open(Shell, "first", 0)
  /\ UNCHANGED <<step, cancelled, next, spent, results, named, outcome, by>>

(* The builder's last word: one step.result, then the value, the marker of *)
(* an optional step, or an exception.                                      *)
Settle(status, o, model, entry) ==
  /\ pc' = "done"
  /\ results' = Append(results, status)
  /\ outcome' = o
  /\ named' = model
  /\ by' = entry
  /\ UNCHANGED <<step, cancelled, next, spent>>

FailureStatus == IF cancelled THEN "cancelled" ELSE "failed"

(* A check or a capture that ended: a failed one is a value too, unless    *)
(* the pipeline requires it.                                               *)
Report(passed) ==
  Settle(IF cancelled THEN "cancelled" ELSE IF passed THEN "succeeded" ELSE "failed",
         IF ~cancelled /\ ~passed /\ step.required THEN "threw" ELSE "value",
         None, None)

(* The capture of review material runs git and gh synchronously: nothing   *)
(* happens between its beginning and its end.                              *)
Capturing ==
  /\ pc = "queued"
  /\ ~cancelled
  /\ step.kind = "review"

Capture(available) ==
  /\ Capturing
  /\ starts' = starts + 1
  /\ Report(available)
  /\ UNCHANGED <<call, fault, asked, stray, grant>>

CaptureThrows ==
  /\ Capturing
  /\ starts' = starts + 1
  /\ Settle("failed", "threw", None, None)
  /\ UNCHANGED <<call, fault, asked, stray, grant>>

(***************************************************************************)
(* Events while a call is open.                                            *)
(***************************************************************************)
Calling == pc = "calling"

CallChanges(c) ==
  /\ call' = c
  /\ UNCHANGED <<step, cancelled, pc, fault, next, starts, results, named, outcome, by,
                 asked, stray, grant>>

(* The result event of claude, with what the call cost.                    *)
ClaudeResult ==
  /\ Calling /\ Via(call.entry) = "claude"
  /\ call.said = "nothing" /\ call.sent # "kill"
  /\ \E said \in {"success", "blocked", "budget", "turns", "error"},
        cost \in IF Budgeted THEN 0 .. call.cap ELSE {0} :
       /\ CallChanges([call EXCEPT !.said = said])
       /\ spent' = spent + cost

(* Any agent_message of codex, an interim one as well.                     *)
CodexMessage ==
  /\ Calling /\ Via(call.entry) = "codex"
  /\ call.said = "nothing" /\ call.sent # "kill"
  /\ CallChanges([call EXCEPT !.said = "success"])
  /\ UNCHANGED spent

LastOf(s, n) == SubSeq(s, Len(s) - n + 1, Len(s))
Distinct(s) == {s[i] : i \in DOMAIN s}

(* makeLoopDetector: the same call over and over, or a window of calls     *)
(* with too few different ones.                                            *)
Loops(pairs) ==
  \/ /\ Len(pairs) >= LoopConsecutive
     /\ Cardinality(Distinct(LastOf(pairs, LoopConsecutive))) = 1
  \/ /\ Len(pairs) >= LoopWindow
     /\ Cardinality(Distinct(LastOf(pairs, LoopWindow))) < LoopDistinctMin

(* tripWatchdog: the first pathology counts; SIGTERM now, SIGKILL later.   *)
Tripped(c) == [c EXCEPT !.trip = TRUE, !.sent = Raise(@)]

ToolCall ==
  /\ Calling /\ Via(call.entry) = "claude"
  /\ call.said = "nothing" /\ call.sent # "kill"
  /\ Len(call.pairs) < MaxCalls
  /\ \E p \in Tools :
       LET c == [call EXCEPT !.pairs = Append(@, p)]
       IN  CallChanges(IF Loops(c.pairs) /\ ~c.trip THEN Tripped(c) ELSE c)
  /\ UNCHANGED spent

(* The stall timer: armed at every chunk, cleared when the child closes,   *)
(* and so also armed after the result event.                               *)
Stall ==
  /\ Calling /\ Via(call.entry) = "claude"
  /\ ~call.trip
  /\ CallChanges(Tripped(call))
  /\ UNCHANGED spent

(* Variant: only a check's shell gets SIGKILL.                           *)
EscalateShell ==
  /\ Calling /\ call.sent = "term"
  /\ Via(call.entry) = "shell"
  /\ CallChanges([call EXCEPT !.sent = "kill"])
  /\ UNCHANGED spent

(* SIGKILL after the grace period: of the watchdog, and of a check whose   *)
(* signal aborted; a deadline or a cancellation sends SIGTERM alone to     *)
(* claude and codex.                                                       *)
Escalate ==
  /\ Calling /\ call.sent = "term"
  /\ call.trip \/ Via(call.entry) = "shell"
  /\ CallChanges([call EXCEPT !.sent = "kill"])
  /\ UNCHANGED spent

(* createDeadline: a timer that the cancellation clears.                   *)
Expire ==
  /\ Calling /\ HasDeadline(call)
  /\ ~Aborted
  /\ CallChanges([call EXCEPT !.expired = TRUE, !.sent = Raise(@)])
  /\ UNCHANGED spent

Turn == pc \in {"failed", "answered"}

Cancel ==
  /\ ~cancelled
  /\ ~Turn
  /\ cancelled' = TRUE
  /\ call' = IF Calling /\ ~call.expired THEN [call EXCEPT !.sent = Raise(@)] ELSE call
  /\ UNCHANGED <<step, pc, fault, next, spent, starts, results, named, outcome, by, asked,
                 stray, grant>>

(***************************************************************************)
(* The end of a call.                                                      *)
(***************************************************************************)
(* withDeadline renames whatever the body threw once the deadline fired.   *)
Thrown(f) == IF call.expired THEN "timeout" ELSE f

Rejects(f) ==
  /\ pc' = "failed"
  /\ fault' = Thrown(f)
  /\ grant' = FALSE
  /\ UNCHANGED <<step, cancelled, call, next, spent, starts, results, named, outcome, by,
                 asked, stray>>

Resolves ==
  /\ pc' = "answered"
  /\ grant' = FALSE
  /\ UNCHANGED <<step, cancelled, call, fault, next, spent, starts, results, named, outcome,
                 by, asked, stray>>

(* The error a closed claude child stands for, or "none".  A child that    *)
(* exits with an error takes its subtype from the result event.            *)
ClaudeError(clean) ==
  CASE call.said = "turns"                            -> "turns"
    [] call.said = "budget" /\ clean                  -> "budget"
    [] call.said \in {"success", "blocked"} /\ clean  -> "none"
    [] OTHER                                          -> "transport"

(* The second attempt, after a watchdog trip: a new child in the same      *)
(* call, with the same budget and what is left of the deadline.            *)
SecondAttempt ==
  /\ call' = [call EXCEPT !.attempt = 2, !.pairs = <<>>, !.said = "nothing",
                          !.trip = FALSE, !.sent = "nothing"]
  /\ UNCHANGED <<step, cancelled, pc, fault, next, spent, starts, results, named, outcome,
                 by, asked, stray, grant>>

(* close of the claude child: the operator's cancellation and the deadline *)
(* come before the watchdog, and the watchdog before the answer.           *)
ClaudeCloses ==
  /\ Calling /\ Via(call.entry) = "claude"
  /\ \E clean \in BOOLEAN :
       LET error == ClaudeError(clean)
       IN  CASE Aborted -> Rejects("abort")
             [] ~Aborted /\ call.trip ->
                  IF call.attempt = 1 THEN SecondAttempt ELSE Rejects("watchdog")
             [] ~Aborted /\ ~call.trip ->
                  CASE error # "none" -> Rejects(error)
                    [] error = "none" /\ call.said = "blocked" /\ call.attempt = 2 ->
                         Rejects("watchdog")
                    [] OTHER -> Resolves

(* close of the codex child: what it said so far is its answer, whatever   *)
(* the exit code and whatever the signal.                                  *)
CodexCloses ==
  /\ Calling /\ Via(call.entry) = "codex"
  /\ IF call.said = "success" THEN Resolves ELSE Rejects("transport")

(* The HTTP request: answered, refused, unreadable, or aborted.            *)
ApiResponds ==
  /\ Calling /\ Via(call.entry) = "api"
  /\ \/ ~Aborted /\ Resolves
     \/ \E f \in {"transport", "other"} : Rejects(f)

(* error of a child that could not be started.                             *)
SpawnError ==
  /\ Calling /\ Via(call.entry) \in {"claude", "codex"}
  /\ call.said = "nothing" /\ call.pairs = <<>>
  /\ Rejects("transport")

(* close or error of the shell: never an exception, and a passing exit     *)
(* counts only when nobody aborted the command.                            *)
ShellCloses ==
  /\ Calling /\ Via(call.entry) = "shell"
  /\ \E clean \in BOOLEAN : Report(clean /\ ~Aborted)
  /\ UNCHANGED <<call, fault, starts, asked, stray, grant>>

(* A child nobody waits for any more exits.                                *)
StrayExits ==
  /\ ~Turn
  /\ \E e \in stray : stray' = stray \ {e}
  /\ UNCHANGED <<step, cancelled, pc, call, fault, next, spent, starts, results, named,
                 outcome, by, asked, grant>>

(***************************************************************************)
(* After a failed call.                                                    *)
(***************************************************************************)
(* isFailoverWorthy.                                                       *)
Worthy == ~cancelled /\ fault \in {"timeout", "transport"}

(* The chain is entered after the first call only; a candidate that fails  *)
(* stays in it whatever its error.                                         *)
InChain ==
  \/ call.use = "candidate"
  \/ call.use = "first" /\ ~step.pinned /\ ~step.override /\ Worthy

(* Variant: the loop over the chain does not look at the                 *)
(* signal.                                                                 *)
GoesOn == FALSE

BreaksOff == cancelled

(* A candidate that is not passed over.                                    *)
Fit(c) == c \in Entries /\ c # Entry0 /\ Portable(c)

Left == step.budget - spent

ClosesChain ==
  \/ ~InChain
  \/ BreaksOff
  \/ next > Len(Fallback)
  \/ /\ next <= Len(Fallback) /\ Fit(Fallback[next])
     /\ step.timed \/ (Budgeted /\ Left <= 0)

SkipCandidate ==
  /\ pc = "failed" /\ InChain /\ ~BreaksOff
  /\ next <= Len(Fallback)
  /\ ~Fit(Fallback[next])
  /\ next' = next + 1
  /\ UNCHANGED <<step, cancelled, pc, call, fault, spent, starts, results, named, outcome,
                 by, asked, stray, grant>>

(* The candidate gets what is left of the declared deadline and budget.    *)
TryCandidate ==
  /\ pc = "failed" /\ InChain /\ ~BreaksOff
  /\ next <= Len(Fallback)
  /\ Fit(Fallback[next])
  /\ ~(step.timed /\ call.expired)
  /\ Budgeted => Left > 0
  /\ Open(Fallback[next], "candidate", IF Budgeted THEN Left ELSE 0)
  /\ next' = next + 1
  /\ UNCHANGED <<step, cancelled, spent, starts, results, named, outcome, by>>

(* The model step.result names: present only after a failover answered.    *)
Answered(c) == IF c.use = "candidate" THEN c.entry ELSE named

(* Variant: an optional step leaves its marker after a                   *)
(* cancellation too.                                                       *)
FailsOptional(model) ==
  /\ Settle(FailureStatus, IF ~step.optional THEN "threw" ELSE "marker", model, None)
  /\ UNCHANGED <<call, fault, starts, asked, stray, grant>>

Fails(model) ==
  /\ Settle(FailureStatus, IF cancelled \/ ~step.optional THEN "threw" ELSE "marker",
            model, None)
  /\ UNCHANGED <<call, fault, starts, asked, stray, grant>>

Fail ==
  /\ pc = "failed"
  /\ ClosesChain
  /\ Fails(named)

(***************************************************************************)
(* After an answer.                                                        *)
(***************************************************************************)
Succeed ==
  /\ pc = "answered"
  /\ Settle("succeeded", "value", Answered(call), call.entry)
  /\ UNCHANGED <<call, fault, starts, asked, stray, grant>>

(* An answer that does not fit the schema is asked for once more, from the *)
(* model the step resolved to and with the whole budget.                   *)
AskedAgain(c) == Open(Entry0, "retry", IF Budgeted THEN step.budget ELSE 0)

Retry ==
  /\ pc = "answered"
  /\ step.schema /\ call.use # "retry"
  /\ AskedAgain(call)
  /\ named' = Answered(call)
  /\ UNCHANGED <<step, cancelled, next, spent, starts, results, outcome, by>>

RejectAnswer ==
  /\ pc = "answered"
  /\ step.schema /\ call.use = "retry"
  /\ Fails(named)

(* Everything but the capture of review material.                          *)
Event ==
  \/ Cancel \/ Refuse \/ BeginLlm \/ BeginCheck
  \/ ClaudeResult \/ CodexMessage \/ ToolCall \/ Stall \/ Escalate \/ Expire
  \/ ClaudeCloses \/ CodexCloses \/ ApiResponds \/ SpawnError \/ ShellCloses \/ StrayExits
  \/ SkipCandidate \/ TryCandidate \/ Fail
  \/ Succeed \/ Retry \/ RejectAnswer

Review == CaptureThrows \/ \E available \in BOOLEAN : Capture(available)

Next == Event \/ Review

(***************************************************************************)
(* Fairness: the timers fire, a queued step is begun, a turn of the event  *)
(* loop ends.  A child that got SIGKILL is gone; only of codex and of the  *)
(* HTTP client it is assumed that they end when they are told to.          *)
(***************************************************************************)
MustClose ==
  call.sent = "kill" \/ (call.sent = "term" /\ Via(call.entry) \in {"codex", "api"})

EventFairness ==
  /\ WF_vars(Refuse) /\ WF_vars(BeginLlm \/ BeginCheck)
  /\ WF_vars(Stall) /\ WF_vars(Escalate) /\ WF_vars(Expire)
  /\ WF_vars(MustClose /\ (ClaudeCloses \/ CodexCloses \/ ApiResponds \/ ShellCloses))
  /\ WF_vars(SkipCandidate) /\ WF_vars(TryCandidate \/ Fail)
  /\ WF_vars(Succeed \/ Retry \/ RejectAnswer)

Spec == Init /\ [][Next]_vars
FairSpec == Spec /\ EventFairness /\ WF_vars(Review)

(***************************************************************************)
(* Properties.                                                             *)
(***************************************************************************)
(* Whatever children, providers, timers and the operator do, the builder   *)
(* settles the step once, with one step.result that agrees with what the   *)
(* workflow is told, and only with the answer of a provider that enforces  *)
(* what the step declares (StepContract).                                  *)
Contract ==
  INSTANCE StepContract WITH
    Declared <- Declarations, declared <- step,
    Enforcers <- [d \in Declarations |-> {e \in Entries : d.needs \subseteq Capabilities(Via(e))}]

ImplementsContract == Contract!Spec

(* Once the run is cancelled no provider that was not asked before is      *)
(* asked any more, whichever call the cancellation met and whatever error  *)
(* that call ends with.                                                    *)
CancelEndsTheChain == [][cancelled => asked' = asked]_vars

(* A step that was reached settles: no child that hangs, loops, ignores    *)
(* SIGTERM (claude, a check) or falls silent keeps it open.                *)
StepSettles == (pc = "queued") ~> (pc = "done")

=============================================================================
