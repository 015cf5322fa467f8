------------------------- MODULE RunServiceProofs -------------------------
(***************************************************************************)
(* What holds of RunService for every number of gates, every choice of     *)
(* manual-only gates, modes and model configurations, and under every      *)
(* fault: its types, that no suspension is resumed twice and what the      *)
(* audit trail tells of the answers.  Where no judge is configured (as     *)
(* the daemon ships): that it implements RunLifecycle and that a           *)
(* cancellation is final.  Without the faults that the header of each      *)
(* theorem names: that a running run has an actor, and that a settlement   *)
(* somebody has seen is on disk.                                           *)
(***************************************************************************)
EXTENDS RunService, FiniteSetTheorems, TLAPS

(* What the writes, settlements and model calls started by a helper leave  *)
(* alone: where the run stands, and what was decided to get there.         *)
SamePlace(r, q) ==
  /\ q.status = r.status
  /\ q.gateDecisions = r.gateDecisions
  /\ q.suspendedStep = r.suspendedStep
  /\ q.cancelled = r.cancelled

(* A helper may resolve the promise, once, with v.                         *)
SettlesOnceWith(r, q, v) ==
  \/ q.settled = r.settled
  \/ r.settled = "pending" /\ q.settled = v

(* Settling, closing and persisting leave the run where it stands.         *)
LEMMA SettleLemma ==
  ASSUME NEW r \in RunRecord, NEW v \in Status
  PROVE  /\ Settle(r, v) \in RunRecord
         /\ SamePlace(r, Settle(r, v))
         /\ SettlesOnceWith(r, Settle(r, v), v)
         /\ Settle(r, v).persists = r.persists
         /\ Settle(r, v).judging = r.judging
BY DEF Settle, RunRecord, SamePlace, SettlesOnceWith

LEMMA FinalizeLemma ==
  ASSUME NEW r \in RunRecord
  PROVE  /\ FinalizeSettlement(r) \in RunRecord
         /\ SamePlace(r, FinalizeSettlement(r))
         /\ FinalizeSettlement(r).settled = r.settled
         /\ FinalizeSettlement(r).persists = r.persists
         /\ FinalizeSettlement(r).judging = r.judging
BY DEF FinalizeSettlement, RunRecord, SamePlace

LEMMA FinalizeIfEndedLemma ==
  ASSUME NEW r \in RunRecord
  PROVE  /\ FinalizeIfEnded(r) \in RunRecord
         /\ SamePlace(r, FinalizeIfEnded(r))
         /\ FinalizeIfEnded(r).settled = r.settled
         /\ FinalizeIfEnded(r).persists = r.persists
         /\ FinalizeIfEnded(r).judging = r.judging
BY FinalizeLemma DEF FinalizeIfEnded, SamePlace

LEMMA PersistLemma ==
  ASSUME NEW r \in RunRecord
  PROVE  /\ BeginPersist(r) \in RunRecord
         /\ SamePlace(r, BeginPersist(r))
         /\ BeginPersist(r).settled = r.settled
         /\ BeginPersist(r).persists = r.persists + 1
         /\ BeginPersist(r).judging = r.judging
BY SMTT(40) DEF BeginPersist, RunRecord, SamePlace

(* Starting a summary call only counts it.                                 *)
LEMMA SummaryLemma ==
  ASSUME NEW r \in RunRecord
  PROVE  /\ DispatchGateSummary(r) \in RunRecord
         /\ SamePlace(r, DispatchGateSummary(r))
         /\ DispatchGateSummary(r).settled = r.settled
         /\ DispatchGateSummary(r).persists = r.persists
         /\ DispatchGateSummary(r).judging = r.judging
<1>1. r.suspendedStep \in 0..NumGates /\ r.summarising \in [0..NumGates -> Nat]
  BY DEF RunRecord
<1>2. \A f \in [0..NumGates -> Nat], k \in 0..NumGates :
        [f EXCEPT ![k] = @ + 1] \in [0..NumGates -> Nat]
  OBVIOUS
<1>3. [r.summarising EXCEPT ![r.suspendedStep] = @ + 1] \in [0..NumGates -> Nat]
  BY <1>1, <1>2
<1>4. QED BY <1>3 DEF DispatchGateSummary, RunRecord, SamePlace

(* Degrading moves nothing but may tell the starter that the run waits.    *)
LEMMA DegradeLemma ==
  ASSUME NEW r \in RunRecord, NEW g \in 0..NumGates
  PROVE  /\ DegradeToManual(r, g) \in RunRecord
         /\ SamePlace(r, DegradeToManual(r, g))
         /\ SettlesOnceWith(r, DegradeToManual(r, g), "awaiting_approval")
         /\ DegradeToManual(r, g).persists = r.persists
         /\ DegradeToManual(r, g).judging = r.judging
<1> DEFINE q == [r EXCEPT !.judgeError = g]
<1>1. /\ q \in RunRecord
      /\ SamePlace(r, q)
      /\ q.settled = r.settled
      /\ q.persists = r.persists
      /\ q.judging = r.judging
  BY DEF RunRecord, SamePlace
<1>2. "awaiting_approval" \in Status
  BY DEF Status
<1> HIDE DEF q
<1>3. /\ DispatchGateSummary(q) \in RunRecord
      /\ SamePlace(q, DispatchGateSummary(q))
      /\ DispatchGateSummary(q).settled = q.settled
      /\ DispatchGateSummary(q).persists = q.persists
      /\ DispatchGateSummary(q).judging = q.judging
  BY <1>1, SummaryLemma
<1> DEFINE p == DispatchGateSummary(q)
<1> HIDE DEF p
<1>4. p \in RunRecord
  BY <1>3 DEF p
<1>5. /\ Settle(p, "awaiting_approval") \in RunRecord
      /\ SamePlace(p, Settle(p, "awaiting_approval"))
      /\ SettlesOnceWith(p, Settle(p, "awaiting_approval"), "awaiting_approval")
      /\ Settle(p, "awaiting_approval").persists = p.persists
      /\ Settle(p, "awaiting_approval").judging = p.judging
  BY <1>2, <1>4, SettleLemma
<1>6. DegradeToManual(r, g) = Settle(p, "awaiting_approval")
  BY DEF DegradeToManual, q, p
<1>7. QED BY <1>1, <1>3, <1>5, <1>6 DEF SamePlace, SettlesOnceWith, p

(* dispatchJudge at a gate: the run stays where it stands, at most that    *)
(* gate gets a judge, and without a judge nothing is left in flight.       *)
LEMMA DispatchJudgeLemma ==
  ASSUME NEW r \in RunRecord, r.suspendedStep \in Gates
  PROVE  /\ DispatchJudge(r) \in RunRecord
         /\ SamePlace(r, DispatchJudge(r))
         /\ SettlesOnceWith(r, DispatchJudge(r), "awaiting_approval")
         /\ DispatchJudge(r).persists = r.persists
         /\ ~JudgeDeps => DispatchJudge(r).judging = r.judging
         /\ DispatchJudge(r).judging \in {r.judging, r.judging \cup {r.suspendedStep}}
<1>1. CASE JudgeDeps
  <2>1. r.judging \cup {r.suspendedStep} \in SUBSET Gates
    BY DEF RunRecord
  <2>2. QED BY <1>1, <2>1 DEF DispatchJudge, RunRecord, SamePlace, SettlesOnceWith
<1>2. CASE ~JudgeDeps
  <2>1. r.suspendedStep \in 0..NumGates
    BY DEF RunRecord
  <2>2. QED BY <1>2, <2>1, DegradeLemma DEF DispatchJudge
<1>3. QED BY <1>1, <1>2

(* Only a gate the run waits at, not declared manualOnly, gets a judge.    *)
JudgesIts(r, q) ==
  \/ q.judging = r.judging
  \/ /\ r.status = "awaiting_approval"
     /\ r.suspendedStep \notin ManualOnly
     /\ q.judging = r.judging \cup {r.suspendedStep}

(* What the engine can report.                                             *)
Outcome ==
  {"success", "suspended", "gateRejected", "failed", "throw", "nopath"}

(* Where an engine answer takes a run.                                     *)
Lands(r, outcome, q) ==
  /\ q \in RunRecord
  /\ q.cancelled = r.cancelled
  /\ q.settled = r.settled
  /\ q.persists = r.persists
  /\ q.judging = r.judging
  /\ q.gateDecisions = r.gateDecisions
  /\ \/ /\ r.cancelled
        /\ q.status = "cancelled"
        /\ q.suspendedStep = r.suspendedStep
     \/ /\ ~r.cancelled
        /\ outcome = "suspended"
        /\ q.status = "awaiting_approval"
        /\ q.suspendedStep = r.suspendedStep + 1
     \/ /\ ~r.cancelled
        /\ q.status \in {"succeeded", "rejected", "failed"}
        /\ q.suspendedStep = r.suspendedStep

(* applyWorkflowResult keeps the types and the cancellation.               *)
LEMMA ApplyLemma ==
  ASSUME NEW r \in RunRecord, NEW outcome \in Outcome,
         outcome = "suspended" => r.suspendedStep < NumGates
  PROVE  Lands(r, outcome, ApplyWorkflowResult(r, outcome))
<1>1. CASE r.cancelled
  BY <1>1 DEF ApplyWorkflowResult, Lands, RunRecord, Status, Terminal
<1>2. CASE ~r.cancelled /\ outcome = "suspended"
  <2>1. r.suspendedStep + 1 \in 0..NumGates
    BY <1>2, ConstantsAssumption, SMTT(40) DEF RunRecord
  <2>2. QED
    BY <1>2, <2>1, ConstantsAssumption, SMTT(40)
    DEF ApplyWorkflowResult, RecordSuspension, Lands, RunRecord, Status,
        Terminal, NoGate
<1>3. CASE ~r.cancelled /\ outcome # "suspended"
  <2>1. FinalStatus(outcome) \in {"succeeded", "rejected", "failed"}
    BY DEF FinalStatus
  <2>2. FinalStatus(outcome) \in Status
    BY <2>1 DEF Status, Terminal
  <2> HIDE DEF FinalStatus
  <2>3. QED BY <1>3, <2>1, <2>2 DEF ApplyWorkflowResult, Lands, RunRecord
<1>4. QED BY <1>1, <1>2, <1>3

(* afterSettlement leaves the run where the engine took it, and settles    *)
(* with the status it has there.                                           *)
LEMMA AfterSettlementLemma ==
  ASSUME NEW r \in RunRecord,
         r.status = "awaiting_approval" => r.suspendedStep \in Gates
  PROVE  /\ AfterSettlement(r) \in RunRecord
         /\ SamePlace(r, AfterSettlement(r))
         /\ SettlesOnceWith(r, AfterSettlement(r), r.status)
         /\ AfterSettlement(r).persists = r.persists + 1
         /\ ~JudgeDeps => AfterSettlement(r).judging = r.judging
         /\ JudgesIts(r, AfterSettlement(r))
<1> DEFINE f == FinalizeIfEnded(r)
           p == BeginPersist(f)
<1>1. /\ f \in RunRecord
      /\ SamePlace(r, f)
      /\ f.settled = r.settled
      /\ f.persists = r.persists
      /\ f.judging = r.judging
  BY FinalizeIfEndedLemma
<1> HIDE DEF f
<1>2. /\ p \in RunRecord
      /\ SamePlace(f, p)
      /\ p.settled = f.settled
      /\ p.persists = f.persists + 1
      /\ p.judging = f.judging
  BY <1>1, PersistLemma
<1>3. AfterSettlement(r) = IF JudgeAnswers(p) THEN DispatchJudge(p)
                           ELSE Settle(DispatchGateSummary(p), p.status)
  BY DEF AfterSettlement, f
<1> HIDE DEF p
<1>4. p.status = r.status /\ p.suspendedStep = r.suspendedStep
  BY <1>1, <1>2 DEF SamePlace
<1>5. CASE JudgeAnswers(p)
  <2>1. p.status = "awaiting_approval" /\ p.suspendedStep \in Gates
    BY <1>4, <1>5 DEF JudgeAnswers
  <2>2. /\ DispatchJudge(p) \in RunRecord
        /\ SamePlace(p, DispatchJudge(p))
        /\ SettlesOnceWith(p, DispatchJudge(p), "awaiting_approval")
        /\ DispatchJudge(p).persists = p.persists
        /\ ~JudgeDeps => DispatchJudge(p).judging = p.judging
        /\ DispatchJudge(p).judging \in {p.judging, p.judging \cup {p.suspendedStep}}
    BY <1>2, <2>1, DispatchJudgeLemma
  <2>3. JudgesIts(r, AfterSettlement(r))
    BY <1>1, <1>2, <1>3, <1>4, <1>5, <2>2 DEF JudgesIts, JudgeAnswers
  <2>4. QED
    BY <1>1, <1>2, <1>3, <1>4, <1>5, <2>1, <2>2, <2>3 DEF SamePlace, SettlesOnceWith
<1>6. CASE ~JudgeAnswers(p)
  <2> DEFINE s == DispatchGateSummary(p)
  <2>1. /\ s \in RunRecord
        /\ SamePlace(p, s)
        /\ s.settled = p.settled
        /\ s.persists = p.persists
        /\ s.judging = p.judging
    BY <1>2, SummaryLemma
  <2> HIDE DEF s
  <2>2. p.status \in Status
    BY <1>2 DEF RunRecord
  <2>3. /\ Settle(s, p.status) \in RunRecord
        /\ SamePlace(s, Settle(s, p.status))
        /\ SettlesOnceWith(s, Settle(s, p.status), p.status)
        /\ Settle(s, p.status).persists = s.persists
        /\ Settle(s, p.status).judging = s.judging
    BY <2>1, <2>2, SettleLemma
  <2>4. AfterSettlement(r) = Settle(s, p.status)
    BY <1>3, <1>6 DEF s
  <2>5. QED
    BY <1>1, <1>2, <1>4, <2>1, <2>3, <2>4 DEF SamePlace, SettlesOnceWith, JudgesIts
<1>7. QED BY <1>5, <1>6

(* The end of approve() does the same, without settling for a judge.       *)
LEMMA AfterApprovalLemma ==
  ASSUME NEW r \in RunRecord,
         r.status = "awaiting_approval" => r.suspendedStep \in Gates
  PROVE  /\ AfterApproval(r) \in RunRecord
         /\ SamePlace(r, AfterApproval(r))
         /\ SettlesOnceWith(r, AfterApproval(r), r.status)
         /\ AfterApproval(r).persists = r.persists + 1
         /\ ~JudgeDeps => AfterApproval(r).judging = r.judging
         /\ JudgesIts(r, AfterApproval(r))
<1> DEFINE f == FinalizeIfEnded(r)
           d == IF JudgeAnswers(f) THEN DispatchJudge(f) ELSE f
<1>1. /\ f \in RunRecord
      /\ SamePlace(r, f)
      /\ f.settled = r.settled
      /\ f.persists = r.persists
      /\ f.judging = r.judging
  BY FinalizeIfEndedLemma
<1>2. AfterApproval(r) = BeginPersist(d)
  BY DEF AfterApproval
<1> HIDE DEF f
<1>3. /\ d \in RunRecord
      /\ SamePlace(r, d)
      /\ SettlesOnceWith(r, d, r.status)
      /\ d.persists = r.persists
      /\ ~JudgeDeps => d.judging = r.judging
      /\ JudgesIts(r, d)
  <2>1. CASE JudgeAnswers(f)
    <3>1. f.status = "awaiting_approval" /\ f.suspendedStep \in Gates
      BY <1>1, <2>1 DEF JudgeAnswers, SamePlace
    <3>2. /\ DispatchJudge(f) \in RunRecord
          /\ SamePlace(f, DispatchJudge(f))
          /\ SettlesOnceWith(f, DispatchJudge(f), "awaiting_approval")
          /\ DispatchJudge(f).persists = f.persists
          /\ ~JudgeDeps => DispatchJudge(f).judging = f.judging
          /\ DispatchJudge(f).judging \in {f.judging, f.judging \cup {f.suspendedStep}}
      BY <1>1, <3>1, DispatchJudgeLemma
    <3>3. JudgesIts(r, d)
      BY <1>1, <2>1, <3>1, <3>2 DEF SamePlace, JudgesIts, JudgeAnswers
    <3>4. QED
      BY <1>1, <2>1, <3>1, <3>2, <3>3 DEF SamePlace, SettlesOnceWith
  <2>2. CASE ~JudgeAnswers(f)
    BY <1>1, <2>2 DEF SettlesOnceWith, JudgesIts
  <2>3. QED BY <2>1, <2>2
<1> HIDE DEF d
<1>4. /\ BeginPersist(d) \in RunRecord
      /\ SamePlace(d, BeginPersist(d))
      /\ BeginPersist(d).settled = d.settled
      /\ BeginPersist(d).persists = d.persists + 1
      /\ BeginPersist(d).judging = d.judging
  BY <1>3, PersistLemma
<1>5. QED BY <1>2, <1>3, <1>4 DEF SamePlace, SettlesOnceWith, JudgesIts

(* The catch branches end the run as failed.                               *)
LEMMA FailLemma ==
  ASSUME NEW r \in RunRecord
  PROVE  /\ Fail(r) \in RunRecord
         /\ Fail(r).status = "failed"
         /\ Fail(r).suspendedStep = r.suspendedStep
         /\ Fail(r).cancelled = r.cancelled
         /\ Fail(r).gateDecisions = r.gateDecisions
         /\ SettlesOnceWith(r, Fail(r), "failed")
         /\ Fail(r).persists = r.persists
         /\ Fail(r).judging = r.judging
<1> DEFINE q == [r EXCEPT !.status = "failed"]
           f == FinalizeSettlement(q)
<1>1. "failed" \in Status
  BY DEF Status, Terminal
<1>2. /\ q \in RunRecord
      /\ q.status = "failed"
      /\ q.suspendedStep = r.suspendedStep
      /\ q.cancelled = r.cancelled
      /\ q.gateDecisions = r.gateDecisions
      /\ q.settled = r.settled
      /\ q.persists = r.persists
      /\ q.judging = r.judging
  BY <1>1 DEF RunRecord
<1>3. Fail(r) = Settle(f, "failed")
  BY DEF Fail
<1> HIDE DEF q
<1>4. /\ f \in RunRecord
      /\ SamePlace(q, f)
      /\ f.settled = q.settled
      /\ f.persists = q.persists
      /\ f.judging = q.judging
  BY <1>2, FinalizeLemma
<1> HIDE DEF f
<1>5. /\ Settle(f, "failed") \in RunRecord
      /\ SamePlace(f, Settle(f, "failed"))
      /\ SettlesOnceWith(f, Settle(f, "failed"), "failed")
      /\ Settle(f, "failed").persists = f.persists
      /\ Settle(f, "failed").judging = f.judging
  BY <1>1, <1>4, SettleLemma
<1>6. QED BY <1>2, <1>3, <1>4, <1>5 DEF SamePlace, SettlesOnceWith

(* The end of cancel() leaves the run where it stands.                     *)
LEMMA CancelledLemma ==
  ASSUME NEW r \in RunRecord
  PROVE  /\ Cancelled(r) \in RunRecord
         /\ SamePlace(r, Cancelled(r))
         /\ SettlesOnceWith(r, Cancelled(r), "cancelled")
         /\ Cancelled(r).persists = r.persists + 1
         /\ Cancelled(r).judging = r.judging
<1> DEFINE f == FinalizeSettlement(r)
           s == Settle(f, "cancelled")
<1>1. "cancelled" \in Status
  BY DEF Status, Terminal
<1>2. Cancelled(r) = BeginPersist(s)
  BY DEF Cancelled
<1>3. /\ f \in RunRecord
      /\ SamePlace(r, f)
      /\ f.settled = r.settled
      /\ f.persists = r.persists
      /\ f.judging = r.judging
  BY FinalizeLemma
<1> HIDE DEF f
<1>4. /\ s \in RunRecord
      /\ SamePlace(f, s)
      /\ SettlesOnceWith(f, s, "cancelled")
      /\ s.persists = f.persists
      /\ s.judging = f.judging
  BY <1>1, <1>3, SettleLemma
<1> HIDE DEF s
<1>5. /\ BeginPersist(s) \in RunRecord
      /\ SamePlace(s, BeginPersist(s))
      /\ BeginPersist(s).settled = s.settled
      /\ BeginPersist(s).persists = s.persists + 1
      /\ BeginPersist(s).judging = s.judging
  BY <1>4, PersistLemma
<1>6. QED BY <1>2, <1>3, <1>4, <1>5 DEF SamePlace, SettlesOnceWith
-----------------------------------------------------------------------------
(* Types, and single flight.                                               *)

(* AnsweredOnce is not inductive: it takes that the gate a run waits at    *)
(* has not been resumed yet, and that the gates ahead have not either.     *)
IInv ==
  /\ TypeOK
  /\ AnsweredOnce
  /\ \A g \in Gates : g > record.suspendedStep => engine.resumed[g] = 0
  /\ AwaitsApproval =>
       record.suspendedStep \in Gates /\ engine.resumed[record.suspendedStep] = 0
  /\ disk.phase # "idle" => record.persists > 0

(* A step that resumes nothing: the run stays at its gate or goes to the   *)
(* next one.                                                               *)
Advances(r, q) ==
  /\ q \in RunRecord
  /\ q.persists >= r.persists
  /\ \/ /\ q.suspendedStep = r.suspendedStep
        /\ q.status = "awaiting_approval" => r.status = "awaiting_approval"
     \/ /\ q.suspendedStep = r.suspendedStep + 1
        /\ q.status = "awaiting_approval"

LEMMA OutcomeLemma ==
  ASSUME NEW call, NEW outcome \in Outcomes(call)
  PROVE  /\ outcome \in Outcome
         /\ outcome = "suspended" => record.suspendedStep < NumGates
BY DEF Outcomes, Outcome

LEMMA InitInv == Init => IInv
<1> SUFFICES ASSUME Init PROVE IInv
  OBVIOUS
<1>1. record \in RunRecord
  <2>1. [g \in 0..NumGates |-> 0] \in [0..NumGates -> Nat]
    OBVIOUS
  <2>2. <<>> \in Seq(Decision)
    OBVIOUS
  <2>3. 0 \in 0..NumGates
    BY ConstantsAssumption
  <2>4. QED BY <2>1, <2>2, <2>3 DEF Init, RunRecord, Status, NoGate
<1>2. engine \in Engine
  BY DEF Init, Engine, Call
<1>3. disk \in Disk /\ waiter \in Waiter
  BY DEF Init, Disk, Waiter, Status
<1>4. \A g \in Gates : engine.resumed[g] = 0
  BY DEF Init
<1>5. record.status = "running" /\ disk.phase = "idle"
  BY DEF Init
<1>6. QED BY <1>1, <1>2, <1>3, <1>4, <1>5 DEF IInv, TypeOK, AnsweredOnce, AwaitsApproval

(* A step that resumes nothing and lets the run advance keeps the          *)
(* invariant.                                                              *)
LEMMA AdvanceInv ==
  ASSUME IInv, Advances(record, record'),
         engine' \in Engine, engine'.resumed = engine.resumed,
         UNCHANGED <<disk, waiter>>
  PROVE  IInv'
<1>1. TypeOK'
  BY DEF IInv, TypeOK, Advances
<1>2. AnsweredOnce'
  BY DEF IInv, AnsweredOnce
<1>3. record.suspendedStep \in Nat /\ record.persists \in Nat
      /\ record'.suspendedStep \in 0..NumGates /\ record'.persists \in Nat
  BY ConstantsAssumption DEF IInv, TypeOK, RunRecord, Advances
<1>4. \A g \in Gates : g > record'.suspendedStep => engine'.resumed[g] = 0
  BY <1>3, ConstantsAssumption DEF IInv, Advances, Gates
<1>5. AwaitsApproval' =>
        /\ record'.suspendedStep \in Gates
        /\ engine'.resumed[record'.suspendedStep] = 0
  BY <1>3, ConstantsAssumption DEF IInv, Advances, AwaitsApproval, Gates
<1>6. disk'.phase # "idle" => record'.persists > 0
  BY <1>3 DEF IInv, Advances
<1>7. QED BY <1>1, <1>2, <1>4, <1>5, <1>6 DEF IInv

(* Where the then branches leave a run the engine answered.                *)
LEMMA LandsAdvances ==
  ASSUME NEW r \in RunRecord, NEW outcome, NEW q, NEW p,
         Lands(r, outcome, q), SamePlace(q, p), p \in RunRecord,
         p.persists = q.persists + 1
  PROVE  Advances(r, p)
<1>1. r.persists \in Nat
  BY DEF RunRecord
<1>2. q.status = "awaiting_approval" => q.suspendedStep = r.suspendedStep + 1
  BY DEF Lands
<1>3. QED BY <1>1, <1>2 DEF Lands, SamePlace, Advances

(* An answered call is a member of the engine's type.                      *)
LEMMA AnsweredLemma ==
  ASSUME TypeOK, NEW call, Answered(call)
  PROVE  engine' \in Engine /\ engine'.resumed = engine.resumed
BY DEF TypeOK, Answered, Engine

(* resume() puts one call in flight and leaves the abort flags alone.      *)
LEMMA ResumeLemma ==
  ASSUME engine \in Engine, NEW by, NEW approved, Resume(by, approved)
  PROVE  /\ engine'.calls =
              engine.calls \cup {[by |-> by, approved |-> approved]}
         /\ engine'.cancelling = engine.cancelling
BY DEF Resume, Engine

(* A resume at a gate not yet resumed, by an action that leaves the run    *)
(* there but no longer waiting.                                            *)
LEMMA ResumeInv ==
  ASSUME IInv, AwaitsApproval,
         NEW by \in {"human", "judge", "cancel"}, NEW approved \in BOOLEAN,
         Resume(by, approved),
         record' \in RunRecord,
         record'.status # "awaiting_approval",
         record'.suspendedStep = record.suspendedStep,
         record'.persists = record.persists,
         UNCHANGED <<disk, waiter>>
  PROVE  IInv'
<1> DEFINE s == record.suspendedStep
<1>1. s \in Gates /\ engine.resumed[s] = 0
  BY DEF IInv
<1>2. engine \in Engine
  BY DEF IInv, TypeOK
<1>3. [by |-> by, approved |-> approved] \in Call
  BY DEF Call
<1>4. /\ engine' \in Engine
      /\ engine'.resumed = [engine.resumed EXCEPT ![s] = @ + 1]
  <2>1. \A f \in [Gates -> Nat], k \in Gates :
          [f EXCEPT ![k] = @ + 1] \in [Gates -> Nat]
    OBVIOUS
  <2>2. [engine.resumed EXCEPT ![s] = @ + 1] \in [Gates -> Nat]
    BY <1>1, <1>2, <2>1 DEF Engine
  <2>3. engine.calls \cup {[by |-> by, approved |-> approved]} \in SUBSET Call
    BY <1>2, <1>3 DEF Engine
  <2>4. QED BY <1>2, <2>2, <2>3 DEF Resume, Engine
<1>5. \A g \in Gates : engine'.resumed[g] = IF g = s THEN 1 ELSE engine.resumed[g]
  BY <1>1, <1>2, <1>4 DEF Engine
<1>6. TypeOK'
  BY <1>4 DEF IInv, TypeOK
<1>7. AnsweredOnce'
  BY <1>5 DEF IInv, AnsweredOnce
<1>8. \A g \in Gates : g > record'.suspendedStep => engine'.resumed[g] = 0
  BY <1>1, <1>5, ConstantsAssumption DEF IInv, Gates
<1>9. QED BY <1>6, <1>7, <1>8 DEF IInv, AwaitsApproval
(* The answer of a summary model leaves the run where it stands.           *)
LEMMA SummaryReturnsLemma ==
  ASSUME TypeOK, NEW g \in 0..NumGates, SummaryReturns(g)
  PROVE  /\ record' \in RunRecord
         /\ SamePlace(record, record')
         /\ record'.settled = record.settled
         /\ record'.persists = record.persists
         /\ record'.judging = record.judging
<1>1. record \in RunRecord
  BY DEF TypeOK
<1>2. \A f \in [0..NumGates -> Nat] :
        f[g] > 0 => [f EXCEPT ![g] = @ - 1] \in [0..NumGates -> Nat]
  OBVIOUS
<1>3. [record.summarising EXCEPT ![g] = @ - 1] \in [0..NumGates -> Nat]
  BY <1>1, <1>2 DEF SummaryReturns, RunRecord
<1> DEFINE r == [record EXCEPT !.summarising[g] = @ - 1]
<1>4. /\ r \in RunRecord
      /\ SamePlace(record, r)
      /\ r.settled = record.settled
      /\ r.persists = record.persists
      /\ r.judging = record.judging
  BY <1>1, <1>3 DEF RunRecord, SamePlace
<1>5. record' \in {r, AttachSummary(r, g)}
  BY DEF SummaryReturns
<1> HIDE DEF r
<1>6. QED BY <1>4, <1>5 DEF AttachSummary, RunRecord, SamePlace

(* One step of the service.                                                *)
LEMMA NextInv == IInv /\ [Next]_vars => IInv'
<1> SUFFICES ASSUME IInv, [Next]_vars PROVE IInv'
  OBVIOUS
<1> USE DEF vars
<1>1. record \in RunRecord /\ engine \in Engine /\ disk \in Disk /\ waiter \in Waiter
  BY DEF IInv, TypeOK
<1>2. record.status = "awaiting_approval" => record.suspendedStep \in Gates
  BY DEF IInv, AwaitsApproval
<1>3. ASSUME NEW call, NEW outcome \in Outcomes(call)
      PROVE  LET a == ApplyWorkflowResult(record, outcome)
             IN  /\ Lands(record, outcome, a)
                 /\ a.status = "awaiting_approval" => a.suspendedStep \in Gates
  <2>1. Lands(record, outcome, ApplyWorkflowResult(record, outcome))
    BY <1>1, <1>3, OutcomeLemma, ApplyLemma
  <2>2. outcome = "suspended" => record.suspendedStep < NumGates
    BY <1>3, OutcomeLemma
  <2>3. record.suspendedStep \in 0..NumGates
    BY <1>1 DEF RunRecord
  <2>4. QED BY <2>1, <2>2, <2>3, ConstantsAssumption DEF Lands, Gates
<1>4. ASSUME NEW call, NEW outcome \in Outcomes(call)
      PROVE  /\ Advances(record, AfterSettlement(ApplyWorkflowResult(record, outcome)))
             /\ Advances(record, AfterApproval(ApplyWorkflowResult(record, outcome)))
             /\ Advances(record, Cancelled(ApplyWorkflowResult(record, outcome)))
  <2> DEFINE a == ApplyWorkflowResult(record, outcome)
  <2>1. /\ Lands(record, outcome, a)
        /\ a.status = "awaiting_approval" => a.suspendedStep \in Gates
    BY <1>3, <1>4
  <2> HIDE DEF a
  <2>2. a \in RunRecord
    BY <2>1 DEF Lands
  <2>3. /\ AfterSettlement(a) \in RunRecord
        /\ SamePlace(a, AfterSettlement(a))
        /\ AfterSettlement(a).persists = a.persists + 1
    BY <2>1, <2>2, AfterSettlementLemma
  <2>4. /\ AfterApproval(a) \in RunRecord
        /\ SamePlace(a, AfterApproval(a))
        /\ AfterApproval(a).persists = a.persists + 1
    BY <2>1, <2>2, AfterApprovalLemma
  <2>5. /\ Cancelled(a) \in RunRecord
        /\ SamePlace(a, Cancelled(a))
        /\ Cancelled(a).persists = a.persists + 1
    BY <2>2, CancelledLemma
  <2>6. /\ Advances(record, AfterSettlement(a))
        /\ Advances(record, AfterApproval(a))
        /\ Advances(record, Cancelled(a))
    BY <1>1, <2>1, <2>3, <2>4, <2>5, LandsAdvances
  <2>7. QED BY <2>6 DEF a
<1>5. /\ Advances(record, record)
      /\ Advances(record, Fail(record))
      /\ Advances(record, Cancelled(record))
  <2>1. record.persists \in Nat
    BY <1>1 DEF RunRecord
  <2>2. QED
    BY <1>1, <2>1, FailLemma, CancelledLemma DEF Advances, SamePlace
<1>6. CASE EngineReturns
  <2>1. PICK call \in engine.calls : \E outcome \in Outcomes(call) :
          /\ Answered(call)
          /\ UNCHANGED <<disk, waiter>>
          /\ \/ record' = AfterSettlement(ApplyWorkflowResult(record, outcome))
             \/ record' = AfterApproval(ApplyWorkflowResult(record, outcome))
             \/ record' = Cancelled(ApplyWorkflowResult(record, outcome))
             \/ record' \in {record, Fail(record), Cancelled(record)}
    BY <1>6 DEF EngineReturns, StartReturns, ApproveReturns,
                CancelResumeReturns, JudgeResumeReturns
  <2>2. Advances(record, record')
    BY <1>4, <1>5, <2>1
  <2>3. engine' \in Engine /\ engine'.resumed = engine.resumed
    BY <2>1, AnsweredLemma DEF IInv
  <2>4. QED BY <2>1, <2>2, <2>3, AdvanceInv
<1>7. CASE AbortReturns
  <2>1. Advances(record, record') /\ UNCHANGED <<disk, waiter>>
    BY <1>5, <1>7 DEF AbortReturns, CancelAbortReturns, CancelAbortFails
  <2>2. engine' \in Engine /\ engine'.resumed = engine.resumed
    BY <1>1, <1>7 DEF AbortReturns, CancelAbortReturns, CancelAbortFails, Engine
  <2>3. QED BY <2>1, <2>2, AdvanceInv
<1>8. ASSUME NEW gate \in 0..NumGates, NEW by \in {"human", "agent"},
             NEW approved \in BOOLEAN, NEW superseded \in BOOLEAN
      PROVE  Recorded(gate, by, approved, superseded) \in Seq(Decision)
  <2>1. record.gateDecisions \in Seq(Decision)
    BY <1>1 DEF RunRecord
  <2>2. [gate |-> gate, by |-> by, approved |-> approved,
         superseded |-> superseded] \in Decision
    BY DEF Decision
  <2>3. \A d \in Decision : Append(record.gateDecisions, d) \in Seq(Decision)
    BY <2>1
  <2>4. QED BY <2>2, <2>3 DEF Recorded
<1>9. ASSUME NEW ok \in BOOLEAN, Approve(ok) PROVE IInv'
  <2>1. Recorded(record.suspendedStep, "human", ok, FALSE) \in Seq(Decision)
    BY <1>1, <1>8 DEF RunRecord
  <2>2. /\ record' \in RunRecord
        /\ record'.status = "running"
        /\ record'.suspendedStep = record.suspendedStep
        /\ record'.persists = record.persists
    BY <1>1, <1>9, <2>1 DEF Approve, RunRecord, Status
  <2>3. QED BY <1>9, <2>2, ResumeInv DEF Approve
<1>10. CASE CancelAtGate
  <2>1. CancelDecision \in Seq(Decision)
    BY <1>1, <1>8 DEF RunRecord, CancelDecision
  <2>2. /\ record' \in RunRecord
        /\ record'.status = "cancelled"
        /\ record'.suspendedStep = record.suspendedStep
        /\ record'.persists = record.persists
    BY <1>1, <1>10, <2>1 DEF CancelAtGate, RunRecord, Status, Terminal
  <2>3. QED BY <1>10, <2>2, ResumeInv DEF CancelAtGate
<1>11. CASE CancelRunning
  <2>1. /\ record' \in RunRecord
        /\ record'.status = "cancelled"
        /\ record'.suspendedStep = record.suspendedStep
        /\ record'.persists = record.persists
    BY <1>1, <1>11 DEF CancelRunning, RunRecord, Status, Terminal
  <2>2. Advances(record, record')
    BY <1>1, <2>1, SMTT(40) DEF Advances, RunRecord
  <2>3. engine' \in Engine /\ engine'.resumed = engine.resumed
    BY <1>1, <1>11 DEF CancelRunning, Engine
  <2>4. QED BY <1>11, <2>2, <2>3, AdvanceInv DEF CancelRunning
<1>12. ASSUME NEW g \in Gates, NEW ok \in BOOLEAN, JudgeDecides(g, ok)
       PROVE  IInv'
  <2>1. /\ Recorded(g, "agent", ok, TRUE) \in Seq(Decision)
        /\ Recorded(g, "agent", ok, FALSE) \in Seq(Decision)
    <3>1. g \in 0..NumGates
      BY ConstantsAssumption DEF Gates
    <3>2. QED BY <1>8, <3>1
  <2>2. record.judging \ {g} \in SUBSET Gates
    BY <1>1 DEF RunRecord
  <2>3. CASE TooLate
    <3>1. /\ record' \in RunRecord
          /\ record'.status = record.status
          /\ record'.suspendedStep = record.suspendedStep
          /\ record'.persists = record.persists
      BY <1>1, <1>12, <2>1, <2>2, <2>3, ZenonT(40) DEF JudgeDecides, RunRecord
    <3>2. Advances(record, record')
      BY <1>1, <3>1, SMTT(40) DEF Advances, RunRecord
    <3>3. QED BY <1>1, <1>12, <2>3, <3>2, AdvanceInv DEF JudgeDecides
  <2>4. CASE ~TooLate
    <3>1. /\ record' \in RunRecord
          /\ record'.status = "running"
          /\ record'.suspendedStep = record.suspendedStep
          /\ record'.persists = record.persists
      BY <1>1, <1>12, <2>1, <2>2, <2>4, ZenonT(40) DEF JudgeDecides, RunRecord, Status
    <3>2. AwaitsApproval
      BY <2>4 DEF TooLate, AwaitsApproval
    <3>3. QED BY <1>12, <2>4, <3>1, <3>2, ResumeInv DEF JudgeDecides
  <2>5. QED BY <2>3, <2>4
<1>13. ASSUME NEW g \in Gates, JudgeFails(g) PROVE IInv'
  <2> DEFINE r == [record EXCEPT !.judging = @ \ {g}]
  <2>1. /\ r \in RunRecord
        /\ r.status = record.status
        /\ r.suspendedStep = record.suspendedStep
        /\ r.persists = record.persists
    BY <1>1 DEF RunRecord
  <2>2. record' = DegradeToManual(r, g)
    BY <1>13 DEF JudgeFails
  <2> HIDE DEF r
  <2>3. g \in 0..NumGates
    BY ConstantsAssumption DEF Gates
  <2>4. Advances(record, record')
    <3>1. /\ record' \in RunRecord
          /\ SamePlace(r, record')
          /\ record'.persists = r.persists
      BY <2>1, <2>2, <2>3, DegradeLemma
    <3>2. record.persists \in Nat
      BY <1>1 DEF RunRecord
    <3>3. QED BY <2>1, <3>1, <3>2 DEF Advances, SamePlace
  <2>5. QED BY <1>1, <1>13, <2>4, AdvanceInv DEF JudgeFails
<1>14. ASSUME NEW g \in 0..NumGates, SummaryReturns(g) PROVE IInv'
  <2>1. /\ record' \in RunRecord
        /\ SamePlace(record, record')
        /\ record'.persists = record.persists
    BY <1>14, SummaryReturnsLemma DEF IInv
  <2>2. record.persists \in Nat
    BY <1>1 DEF RunRecord
  <2>3. Advances(record, record')
    BY <2>1, <2>2 DEF Advances, SamePlace
  <2>4. QED BY <1>1, <1>14, <2>3, AdvanceInv DEF SummaryReturns
<1>15. CASE Persist
  <2>1. CASE PersistSnapshot
    <3>1. disk' \in Disk
      BY <1>1, <2>1 DEF PersistSnapshot, Disk, RunRecord
    <3>2. QED
      BY <2>1, <3>1 DEF PersistSnapshot, IInv, TypeOK, AnsweredOnce, AwaitsApproval
  <2>2. CASE PersistArtifact
    <3>1. disk' \in Disk
      BY <1>1, <2>2 DEF PersistArtifact, Disk, RunRecord
    <3>2. QED
      BY <2>2, <3>1 DEF PersistArtifact, IInv, TypeOK, AnsweredOnce, AwaitsApproval
  <2>3. CASE PersistManifest \/ PersistFails
    <3>1. disk.phase # "idle" /\ disk'.phase = "idle" /\ disk' \in Disk /\ LinkDone
      BY <1>1, <2>3 DEF PersistManifest, PersistFails, Disk
    <3>2. record.persists \in Nat /\ record.persists > 0
      BY <1>1, <3>1 DEF IInv, RunRecord
    <3>3. record.persists - 1 \in Nat
      BY <3>2
    <3>4. /\ record' \in RunRecord
          /\ record'.status = record.status
          /\ record'.suspendedStep = record.suspendedStep
      BY <1>1, <3>1, <3>3 DEF LinkDone, RunRecord
    <3>5. (IF waiter.links > 0 THEN waiter.links - 1 ELSE 0) \in Nat
      BY <1>1 DEF Waiter
    <3>6. waiter' \in Waiter
      BY <1>1, <3>1, <3>5 DEF LinkDone, Waiter
    <3>7. QED
      BY <3>1, <3>4, <3>6 DEF LinkDone, IInv, TypeOK, AnsweredOnce, AwaitsApproval
  <2>4. QED BY <1>15, <2>1, <2>2, <2>3 DEF Persist
<1>16. CASE Wait
  <2>1. waiter' \in Waiter
    BY <1>1, <1>16 DEF Wait, WaiterSettles, WaiterReturns, Waiter, RunRecord,
                       LinksToAwait
  <2>2. QED
    BY <1>16, <2>1 DEF Wait, WaiterSettles, WaiterReturns, IInv, TypeOK,
                       AnsweredOnce, AwaitsApproval
<1>17. CASE UNCHANGED vars
  BY <1>17 DEF IInv, TypeOK, AnsweredOnce, AwaitsApproval
<1>18. QED
  BY <1>6, <1>7, <1>9, <1>10, <1>11, <1>12, <1>13, <1>14, <1>15, <1>16, <1>17
  DEF Next, Human, JudgeReturns

(* Whatever is configured and whatever fails, the record, the engine's     *)
(* calls, the artifact writer and the waiter keep their types: no counter  *)
(* of pending writes or summaries goes below zero.                         *)
THEOREM TypeCorrect == Spec => []TypeOK
<1>1. IInv => TypeOK
  BY DEF IInv
<1>2. QED BY <1>1, InitInv, NextInv, PTL DEF Spec

(* approve, cancel and the judge never resume one suspension twice.        *)
THEOREM SingleFlight == Spec => []AnsweredOnce
<1>1. IInv => AnsweredOnce
  BY DEF IInv
<1>2. QED BY <1>1, InitInv, NextInv, PTL DEF Spec
-----------------------------------------------------------------------------
(* The audit trail.                                                        *)

(* The gates answered so far: all before the one the run waits at, or all  *)
(* it has reached.                                                         *)
Answers ==
  IF AwaitsApproval THEN record.suspendedStep - 1 ELSE record.suspendedStep

(* EveryAnswerRecorded is not inductive: it takes that the run has one     *)
(* call at most, that it never passed a gate without an answer, and that   *)
(* a judge still thinking was asked about a gate the run has reached and   *)
(* has no entry in the trail yet.                                          *)
AuditInv ==
  /\ \A c, d \in engine.calls : c = d
  /\ AwaitsApproval => engine.calls = {}
  /\ \A g \in Gates : g <= Answers => engine.resumed[g] > 0
  /\ Cardinality(Applied(record.gateDecisions)) = Answers
  /\ InOrder(record.gateDecisions)
  /\ JudgedOnce(record.gateDecisions)
  /\ \A call \in engine.calls : call.by # "start" =>
       LastAnswer(record.gateDecisions, Decider(call.by), call.approved)
  /\ \A g \in record.judging :
       /\ g <= record.suspendedStep
       /\ g \notin ManualOnly
       /\ \A k \in DOMAIN record.gateDecisions :
            record.gateDecisions[k].by = "agent" => record.gateDecisions[k].gate # g

(* What a step may do to the trail and to what is in flight.  Nothing: the *)
(* run waits as before, or does not.                                       *)
Quiet ==
  /\ record'.gateDecisions = record.gateDecisions
  /\ engine'.resumed = engine.resumed
  /\ engine'.calls = engine.calls
  /\ record'.suspendedStep = record.suspendedStep
  /\ AwaitsApproval' <=> AwaitsApproval
  /\ record'.judging \subseteq record.judging

(* The engine answers: the run ends, or waits at the next gate, for which  *)
(* it may have asked the judge.                                            *)
Returned ==
  /\ record'.gateDecisions = record.gateDecisions
  /\ engine'.resumed = engine.resumed
  /\ \E call \in engine.calls : engine'.calls = engine.calls \ {call}
  /\ \/ /\ record'.suspendedStep = record.suspendedStep
        /\ AwaitsApproval' => AwaitsApproval
        /\ record'.judging = record.judging
     \/ /\ record'.suspendedStep = record.suspendedStep + 1
        /\ AwaitsApproval'
        /\ \/ record'.judging = record.judging
           \/ /\ record'.judging = record.judging \cup {record'.suspendedStep}
              /\ record'.suspendedStep \notin ManualOnly

(* The judge of gate g answers a run that does not wait.                   *)
Overtaken(g, ok) ==
  /\ ~AwaitsApproval /\ ~AwaitsApproval'
  /\ g \in record.judging /\ record'.judging = record.judging \ {g}
  /\ record'.gateDecisions = Recorded(g, "agent", ok, TRUE)
  /\ record'.suspendedStep = record.suspendedStep
  /\ engine' = engine

(* A gate is answered: by a human, or by the judge of gate g.              *)
Answering(g, by, ok) ==
  /\ AwaitsApproval /\ ~AwaitsApproval'
  /\ \/ /\ by \in {"human", "cancel"}
        /\ g = record.suspendedStep
        /\ record'.judging = record.judging
     \/ /\ by = "judge"
        /\ g \in record.judging
        /\ record'.judging = record.judging \ {g}
  /\ record'.gateDecisions = Recorded(g, Decider(by), ok, FALSE)
  /\ record'.suspendedStep = record.suspendedStep
  /\ Resume(by, ok)

AuditStep ==
  \/ Quiet
  \/ Returned
  \/ \E g \in Gates, ok \in BOOLEAN : Overtaken(g, ok)
  \/ \E g \in Gates, by \in {"human", "cancel", "judge"}, ok \in BOOLEAN :
       Answering(g, by, ok)

(* An entry that is not superseded is one more answer, and the last one;   *)
(* what the trail held before keeps its place.                             *)
LEMMA AppliedLemma ==
  ASSUME NEW s \in Seq(Decision), NEW d \in Decision
  PROVE  /\ IsFiniteSet(Applied(s))
         /\ d.superseded => Cardinality(Applied(Append(s, d))) = Cardinality(Applied(s))
         /\ ~d.superseded =>
              Cardinality(Applied(Append(s, d))) = Cardinality(Applied(s)) + 1
         /\ AnswersBy(Append(s, d), Len(s) + 1) = Cardinality(Applied(Append(s, d)))
         /\ \A k \in DOMAIN s : AnswersBy(Append(s, d), k) = AnswersBy(s, k)
         /\ Applied(Append(s, d)) =
              IF d.superseded THEN Applied(s) ELSE Applied(s) \cup {Len(s) + 1}
<1> DEFINE n == Len(s) + 1
           t == Append(s, d)
<1>1. Len(s) \in Nat /\ DOMAIN s = 1..Len(s)
  OBVIOUS
<1>2. DOMAIN t = 1..n /\ t[n] = d /\ \A i \in 1..Len(s) : t[i] = s[i]
  OBVIOUS
<1>3. 1..n = (1..Len(s)) \cup {n} /\ n \notin 1..Len(s)
  BY <1>1
<1>4. IsFiniteSet(Applied(s))
  <2>1. IsFiniteSet(1..Len(s))
    BY <1>1, FS_Interval
  <2>2. Applied(s) \in SUBSET (1..Len(s))
    BY <1>1 DEF Applied
  <2>3. QED BY <2>1, <2>2, FS_Subset
<1>5. n \in Nat /\ \A k \in 1..Len(s) : k <= n /\ ~(n <= k)
  BY <1>1
<1> HIDE DEF n, t
<1>6. Applied(t) = IF d.superseded THEN Applied(s) ELSE Applied(s) \cup {n}
  BY <1>1, <1>2, <1>3 DEF Applied
<1>7. n \notin Applied(s)
  BY <1>1, <1>3 DEF Applied
<1>8. Cardinality(Applied(s) \cup {n}) = Cardinality(Applied(s)) + 1
  BY <1>4, <1>7, FS_AddElement
<1>9. AnswersBy(t, n) = Cardinality(Applied(t))
  <2>1. \A i \in Applied(t) : i <= n
    BY <1>1, <1>5, <1>6 DEF Applied
  <2>2. {i \in Applied(t) : i <= n} = Applied(t)
    BY <2>1
  <2>3. QED BY <2>2 DEF AnswersBy
<1>10. ASSUME NEW k \in DOMAIN s PROVE AnswersBy(t, k) = AnswersBy(s, k)
  <2>1. {i \in Applied(t) : i <= k} = {i \in Applied(s) : i <= k}
    BY <1>1, <1>5, <1>6
  <2>2. QED BY <2>1 DEF AnswersBy
<1>11. QED BY <1>4, <1>6, <1>8, <1>9, <1>10 DEF t, n

(* No entry stands before the answer to its gate.                          *)
LEMMA InOrderBound ==
  ASSUME NEW s \in Seq(Decision), InOrder(s), NEW k \in DOMAIN s
  PROVE  s[k].gate <= Cardinality(Applied(s))
<1>1. IsFiniteSet(Applied(s))
  <2>1. IsFiniteSet(1..Len(s))
    BY FS_Interval
  <2>2. Applied(s) \in SUBSET (1..Len(s))
    BY DEF Applied
  <2>3. QED BY <2>1, <2>2, FS_Subset
<1> DEFINE P == {i \in Applied(s) : i <= k}
<1>2. Cardinality(P) \in Nat /\ Cardinality(Applied(s)) \in Nat
      /\ Cardinality(P) <= Cardinality(Applied(s))
  <2>1. P \in SUBSET Applied(s)
    OBVIOUS
  <2>2. IsFiniteSet(P)
    BY <1>1, <2>1, FS_Subset
  <2> HIDE DEF P
  <2>3. QED BY <1>1, <2>1, <2>2, FS_Subset, FS_CardinalityType
<1>3. s[k].gate <= Cardinality(P)
  BY DEF InOrder, AnswersBy
<1>4. s[k].gate \in Nat
  <2>1. s[k] \in Decision
    OBVIOUS
  <2>2. QED BY <2>1, ConstantsAssumption DEF Decision
<1> HIDE DEF P
<1>5. QED BY <1>2, <1>3, <1>4

(* One more entry keeps the order of the trail.                            *)
LEMMA InOrderLemma ==
  ASSUME NEW s \in Seq(Decision), NEW d \in Decision, InOrder(s),
         d.gate <= Cardinality(Applied(Append(s, d))),
         d.by = "human" =>
           ~d.superseded /\ d.gate = Cardinality(Applied(Append(s, d))),
         d.by = "agent" => d.gate \notin ManualOnly
  PROVE  InOrder(Append(s, d))
<1> DEFINE n == Len(s) + 1
           t == Append(s, d)
<1>1. DOMAIN t = DOMAIN s \cup {n} /\ t[n] = d /\ \A i \in DOMAIN s : t[i] = s[i]
  OBVIOUS
<1>2. /\ AnswersBy(t, n) = Cardinality(Applied(t))
      /\ \A k \in DOMAIN s : AnswersBy(t, k) = AnswersBy(s, k)
  BY AppliedLemma
<1>3. /\ d.gate <= Cardinality(Applied(t))
      /\ d.by = "human" => ~d.superseded /\ d.gate = Cardinality(Applied(t))
  OBVIOUS
<1> SUFFICES InOrder(t)
  OBVIOUS
<1> HIDE DEF n, t
<1>4. QED BY <1>1, <1>2, <1>3 DEF InOrder

LEMMA JudgedOnceLemma ==
  ASSUME NEW s \in Seq(Decision), NEW d \in Decision, JudgedOnce(s),
         d.by = "agent" => \A k \in DOMAIN s : s[k].by = "agent" => s[k].gate # d.gate
  PROVE  JudgedOnce(Append(s, d))
<1> DEFINE n == Len(s) + 1
           t == Append(s, d)
<1>1. DOMAIN t = DOMAIN s \cup {n} /\ t[n] = d /\ \A i \in DOMAIN s : t[i] = s[i]
  OBVIOUS
<1> SUFFICES JudgedOnce(t)
  OBVIOUS
<1> HIDE DEF n, t
<1>2. QED BY <1>1 DEF JudgedOnce

(* A superseded entry leaves the last answer, any other becomes it.        *)
LEMMA LastAnswerLemma ==
  ASSUME NEW s \in Seq(Decision), NEW d \in Decision
  PROVE  /\ ~d.superseded => LastAnswer(Append(s, d), d.by, d.approved)
         /\ \A by, ok : d.superseded /\ LastAnswer(s, by, ok) =>
              LastAnswer(Append(s, d), by, ok)
<1> DEFINE n == Len(s) + 1
           t == Append(s, d)
<1>1. t[n] = d /\ \A i \in DOMAIN s : t[i] = s[i] /\ i <= n
  OBVIOUS
<1>2. Applied(t) = IF d.superseded THEN Applied(s) ELSE Applied(s) \cup {n}
  BY AppliedLemma
<1>3. n <= n /\ Applied(s) \subseteq DOMAIN s
  BY DEF Applied
<1> SUFFICES /\ ~d.superseded => LastAnswer(t, d.by, d.approved)
             /\ \A by, ok : d.superseded /\ LastAnswer(s, by, ok) => LastAnswer(t, by, ok)
  OBVIOUS
<1> HIDE DEF n, t
<1>4. ~d.superseded => LastAnswer(t, d.by, d.approved)
  BY <1>1, <1>2, <1>3 DEF LastAnswer
<1>5. ASSUME NEW by, NEW ok, d.superseded, LastAnswer(s, by, ok)
      PROVE  LastAnswer(t, by, ok)
  BY <1>1, <1>2, <1>3, <1>5 DEF LastAnswer
<1>6. QED BY <1>4, <1>5

(* Each of these steps keeps the trail true.                               *)
LEMMA QuietKeepsAudit ==
  ASSUME AuditInv, Quiet
  PROVE  AuditInv'
<1>1. Answers' = Answers
  BY DEF Quiet, Answers
<1>2. QED BY <1>1 DEF AuditInv, Quiet

LEMMA ReturnedKeepsAudit ==
  ASSUME IInv, AuditInv, Returned
  PROVE  AuditInv'
<1> DEFINE s == record.gateDecisions
<1>1. record.suspendedStep \in Nat /\ s \in Seq(Decision) /\ record.judging \subseteq Nat
  BY ConstantsAssumption DEF IInv, TypeOK, RunRecord, Gates
<1>2. engine'.calls = {} /\ ~AwaitsApproval
  BY DEF AuditInv, Returned
<1>3. Answers = record.suspendedStep /\ Answers' = Answers
  BY <1>1, <1>2 DEF Answers, Returned
<1>4. s' = s /\ engine'.resumed = engine.resumed
  BY DEF Returned
<1>5. \A k \in DOMAIN s : s[k].gate <= record.suspendedStep
  BY <1>1, <1>3, InOrderBound DEF AuditInv
<1>6. ASSUME NEW g \in record'.judging
      PROVE  /\ g <= record'.suspendedStep
             /\ g \notin ManualOnly
             /\ \A k \in DOMAIN s : s[k].by = "agent" => s[k].gate # g
  <2>1. CASE g \in record.judging
    <3>1. record.suspendedStep <= record'.suspendedStep
      BY <1>1 DEF Returned
    <3>2. g \in Nat /\ record'.suspendedStep \in Nat
      BY <1>1, <2>1 DEF Returned
    <3>3. g <= record.suspendedStep
      BY <2>1 DEF AuditInv
    <3>4. g <= record'.suspendedStep
      BY <1>1, <3>1, <3>2, <3>3
    <3>5. QED BY <2>1, <3>4 DEF AuditInv
  <2>2. CASE g \notin record.judging
    <3>1. g = record.suspendedStep + 1 /\ g = record'.suspendedStep /\ g \notin ManualOnly
      BY <2>2 DEF Returned
    <3>2. \A k \in DOMAIN s : s[k].gate \in Nat
      <4>1. \A k \in DOMAIN s : s[k] \in Decision
        BY <1>1
      <4>2. QED BY <4>1, ConstantsAssumption DEF Decision
    <3>3. \A k \in DOMAIN s : s[k].gate # g
      BY <1>1, <1>5, <3>1, <3>2
    <3>4. g <= record'.suspendedStep
      BY <1>1, <3>1
    <3>5. QED BY <3>1, <3>3, <3>4
  <2>3. QED BY <2>1, <2>2
<1>7. QED BY <1>2, <1>3, <1>4, <1>6 DEF AuditInv, Returned

LEMMA OvertakenKeepsAudit ==
  ASSUME IInv, AuditInv, NEW g \in Gates, NEW ok \in BOOLEAN, Overtaken(g, ok)
  PROVE  AuditInv'
<1> DEFINE s == record.gateDecisions
           d == [gate |-> g, by |-> "agent", approved |-> ok, superseded |-> TRUE]
<1>1. s \in Seq(Decision) /\ record.suspendedStep \in Nat
  BY ConstantsAssumption DEF IInv, TypeOK, RunRecord
<1>2. /\ d \in Decision /\ d.superseded /\ d.by = "agent" /\ d.gate = g
  <2>1. g \in 0..NumGates
    BY ConstantsAssumption DEF Gates
  <2>2. QED BY <2>1 DEF Decision
<1>3. s' = Append(s, d)
  BY DEF Overtaken, Recorded
<1>4. /\ g <= record.suspendedStep /\ g \notin ManualOnly
      /\ \A k \in DOMAIN s : s[k].by = "agent" => s[k].gate # g
  BY DEF AuditInv, Overtaken
<1> HIDE DEF d
<1>5. Answers = record.suspendedStep /\ Answers' = Answers
  BY DEF Answers, Overtaken
<1>6. Cardinality(Applied(s)) = record.suspendedStep
  BY <1>5 DEF AuditInv
<1>7. Cardinality(Applied(s')) = record.suspendedStep
  BY <1>1, <1>2, <1>3, <1>6, AppliedLemma
<1>8. InOrder(s')
  <2>1. InOrder(s)
    BY DEF AuditInv
  <2>2. d.gate <= Cardinality(Applied(Append(s, d)))
    BY <1>2, <1>3, <1>4, <1>7
  <2>3. InOrder(Append(s, d))
    BY <1>1, <1>2, <1>4, <2>1, <2>2, InOrderLemma
  <2>4. QED BY <1>3, <2>3
<1>9. JudgedOnce(s')
  <2>1. JudgedOnce(s)
    BY DEF AuditInv
  <2>2. JudgedOnce(Append(s, d))
    BY <1>1, <1>2, <1>4, <2>1, JudgedOnceLemma
  <2>3. QED BY <1>3, <2>2
<1>10. \A call \in engine'.calls : call.by # "start" =>
         LastAnswer(s', Decider(call.by), call.approved)
  <2>1. \A call \in engine.calls : call.by # "start" =>
          LastAnswer(s, Decider(call.by), call.approved)
    BY DEF AuditInv
  <2>2. \A by, app : LastAnswer(s, by, app) => LastAnswer(s', by, app)
    BY <1>1, <1>2, <1>3, LastAnswerLemma
  <2>3. engine' = engine
    BY DEF Overtaken
  <2>4. QED BY <2>1, <2>2, <2>3
<1>11. ASSUME NEW h \in record'.judging
       PROVE  /\ h <= record'.suspendedStep
              /\ h \notin ManualOnly
              /\ \A k \in DOMAIN s' : s'[k].by = "agent" => s'[k].gate # h
  <2>1. h \in record.judging /\ h # g
    BY DEF Overtaken
  <2>2. /\ h <= record.suspendedStep /\ h \notin ManualOnly
        /\ \A k \in DOMAIN s : s[k].by = "agent" => s[k].gate # h
    BY <2>1 DEF AuditInv
  <2>3. \A k \in DOMAIN s' : s'[k] = d \/ (k \in DOMAIN s /\ s'[k] = s[k])
    BY <1>1, <1>2, <1>3
  <2>4. record'.suspendedStep = record.suspendedStep
    BY DEF Overtaken
  <2>5. QED BY <1>2, <2>1, <2>2, <2>3, <2>4
<1>12. ~AwaitsApproval' /\ engine' = engine
  BY DEF Overtaken
<1>13. QED
  BY <1>5, <1>6, <1>7, <1>8, <1>9, <1>10, <1>11, <1>12 DEF AuditInv

LEMMA AnsweringKeepsAudit ==
  ASSUME IInv, AuditInv, NEW g \in Gates, NEW by \in {"human", "cancel", "judge"},
         NEW ok \in BOOLEAN, Answering(g, by, ok)
  PROVE  AuditInv'
<1> DEFINE s == record.gateDecisions
           w == record.suspendedStep
           d == [gate |-> g, by |-> Decider(by), approved |-> ok, superseded |-> FALSE]
<1>1. s \in Seq(Decision) /\ w \in Nat /\ w \in Gates /\ engine \in Engine
  BY ConstantsAssumption DEF IInv, TypeOK, RunRecord, Answering
<1>2. /\ d \in Decision /\ ~d.superseded
      /\ d.by = Decider(by) /\ d.gate = g /\ d.approved = ok
  <2>1. g \in 0..NumGates
    BY ConstantsAssumption DEF Gates
  <2>2. Decider(by) \in {"human", "agent"}
    BY DEF Decider
  <2>3. QED BY <2>1, <2>2 DEF Decision
<1>3. s' = Append(s, d)
  BY DEF Answering, Recorded
<1> HIDE DEF d
<1>4. Answers = w - 1 /\ Answers' = w /\ record'.suspendedStep = w
  BY DEF Answers, Answering
<1>5. Cardinality(Applied(s')) = w
  <2>1. Cardinality(Applied(s)) = w - 1
    BY <1>4 DEF AuditInv
  <2>2. Cardinality(Applied(s')) = Cardinality(Applied(s)) + 1
    BY <1>1, <1>2, <1>3, AppliedLemma
  <2>3. QED BY <1>1, <2>1, <2>2
<1>6. /\ by = "judge" => /\ g \in record.judging
                         /\ g <= w /\ g \notin ManualOnly
                         /\ \A k \in DOMAIN s : s[k].by = "agent" => s[k].gate # g
      /\ by # "judge" => g = w
  BY DEF AuditInv, Answering
<1>7. InOrder(s')
  <2>1. InOrder(s)
    BY DEF AuditInv
  <2>2. g <= w /\ (by # "judge" => g = w) /\ (by = "judge" => g \notin ManualOnly)
    BY <1>1, <1>6
  <2>3. /\ d.by = "human" => by # "judge"
        /\ d.by = "agent" => by = "judge"
    BY <1>2 DEF Decider
  <2>4. /\ d.gate <= Cardinality(Applied(Append(s, d)))
        /\ d.by = "human" =>
             ~d.superseded /\ d.gate = Cardinality(Applied(Append(s, d)))
        /\ d.by = "agent" => d.gate \notin ManualOnly
    BY <1>2, <1>3, <1>5, <2>2, <2>3
  <2>5. InOrder(Append(s, d))
    BY <1>1, <1>2, <2>1, <2>4, InOrderLemma
  <2>6. QED BY <1>3, <2>5
<1>8. JudgedOnce(s')
  <2>1. JudgedOnce(s)
    BY DEF AuditInv
  <2>2. d.by = "agent" => \A k \in DOMAIN s : s[k].by = "agent" => s[k].gate # d.gate
    BY <1>2, <1>6 DEF Decider
  <2>3. JudgedOnce(Append(s, d))
    BY <1>1, <1>2, <2>1, <2>2, JudgedOnceLemma
  <2>4. QED BY <1>3, <2>3
<1>9. engine'.calls = {[by |-> by, approved |-> ok]}
  <2>1. engine.calls = {} /\ Resume(by, ok)
    BY DEF AuditInv, Answering
  <2>2. QED BY <1>1, <2>1, ResumeLemma
<1>10. LastAnswer(s', Decider(by), ok)
  <2>1. LastAnswer(Append(s, d), d.by, d.approved)
    BY <1>1, <1>2, LastAnswerLemma
  <2>2. QED BY <1>2, <1>3, <2>1
<1>11. \A h \in Gates : h <= w => engine'.resumed[h] > 0
  <2>1. Resume(by, ok)
    BY DEF Answering
  <2>2. engine'.resumed = [engine.resumed EXCEPT ![w] = @ + 1]
    BY <1>1, <2>1 DEF Resume, Engine
  <2>3. engine.resumed \in [Gates -> Nat]
    BY <1>1 DEF Engine
  <2>4. \A h \in Gates : h <= w - 1 => engine.resumed[h] > 0
    BY <1>4 DEF AuditInv
  <2>5. \A h \in Gates : h <= w => h = w \/ h <= w - 1
    BY <1>1, ConstantsAssumption DEF Gates
  <2>6. engine'.resumed[w] > 0
    BY <1>1, <2>2, <2>3
  <2>7. \A h \in Gates : h # w => engine'.resumed[h] = engine.resumed[h]
    BY <1>1, <2>2, <2>3
  <2>8. QED BY <2>4, <2>5, <2>6, <2>7
<1>12. ASSUME NEW h \in record'.judging
       PROVE  /\ h <= record'.suspendedStep
              /\ h \notin ManualOnly
              /\ \A k \in DOMAIN s' : s'[k].by = "agent" => s'[k].gate # h
  <2>1. h \in record.judging /\ (by = "judge" => h # g)
    BY DEF Answering
  <2>2. /\ h <= w /\ h \notin ManualOnly
        /\ \A k \in DOMAIN s : s[k].by = "agent" => s[k].gate # h
    BY <2>1 DEF AuditInv
  <2>3. \A k \in DOMAIN s' : s'[k] = d \/ (k \in DOMAIN s /\ s'[k] = s[k])
    BY <1>1, <1>2, <1>3
  <2>4. d.by = "agent" => by = "judge"
    BY <1>2 DEF Decider
  <2>5. QED BY <1>2, <1>4, <2>1, <2>2, <2>3, <2>4
<1>13. ~AwaitsApproval'
  BY DEF Answering
<1>14. QED
  BY <1>4, <1>5, <1>7, <1>8, <1>9, <1>10, <1>11, <1>12, <1>13 DEF AuditInv

(* approve, cancel and the judge decide; an answer of the engine brings    *)
(* the run to the next gate or to its end; everything else is quiet.       *)
LEMMA AuditNext ==
  ASSUME IInv, AuditInv, [Next]_vars
  PROVE  AuditStep
<1>1. record \in RunRecord /\ engine \in Engine
  BY DEF IInv, TypeOK
<1>2. AwaitsApproval => record.suspendedStep \in Gates
  BY DEF IInv
<1>3. ASSUME NEW call, NEW outcome \in Outcomes(call), ~AwaitsApproval
      PROVE  LET a == ApplyWorkflowResult(record, outcome)
             IN  \A q \in {AfterSettlement(a), AfterApproval(a), Cancelled(a)} :
                   /\ q.gateDecisions = record.gateDecisions
                   /\ \/ /\ q.suspendedStep = record.suspendedStep
                         /\ q.status # "awaiting_approval"
                         /\ q.judging = record.judging
                      \/ /\ q.suspendedStep = record.suspendedStep + 1
                         /\ q.status = "awaiting_approval"
                         /\ \/ q.judging = record.judging
                            \/ /\ q.judging = record.judging \cup {q.suspendedStep}
                               /\ q.suspendedStep \notin ManualOnly
  <2> DEFINE a == ApplyWorkflowResult(record, outcome)
  <2>1. Lands(record, outcome, a)
    BY <1>1, <1>3, OutcomeLemma, ApplyLemma
  <2>2. outcome = "suspended" => record.suspendedStep < NumGates
    BY <1>3, OutcomeLemma
  <2> HIDE DEF a
  <2>3. /\ a \in RunRecord
        /\ a.gateDecisions = record.gateDecisions
        /\ a.judging = record.judging
        /\ \/ /\ a.suspendedStep = record.suspendedStep
              /\ a.status # "awaiting_approval"
           \/ /\ a.suspendedStep = record.suspendedStep + 1
              /\ a.status = "awaiting_approval"
              /\ record.suspendedStep < NumGates
    BY <2>1, <2>2 DEF Lands
  <2>4. a.status = "awaiting_approval" => a.suspendedStep \in Gates
    <3>1. record.suspendedStep \in 0..NumGates
      BY <1>1 DEF RunRecord
    <3>2. QED BY <2>3, <3>1, ConstantsAssumption DEF Gates
  <2>5. /\ SamePlace(a, AfterSettlement(a)) /\ JudgesIts(a, AfterSettlement(a))
        /\ SamePlace(a, AfterApproval(a)) /\ JudgesIts(a, AfterApproval(a))
        /\ SamePlace(a, Cancelled(a)) /\ JudgesIts(a, Cancelled(a))
    BY <2>3, <2>4, AfterSettlementLemma, AfterApprovalLemma, CancelledLemma
    DEF JudgesIts
  <2>6. ASSUME NEW q, SamePlace(a, q), JudgesIts(a, q)
        PROVE  /\ q.gateDecisions = record.gateDecisions
               /\ \/ /\ q.suspendedStep = record.suspendedStep
                     /\ q.status # "awaiting_approval"
                     /\ q.judging = record.judging
                  \/ /\ q.suspendedStep = record.suspendedStep + 1
                     /\ q.status = "awaiting_approval"
                     /\ \/ q.judging = record.judging
                        \/ /\ q.judging = record.judging \cup {q.suspendedStep}
                           /\ q.suspendedStep \notin ManualOnly
    BY <2>3, <2>6 DEF SamePlace, JudgesIts
  <2>7. QED BY <2>5, <2>6 DEF a
<1>4. ASSUME NEW q \in {record, Fail(record), Cancelled(record)}
      PROVE  /\ q.gateDecisions = record.gateDecisions
             /\ q.suspendedStep = record.suspendedStep
             /\ q.status \in {record.status, "failed"}
             /\ q.judging = record.judging
  BY <1>1, FailLemma, CancelledLemma DEF SamePlace
<1>5. CASE EngineReturns
  <2>1. PICK call \in engine.calls : \E outcome \in Outcomes(call) :
          /\ Answered(call)
          /\ \/ record' \in {AfterSettlement(ApplyWorkflowResult(record, outcome)),
                             AfterApproval(ApplyWorkflowResult(record, outcome)),
                             Cancelled(ApplyWorkflowResult(record, outcome))}
             \/ record' \in {record, Fail(record), Cancelled(record)}
    <3>1. CASE StartReturns
      BY <3>1 DEF StartReturns
    <3>2. CASE ApproveReturns
      BY <3>2 DEF ApproveReturns
    <3>3. CASE CancelResumeReturns
      BY <3>3 DEF CancelResumeReturns
    <3>4. CASE JudgeResumeReturns
      BY <3>4 DEF JudgeResumeReturns
    <3>5. QED BY <1>5, <3>1, <3>2, <3>3, <3>4 DEF EngineReturns
  <2>2. engine'.calls = engine.calls \ {call} /\ engine'.resumed = engine.resumed
    BY <1>1, <2>1 DEF Answered, Engine
  <2>3. ~AwaitsApproval
    BY <2>1 DEF AuditInv
  <2>4. /\ record'.gateDecisions = record.gateDecisions
        /\ \/ /\ record'.suspendedStep = record.suspendedStep
              /\ AwaitsApproval' => AwaitsApproval
              /\ record'.judging = record.judging
           \/ /\ record'.suspendedStep = record.suspendedStep + 1
              /\ AwaitsApproval'
              /\ \/ record'.judging = record.judging
                 \/ /\ record'.judging = record.judging \cup {record'.suspendedStep}
                    /\ record'.suspendedStep \notin ManualOnly
    BY <1>3, <1>4, <2>1, <2>3 DEF AwaitsApproval
  <2>5. Returned
    BY <2>1, <2>2, <2>4 DEF Returned
  <2>6. QED BY <2>5 DEF AuditStep
<1>6. CASE AbortReturns
  <2>1. SamePlace(record, record') /\ record'.judging = record.judging
    BY <1>1, <1>6, CancelledLemma
    DEF AbortReturns, CancelAbortReturns, CancelAbortFails, SamePlace
  <2>2. engine'.calls = engine.calls /\ engine'.resumed = engine.resumed
    BY <1>1, <1>6 DEF AbortReturns, CancelAbortReturns, CancelAbortFails, Engine
  <2>3. QED BY <2>1, <2>2 DEF AuditStep, Quiet, SamePlace, AwaitsApproval
<1>7. ASSUME NEW ok \in BOOLEAN, Approve(ok) PROVE AuditStep
  <2> DEFINE w == record.suspendedStep
  <2>1. /\ record'.gateDecisions = Recorded(w, "human", ok, FALSE)
        /\ record'.status = "running"
        /\ record'.suspendedStep = w
        /\ record'.judging = record.judging
    BY <1>1, <1>7 DEF Approve, RunRecord
  <2>2. AwaitsApproval /\ Resume("human", ok) /\ w \in Gates
    BY <1>2, <1>7 DEF Approve
  <2>3. Answering(w, "human", ok)
    BY <2>1, <2>2 DEF Answering, Decider, AwaitsApproval
  <2>4. QED BY <2>2, <2>3 DEF AuditStep
<1>8. CASE CancelAtGate
  <2> DEFINE w == record.suspendedStep
  <2>1. /\ record'.gateDecisions = Recorded(w, "human", FALSE, FALSE)
        /\ record'.status = "cancelled"
        /\ record'.suspendedStep = w
        /\ record'.judging = record.judging
    BY <1>1, <1>8 DEF CancelAtGate, CancelDecision, RunRecord
  <2>2. AwaitsApproval /\ Resume("cancel", FALSE) /\ w \in Gates
    BY <1>2, <1>8 DEF CancelAtGate
  <2>3. Answering(w, "cancel", FALSE)
    BY <2>1, <2>2 DEF Answering, Decider, AwaitsApproval
  <2>4. QED BY <2>2, <2>3 DEF AuditStep
<1>9. CASE CancelRunning
  <2>1. /\ record'.gateDecisions = record.gateDecisions
        /\ record'.status = "cancelled" /\ record.status = "running"
        /\ record'.suspendedStep = record.suspendedStep
        /\ record'.judging = record.judging
        /\ engine'.calls = engine.calls /\ engine'.resumed = engine.resumed
    BY <1>1, <1>9 DEF CancelRunning, RunRecord, Engine
  <2>2. QED BY <2>1 DEF AuditStep, Quiet, AwaitsApproval
<1>10. ASSUME NEW g \in Gates, NEW ok \in BOOLEAN, JudgeDecides(g, ok)
       PROVE  AuditStep
  <2>1. CASE TooLate
    <3>1. /\ record'.gateDecisions = Recorded(g, "agent", ok, TRUE)
          /\ record'.status = record.status
          /\ record'.suspendedStep = record.suspendedStep
          /\ record'.judging = record.judging \ {g}
      BY <1>1, <1>10, <2>1 DEF JudgeDecides, RunRecord
    <3>2. g \in record.judging /\ engine' = engine
      BY <1>10, <2>1 DEF JudgeDecides
    <3>3. Overtaken(g, ok)
      BY <2>1, <3>1, <3>2 DEF Overtaken, TooLate, AwaitsApproval
    <3>4. QED BY <3>3 DEF AuditStep
  <2>2. CASE ~TooLate
    <3>1. /\ record'.gateDecisions = Recorded(g, "agent", ok, FALSE)
          /\ record'.status = "running"
          /\ record'.suspendedStep = record.suspendedStep
          /\ record'.judging = record.judging \ {g}
      BY <1>1, <1>10, <2>2 DEF JudgeDecides, RunRecord
    <3>2. g \in record.judging /\ Resume("judge", ok)
      BY <1>10, <2>2 DEF JudgeDecides
    <3>3. Answering(g, "judge", ok)
      BY <2>2, <3>1, <3>2 DEF Answering, Decider, TooLate, AwaitsApproval
    <3>4. QED BY <3>3 DEF AuditStep
  <2>3. QED BY <2>1, <2>2
<1>11. ASSUME NEW g \in Gates, JudgeFails(g) PROVE AuditStep
  <2> DEFINE r == [record EXCEPT !.judging = @ \ {g}]
  <2>1. r \in RunRecord /\ SamePlace(record, r) /\ r.judging \subseteq record.judging
    BY <1>1 DEF RunRecord, SamePlace
  <2>2. record' = DegradeToManual(r, g) /\ engine' = engine
    BY <1>11 DEF JudgeFails
  <2> HIDE DEF r
  <2>3. g \in 0..NumGates
    BY ConstantsAssumption DEF Gates
  <2>4. SamePlace(r, record') /\ record'.judging = r.judging
    BY <2>1, <2>2, <2>3, DegradeLemma
  <2>5. QED BY <2>1, <2>2, <2>4 DEF AuditStep, Quiet, SamePlace, AwaitsApproval
<1>12. ASSUME NEW g \in 0..NumGates, SummaryReturns(g) PROVE AuditStep
  <2>1. SamePlace(record, record') /\ record'.judging = record.judging
    BY <1>12, SummaryReturnsLemma DEF IInv
  <2>2. engine' = engine
    BY <1>12 DEF SummaryReturns
  <2>3. QED BY <2>1, <2>2 DEF AuditStep, Quiet, SamePlace, AwaitsApproval
<1>13. CASE Persist \/ Wait \/ UNCHANGED vars
  <2>1. SamePlace(record, record') /\ record'.judging = record.judging
    BY <1>1, <1>13
    DEF Persist, PersistSnapshot, PersistArtifact, PersistManifest, PersistFails,
        LinkDone, Wait, WaiterSettles, WaiterReturns, vars, RunRecord, SamePlace
  <2>2. engine' = engine
    BY <1>13
    DEF Persist, PersistSnapshot, PersistArtifact, PersistManifest, PersistFails,
        LinkDone, Wait, WaiterSettles, WaiterReturns, vars
  <2>3. QED BY <2>1, <2>2 DEF AuditStep, Quiet, SamePlace, AwaitsApproval
<1>14. QED
  BY <1>5, <1>6, <1>7, <1>8, <1>9, <1>10, <1>11, <1>12, <1>13
  DEF Next, Human, JudgeReturns

LEMMA AuditInit == Init => AuditInv
<1> SUFFICES ASSUME Init PROVE AuditInv
  OBVIOUS
<1>1. /\ record.gateDecisions = <<>>
      /\ record.status = "running"
      /\ record.suspendedStep = 0
      /\ record.judging = {}
      /\ engine.calls = {[by |-> "start", approved |-> TRUE]}
  BY DEF Init, NoGate
<1>2. Applied(record.gateDecisions) = {} /\ DOMAIN record.gateDecisions = {}
  BY <1>1 DEF Applied
<1>3. Answers = 0 /\ ~AwaitsApproval
  BY <1>1 DEF Answers, AwaitsApproval
<1>4. Cardinality(Applied(record.gateDecisions)) = 0
  BY <1>2, FS_EmptySet
<1>5. InOrder(record.gateDecisions) /\ JudgedOnce(record.gateDecisions)
  BY <1>2 DEF InOrder, JudgedOnce
<1>6. \A g \in Gates : ~(g <= 0)
  BY ConstantsAssumption DEF Gates
<1>7. QED BY <1>1, <1>3, <1>4, <1>5, <1>6 DEF AuditInv

(* Whoever answers, and with every judge, summary model and fault: nothing *)
(* moves a run past a gate without an entry in the audit trail, humans'    *)
(* answers stand under the gate they were given at, superseded verdicts    *)
(* behind the answer that overtook them, and what is being resumed is what *)
(* the last answer says.                                                   *)
THEOREM AuditTrailIsComplete == Spec => []EveryAnswerRecorded
<1>1. IInv /\ AuditInv /\ [Next]_vars => AuditInv'
  BY AuditNext, QuietKeepsAudit, ReturnedKeepsAudit, OvertakenKeepsAudit,
     AnsweringKeepsAudit DEF AuditStep
<1>2. IInv /\ AuditInv => EveryAnswerRecorded
  <2> SUFFICES ASSUME IInv, AuditInv PROVE EveryAnswerRecorded
    OBVIOUS
  <2> DEFINE G == {g \in Gates : engine.resumed[g] > 0}
  <2>1. /\ record.suspendedStep \in 0..NumGates
        /\ AwaitsApproval => record.suspendedStep \in Gates
        /\ engine.resumed \in [Gates -> Nat]
    BY DEF IInv, TypeOK, RunRecord, Engine
  <2>2. Answers \in Nat /\ Answers <= NumGates
    BY <2>1, ConstantsAssumption DEF Answers, Gates
  <2>3. \A g \in Gates : engine.resumed[g] > 0 <=> g <= Answers
    <3>1. \A g \in Gates : g <= Answers => engine.resumed[g] > 0
      BY DEF AuditInv
    <3>2. /\ \A g \in Gates : g > record.suspendedStep => engine.resumed[g] = 0
          /\ AwaitsApproval => engine.resumed[record.suspendedStep] = 0
      BY DEF IInv
    <3>3. \A g \in Gates : ~(g <= Answers) =>
            g > record.suspendedStep \/ (AwaitsApproval /\ g = record.suspendedStep)
      BY <2>1, ConstantsAssumption DEF Answers, Gates
    <3>4. \A g \in Gates : ~(g <= Answers) => engine.resumed[g] = 0
      BY <3>2, <3>3
    <3>5. QED BY <3>1, <3>4
  <2>4. G = 1..Answers
    BY <2>2, <2>3, ConstantsAssumption DEF Gates
  <2>5. Cardinality(1..Answers) = Answers
    BY <2>2, FS_Interval
  <2>6. QED BY <2>4, <2>5 DEF AuditInv, EveryAnswerRecorded
<1>3. QED BY <1>1, <1>2, AuditInit, InitInv, NextInv, PTL DEF Spec
-----------------------------------------------------------------------------
(* A run reported as running is being worked on.                           *)

(* RunningIsDriven is not inductive: a call may only come back empty-      *)
(* handed, leaving its run "running", when the run was aborted, and an     *)
(* aborted run is no longer reported as running.                           *)
DrivenInv ==
  /\ \A c, d \in engine.calls : c = d
  /\ record.status = "awaiting_approval" => engine.calls = {}
  /\ record.status = "running" => engine.calls # {}
  /\ record.cancelled => record.status \notin {"running", "awaiting_approval"}
  /\ engine.aborted => record.cancelled

(* An answer of the engine takes a run out of "running".                   *)
LEMMA AnswerKeepsDriven ==
  ASSUME DrivenInv, engine'.calls = {}, engine'.aborted = engine.aborted,
         record'.cancelled = record.cancelled, record'.status # "running",
         record.cancelled => record'.status # "awaiting_approval"
  PROVE  DrivenInv'
BY DEF DrivenInv

(* A step that asks the engine for nothing and moves the run nowhere.      *)
LEMMA PlaceKeepsDriven ==
  ASSUME DrivenInv, SamePlace(record, record'),
         engine'.calls = engine.calls, engine'.aborted = engine.aborted
  PROVE  DrivenInv'
BY DEF DrivenInv, SamePlace

(* A resume of a run that waits.                                           *)
LEMMA ResumeKeepsDriven ==
  ASSUME IInv, DrivenInv, NEW by, NEW ok, Resume(by, ok), AwaitsApproval,
         \/ record'.status = "running" /\ record'.cancelled = record.cancelled
         \/ record'.status = "cancelled"
  PROVE  DrivenInv'
<1>1. engine \in Engine
  BY DEF IInv, TypeOK
<1>2. engine'.calls = {[by |-> by, approved |-> ok]}
  BY <1>1, ResumeLemma DEF DrivenInv, AwaitsApproval
<1>3. engine'.aborted = engine.aborted
  BY <1>1 DEF Resume, Engine
<1>4. ~record.cancelled
  BY DEF DrivenInv, AwaitsApproval
<1>5. QED BY <1>2, <1>3, <1>4 DEF DrivenInv

LEMMA DrivenInit == Init => DrivenInv
<1> SUFFICES ASSUME Init PROVE DrivenInv
  OBVIOUS
<1>1. /\ record.status = "running"
      /\ ~record.cancelled
      /\ engine.calls = {[by |-> "start", approved |-> TRUE]}
      /\ ~engine.aborted
  BY DEF Init
<1>2. QED BY <1>1 DEF DrivenInv

LEMMA DrivenStep ==
  ASSUME Faults \cap {"throw", "nopath"} = {}, IInv, DrivenInv, [Next]_vars
  PROVE  DrivenInv'
<1>1. record \in RunRecord /\ engine \in Engine
  BY DEF IInv, TypeOK
<1>2. ASSUME NEW call, NEW outcome \in Outcomes(call)
      PROVE  LET a == ApplyWorkflowResult(record, outcome)
             IN  \A q \in {AfterSettlement(a), AfterApproval(a), Cancelled(a)} :
                   /\ q.cancelled = record.cancelled
                   /\ q.status # "running"
                   /\ record.cancelled => q.status # "awaiting_approval"
  <2> DEFINE a == ApplyWorkflowResult(record, outcome)
  <2>1. Lands(record, outcome, a)
    BY <1>1, <1>2, OutcomeLemma, ApplyLemma
  <2>2. outcome = "suspended" => record.suspendedStep < NumGates
    BY <1>2, OutcomeLemma
  <2> HIDE DEF a
  <2>3. /\ a \in RunRecord
        /\ a.cancelled = record.cancelled
        /\ a.status # "running"
        /\ record.cancelled => a.status # "awaiting_approval"
    BY <2>1 DEF Lands
  <2>4. a.status = "awaiting_approval" => a.suspendedStep \in Gates
    <3>1. record.suspendedStep \in 0..NumGates
      BY <1>1 DEF RunRecord
    <3>2. a.status = "awaiting_approval" =>
            /\ a.suspendedStep = record.suspendedStep + 1
            /\ record.suspendedStep < NumGates
      BY <2>1, <2>2 DEF Lands
    <3>3. QED BY <3>1, <3>2, ConstantsAssumption DEF Gates
  <2>5. /\ SamePlace(a, AfterSettlement(a))
        /\ SamePlace(a, AfterApproval(a))
        /\ SamePlace(a, Cancelled(a))
    BY <2>3, <2>4, AfterSettlementLemma, AfterApprovalLemma, CancelledLemma
  <2>6. QED BY <2>3, <2>5 DEF a, SamePlace
<1>3. /\ Fail(record).status = "failed"
      /\ Fail(record).cancelled = record.cancelled
      /\ SamePlace(record, Cancelled(record))
  BY <1>1, FailLemma, CancelledLemma
<1>4. CASE EngineReturns
  <2>1. PICK call \in engine.calls : \E outcome \in Outcomes(call) :
          /\ Answered(call)
          /\ \/ record' \in {AfterSettlement(ApplyWorkflowResult(record, outcome)),
                             AfterApproval(ApplyWorkflowResult(record, outcome)),
                             Cancelled(ApplyWorkflowResult(record, outcome))}
             \/ record' \in {record, Cancelled(record)} /\ Throws(outcome)
             \/ record' = Fail(record)
    <3>1. CASE StartReturns
      BY <3>1 DEF StartReturns
    <3>2. CASE ApproveReturns
      BY <3>2 DEF ApproveReturns
    <3>3. CASE CancelResumeReturns
      BY <3>3 DEF CancelResumeReturns
    <3>4. CASE JudgeResumeReturns
      BY <3>4 DEF JudgeResumeReturns
    <3>5. QED BY <1>4, <3>1, <3>2, <3>3, <3>4 DEF EngineReturns
  <2>2. PICK outcome \in Outcomes(call) :
          \/ record' \in {AfterSettlement(ApplyWorkflowResult(record, outcome)),
                          AfterApproval(ApplyWorkflowResult(record, outcome)),
                          Cancelled(ApplyWorkflowResult(record, outcome))}
          \/ record' \in {record, Cancelled(record)} /\ Throws(outcome)
          \/ record' = Fail(record)
    BY <2>1
  <2>3. Throws(outcome) => engine.aborted
    BY DEF Throws, Outcomes
  <2>4. /\ record'.cancelled = record.cancelled
        /\ record'.status # "running"
        /\ record.cancelled => record'.status # "awaiting_approval"
    BY <1>2, <1>3, <2>2, <2>3 DEF DrivenInv, SamePlace
  <2>5. engine'.calls = {} /\ engine'.aborted = engine.aborted
    BY <1>1, <2>1 DEF Answered, Engine, DrivenInv
  <2>6. QED BY <2>4, <2>5, AnswerKeepsDriven
<1>5. CASE AbortReturns
  <2>1. SamePlace(record, record')
    BY <1>3, <1>5 DEF AbortReturns, CancelAbortReturns, CancelAbortFails, SamePlace
  <2>2. engine'.calls = engine.calls /\ engine'.aborted = engine.aborted
    BY <1>1, <1>5 DEF AbortReturns, CancelAbortReturns, CancelAbortFails, Engine
  <2>3. QED BY <2>1, <2>2, PlaceKeepsDriven
<1>6. ASSUME NEW ok \in BOOLEAN, Approve(ok) PROVE DrivenInv'
  <2>1. record'.status = "running" /\ record'.cancelled = record.cancelled
    BY <1>1, <1>6 DEF Approve, RunRecord
  <2>2. QED BY <1>6, <2>1, ResumeKeepsDriven DEF Approve
<1>7. CASE CancelAtGate
  <2>1. record'.status = "cancelled"
    BY <1>1, <1>7 DEF CancelAtGate, RunRecord
  <2>2. QED BY <1>7, <2>1, ResumeKeepsDriven DEF CancelAtGate
<1>8. CASE CancelRunning
  <2>1. record'.status = "cancelled" /\ record'.cancelled
    BY <1>1, <1>8 DEF CancelRunning, RunRecord
  <2>2. engine'.calls = engine.calls
    BY <1>1, <1>8 DEF CancelRunning, Engine
  <2>3. QED BY <2>1, <2>2 DEF DrivenInv
<1>9. ASSUME NEW g \in Gates, NEW ok \in BOOLEAN, JudgeDecides(g, ok)
      PROVE  DrivenInv'
  <2>1. CASE TooLate
    <3>1. /\ record'.status = record.status
          /\ record'.cancelled = record.cancelled
          /\ engine' = engine
      BY <1>1, <1>9, <2>1 DEF JudgeDecides, RunRecord
    <3>2. QED BY <3>1 DEF DrivenInv
  <2>2. CASE ~TooLate
    <3>1. record'.status = "running" /\ record'.cancelled = record.cancelled
      BY <1>1, <1>9, <2>2 DEF JudgeDecides, RunRecord
    <3>2. AwaitsApproval /\ Resume("judge", ok)
      BY <1>9, <2>2 DEF JudgeDecides, TooLate, AwaitsApproval
    <3>3. QED BY <3>1, <3>2, ResumeKeepsDriven
  <2>3. QED BY <2>1, <2>2
<1>10. ASSUME NEW g \in Gates, JudgeFails(g) PROVE DrivenInv'
  <2> DEFINE r == [record EXCEPT !.judging = @ \ {g}]
  <2>1. r \in RunRecord /\ SamePlace(record, r)
    BY <1>1 DEF RunRecord, SamePlace
  <2>2. record' = DegradeToManual(r, g) /\ engine' = engine
    BY <1>10 DEF JudgeFails
  <2> HIDE DEF r
  <2>3. g \in 0..NumGates
    BY ConstantsAssumption DEF Gates
  <2>4. SamePlace(r, record')
    BY <2>1, <2>2, <2>3, DegradeLemma
  <2>5. SamePlace(record, record')
    BY <2>1, <2>4 DEF SamePlace
  <2>6. QED BY <2>2, <2>5, PlaceKeepsDriven
<1>11. ASSUME NEW g \in 0..NumGates, SummaryReturns(g) PROVE DrivenInv'
  <2>1. SamePlace(record, record')
    BY <1>11, SummaryReturnsLemma DEF IInv
  <2>2. QED BY <1>11, <2>1, PlaceKeepsDriven DEF SummaryReturns
<1>12. CASE Persist \/ Wait \/ UNCHANGED vars
  <2>1. SamePlace(record, record') /\ engine' = engine
    BY <1>1, <1>12
    DEF Persist, PersistSnapshot, PersistArtifact, PersistManifest, PersistFails,
        LinkDone, Wait, WaiterSettles, WaiterReturns, vars, RunRecord, SamePlace
  <2>2. QED BY <2>1, PlaceKeepsDriven
<1>13. QED
  BY <1>4, <1>5, <1>6, <1>7, <1>8, <1>9, <1>10, <1>11, <1>12
  DEF Next, Human, JudgeReturns

(* Whoever answers, a judge included: the engine works on at most one call *)
(* of a run, a waiting run has none in flight and a running one always has *)
(* one, as long as the engine rejects no call but those of an aborted run  *)
(* and reports the path of every suspension.  (A resume it does reject     *)
(* leaves the run of approve() reported as running.)                       *)
THEOREM RunningHasAnActor ==
  Faults \cap {"throw", "nopath"} = {} => (Spec => []RunningIsDriven)
<1> SUFFICES ASSUME Faults \cap {"throw", "nopath"} = {}
             PROVE  Spec => []RunningIsDriven
  OBVIOUS
<1>1. Init => DrivenInv
  BY DrivenInit
<1>2. IInv /\ DrivenInv /\ [Next]_vars => DrivenInv'
  BY DrivenStep
<1>3. DrivenInv => RunningIsDriven
  <2> SUFFICES ASSUME DrivenInv PROVE Cardinality(engine.calls) <= 1
    BY DEF DrivenInv, RunningIsDriven
  <2>1. CASE engine.calls = {}
    BY <2>1, FS_EmptySet
  <2>2. CASE engine.calls # {}
    <3>1. PICK c : engine.calls = {c}
      BY <2>2 DEF DrivenInv
    <3>2. QED BY <3>1, FS_Singleton
  <2>3. QED BY <2>1, <2>2
<1>4. QED BY <1>1, <1>2, <1>3, InitInv, NextInv, PTL DEF Spec
-----------------------------------------------------------------------------
(* Without a judge: the refinement of RunLifecycle, and sticky cancelling. *)

(* With no judge, the one engine call in flight belongs to a run that      *)
(* executes or was cancelled, so its answer finds no gate to speak for and *)
(* no other end to overwrite.                                              *)
HumanInv ==
  /\ record.judging = {}
  /\ \A call \in engine.calls : call.by # "judge"
  /\ \A c, d \in engine.calls : c = d
  /\ record.status \notin {"running", "cancelled"} => engine.calls = {}
  /\ record.cancelled <=> record.status = "cancelled"
  /\ engine.cancelling => record.cancelled
  /\ \A call \in engine.calls : call.by = "cancel" => record.cancelled

(* What an answer of the engine, or the end of cancel(), makes of r.       *)
Reported(r, q) ==
  /\ q \in RunRecord
  /\ q.judging = {}
  /\ q.cancelled = r.cancelled
  /\ SettlesOnceWith(r, q, q.status)
  /\ \/ /\ q.status = r.status
        /\ q.suspendedStep = r.suspendedStep
        /\ q.settled # r.settled => r.cancelled
     \/ /\ ~r.cancelled
        /\ q.status = "awaiting_approval"
        /\ q.suspendedStep = r.suspendedStep + 1
        /\ r.suspendedStep < NumGates
     \/ /\ ~r.cancelled
        /\ q.status \in {"succeeded", "rejected", "failed"}
        /\ q.suspendedStep = r.suspendedStep

LifecycleStep == [Lifecycle!Next]_(Lifecycle!vars)

(* Such a step keeps the invariant and is one the lifecycle allows.        *)
LEMMA ReportedStep ==
  ASSUME HumanInv, TypeOK, Reported(record, record'),
         engine'.calls = {},
         engine'.cancelling => engine.cancelling,
         engine.calls # {} \/ record.cancelled
  PROVE  HumanInv' /\ LifecycleStep
<1>1. record.status \in {"running", "cancelled"}
  BY DEF HumanInv
<1>2. HumanInv'
  BY <1>1 DEF HumanInv, Reported
<1>3. LifecycleStep
  <2>1. CASE record.cancelled
    <3>1. record.status = "cancelled"
      BY <2>1 DEF HumanInv
    <3>2. QED
      BY <2>1, <3>1
      DEF Reported, SettlesOnceWith, LifecycleStep, Lifecycle!Next,
          Lifecycle!SettleLater, Lifecycle!MaySettle
  <2>2. CASE ~record.cancelled
    <3>1. record.status = "running"
      BY <1>1, <2>2 DEF HumanInv
    <3>2. QED
      BY <2>2, <3>1
      DEF Reported, SettlesOnceWith, LifecycleStep, Lifecycle!Next,
          Lifecycle!Suspend, Lifecycle!Finish, Lifecycle!MaySettle,
          Lifecycle!Open, Lifecycle!Terminal, Lifecycle!vars
  <2>3. QED BY <2>1, <2>2
<1>4. QED BY <1>2, <1>3

(* What is made of an engine answer, when no judge is dispatched.          *)
LEMMA ReportedLemma ==
  ASSUME ~JudgeDeps, TypeOK, HumanInv, NEW call, NEW outcome \in Outcomes(call)
  PROVE  LET a == ApplyWorkflowResult(record, outcome)
         IN  /\ Reported(record, AfterSettlement(a))
             /\ Reported(record, AfterApproval(a))
             /\ record.cancelled => Reported(record, Cancelled(a))
<1> DEFINE a == ApplyWorkflowResult(record, outcome)
<1>1. record \in RunRecord
  BY DEF TypeOK
<1>2. /\ outcome \in Outcome
      /\ outcome = "suspended" => record.suspendedStep < NumGates
  BY OutcomeLemma
<1>3. Lands(record, outcome, a)
  BY <1>1, <1>2, ApplyLemma
<1> HIDE DEF a
<1>4. a \in RunRecord /\ a.judging = {}
  BY <1>3 DEF Lands, HumanInv
<1>5. a.status = "awaiting_approval" => a.suspendedStep \in Gates
  <2>1. record.suspendedStep \in 0..NumGates
    BY <1>1 DEF RunRecord
  <2>2. QED BY <1>2, <1>3, <2>1, ConstantsAssumption DEF Lands, Gates
<1>6. record.cancelled => record.status = "cancelled"
  BY DEF HumanInv
<1>7. Reported(record, AfterSettlement(a))
  <2>1. /\ AfterSettlement(a) \in RunRecord
        /\ SamePlace(a, AfterSettlement(a))
        /\ SettlesOnceWith(a, AfterSettlement(a), a.status)
        /\ AfterSettlement(a).judging = a.judging
    BY <1>4, <1>5, AfterSettlementLemma
  <2>2. QED
    BY <1>2, <1>3, <1>4, <1>6, <2>1
    DEF Lands, SamePlace, SettlesOnceWith, Reported
<1>8. Reported(record, AfterApproval(a))
  <2>1. /\ AfterApproval(a) \in RunRecord
        /\ SamePlace(a, AfterApproval(a))
        /\ SettlesOnceWith(a, AfterApproval(a), a.status)
        /\ AfterApproval(a).judging = a.judging
    BY <1>4, <1>5, AfterApprovalLemma
  <2>2. QED
    BY <1>2, <1>3, <1>4, <1>6, <2>1
    DEF Lands, SamePlace, SettlesOnceWith, Reported
<1>9. ASSUME record.cancelled PROVE Reported(record, Cancelled(a))
  <2>1. /\ Cancelled(a) \in RunRecord
        /\ SamePlace(a, Cancelled(a))
        /\ SettlesOnceWith(a, Cancelled(a), "cancelled")
        /\ Cancelled(a).judging = a.judging
    BY <1>4, CancelledLemma
  <2>2. QED
    BY <1>2, <1>3, <1>4, <1>6, <1>9, <2>1
    DEF Lands, SamePlace, SettlesOnceWith, Reported
<1>10. QED BY <1>7, <1>8, <1>9 DEF a

(* One step of a service without a judge.                                  *)
LEMMA HumanStep ==
  ASSUME ~JudgeDeps, TypeOK, HumanInv, [Next]_vars
  PROVE  HumanInv' /\ LifecycleStep
<1> USE DEF vars
<1>1. record \in RunRecord /\ engine \in Engine
  BY DEF TypeOK
<1>2. /\ Reported(record, record)
      /\ ~record.cancelled => Reported(record, Fail(record))
      /\ record.cancelled => Reported(record, Cancelled(record))
  BY <1>1, FailLemma, CancelledLemma
  DEF HumanInv, Reported, SamePlace, SettlesOnceWith
<1>3. CASE EngineReturns
  <2>1. PICK call \in engine.calls : \E outcome \in Outcomes(call) :
          /\ Answered(call)
          /\ \/ record' = AfterSettlement(ApplyWorkflowResult(record, outcome))
             \/ record' = AfterApproval(ApplyWorkflowResult(record, outcome))
             \/ /\ record.cancelled
                /\ record' = Cancelled(ApplyWorkflowResult(record, outcome))
             \/ record' = record
             \/ ~record.cancelled /\ record' = Fail(record)
             \/ record.cancelled /\ record' = Cancelled(record)
    <3>1. CASE StartReturns
      BY <3>1 DEF StartReturns
    <3>2. CASE ApproveReturns
      BY <3>2 DEF ApproveReturns
    <3>3. CASE CancelResumeReturns
      BY <3>3 DEF CancelResumeReturns, HumanInv
    <3>4. ~JudgeResumeReturns
      BY DEF JudgeResumeReturns, HumanInv
    <3>5. QED BY <1>3, <3>1, <3>2, <3>3, <3>4 DEF EngineReturns
  <2>2. Reported(record, record')
    BY <1>2, <2>1, ReportedLemma
  <2>3. engine'.calls = {} /\ engine'.cancelling = engine.cancelling
    BY <1>1, <2>1 DEF Answered, HumanInv, Engine
  <2>4. QED BY <2>1, <2>2, <2>3, ReportedStep
<1>4. CASE AbortReturns
  <2>1. record.cancelled /\ Reported(record, record')
    BY <1>2, <1>4 DEF AbortReturns, CancelAbortReturns, CancelAbortFails, HumanInv
  <2>2. engine'.calls = engine.calls /\ ~engine'.cancelling
    BY <1>1, <1>4 DEF AbortReturns, CancelAbortReturns, CancelAbortFails, Engine
  <2>3. record.status = "cancelled"
    BY <2>1 DEF HumanInv
  <2>4. HumanInv'
    BY <2>1, <2>2, <2>3 DEF HumanInv, Reported
  <2>5. LifecycleStep
    BY <2>1, <2>3
    DEF Reported, SettlesOnceWith, LifecycleStep, Lifecycle!Next,
        Lifecycle!SettleLater, Lifecycle!MaySettle
  <2>6. QED BY <2>4, <2>5
<1>5. CASE \E ok \in BOOLEAN : Approve(ok)
  <2>1. PICK ok \in BOOLEAN : Approve(ok)
    BY <1>5
  <2>2. /\ record.status = "awaiting_approval"
        /\ record'.status = "running"
        /\ record'.judging = record.judging
        /\ record'.cancelled = record.cancelled
        /\ record'.suspendedStep = record.suspendedStep
        /\ record'.settled = record.settled
    BY <1>1, <2>1 DEF Approve, AwaitsApproval, RunRecord
  <2>3. /\ engine'.calls = engine.calls \cup {[by |-> "human", approved |-> ok]}
        /\ engine'.cancelling = engine.cancelling
    BY <1>1, <2>1, ResumeLemma DEF Approve
  <2>4. HumanInv'
    BY <2>2, <2>3 DEF HumanInv
  <2>5. LifecycleStep
    BY <2>2 DEF LifecycleStep, Lifecycle!Next, Lifecycle!Answer
  <2>6. QED BY <2>4, <2>5
<1>6. CASE CancelAtGate
  <2>1. /\ record.status = "awaiting_approval"
        /\ record'.status = "cancelled"
        /\ record'.judging = record.judging
        /\ record'.cancelled = TRUE
        /\ record'.suspendedStep = record.suspendedStep
        /\ record'.settled = record.settled
    BY <1>1, <1>6 DEF CancelAtGate, AwaitsApproval, RunRecord
  <2>2. /\ engine'.calls = engine.calls \cup {[by |-> "cancel", approved |-> FALSE]}
        /\ engine'.cancelling = engine.cancelling
    BY <1>1, <1>6, ResumeLemma DEF CancelAtGate
  <2>3. HumanInv'
    <3>1. engine'.calls = {[by |-> "cancel", approved |-> FALSE]}
      BY <2>1, <2>2 DEF HumanInv
    <3>2. record'.judging = {} /\ record'.cancelled
      BY <2>1 DEF HumanInv
    <3>3. QED BY <2>1, <3>1, <3>2 DEF HumanInv
  <2>4. LifecycleStep
    BY <2>1
    DEF LifecycleStep, Lifecycle!Next, Lifecycle!Finish, Lifecycle!MaySettle,
        Lifecycle!Open, Lifecycle!Terminal
  <2>5. QED BY <2>3, <2>4
<1>7. CASE CancelRunning
  <2>1. /\ record.status = "running"
        /\ record'.status = "cancelled"
        /\ record'.judging = record.judging
        /\ record'.cancelled = TRUE
        /\ record'.suspendedStep = record.suspendedStep
        /\ record'.settled = record.settled
    BY <1>1, <1>7 DEF CancelRunning, RunRecord
  <2>2. engine'.calls = engine.calls
    BY <1>1, <1>7 DEF CancelRunning, Engine
  <2>3. HumanInv'
    BY <2>1, <2>2 DEF HumanInv
  <2>4. LifecycleStep
    BY <2>1
    DEF LifecycleStep, Lifecycle!Next, Lifecycle!Finish, Lifecycle!MaySettle,
        Lifecycle!Open, Lifecycle!Terminal
  <2>5. QED BY <2>3, <2>4
<1>8. ASSUME NEW g \in Gates PROVE ~JudgeReturns(g)
  BY DEF JudgeReturns, JudgeFails, JudgeDecides, HumanInv
<1>9. ASSUME \/ \E g \in 0..NumGates : SummaryReturns(g)
             \/ Persist
             \/ Wait
             \/ UNCHANGED vars
      PROVE  HumanInv' /\ LifecycleStep
  <2>1. /\ record'.status = record.status
        /\ record'.judging = record.judging
        /\ record'.cancelled = record.cancelled
        /\ record'.suspendedStep = record.suspendedStep
        /\ record'.settled = record.settled
        /\ engine' = engine
    <3>1. CASE \E g \in 0..NumGates : SummaryReturns(g)
      BY <3>1, SummaryReturnsLemma DEF SummaryReturns, SamePlace
    <3>2. CASE Persist
      BY <1>1, <3>2 DEF Persist, PersistSnapshot, PersistArtifact,
                        PersistManifest, PersistFails, LinkDone, RunRecord
    <3>3. CASE Wait
      BY <3>3 DEF Wait, WaiterSettles, WaiterReturns
    <3>4. QED BY <1>9, <3>1, <3>2, <3>3
  <2>2. HumanInv'
    BY <2>1 DEF HumanInv
  <2>3. LifecycleStep
    BY <2>1 DEF LifecycleStep, Lifecycle!vars
  <2>4. QED BY <2>2, <2>3
<1>10. QED
  BY <1>3, <1>4, <1>5, <1>6, <1>7, <1>8, <1>9 DEF Next, Human

LEMMA HumanInit == Init => HumanInv /\ Lifecycle!Init
<1> SUFFICES ASSUME Init PROVE HumanInv /\ Lifecycle!Init
  OBVIOUS
<1>1. HumanInv
  <2>1. /\ record.judging = {}
        /\ record.status = "running"
        /\ ~record.cancelled
    BY DEF Init
  <2>2. engine.calls = {[by |-> "start", approved |-> TRUE]} /\ ~engine.cancelling
    BY DEF Init
  <2>3. QED BY <2>1, <2>2 DEF HumanInv
<1>2. Lifecycle!Init
  BY DEF Init, Lifecycle!Init, NoGate
<1>3. QED BY <1>1, <1>2

(* Without a judge the service implements RunLifecycle: an ended run is    *)
(* never revived or relabelled, and its starter is told once, and rightly, *)
(* how it stands, under any fault of the engine, of cancelling or of disk. *)
THEOREM ImplementsLifecycle == ~JudgeDeps => (Spec => LifecycleSpec)
<1> SUFFICES ASSUME ~JudgeDeps PROVE Spec => LifecycleSpec
  OBVIOUS
<1>1. Init => HumanInv /\ Lifecycle!Init
  BY HumanInit
<1>2. TypeOK /\ HumanInv /\ [Next]_vars => HumanInv' /\ LifecycleStep
  BY HumanStep
<1>3. QED BY <1>1, <1>2, TypeCorrect, PTL
          DEF Spec, LifecycleSpec, Lifecycle!Spec, LifecycleStep

(* Without a judge no late answer of an aborted engine call, and no throw, *)
(* takes a cancelled run out of its status.                                *)
THEOREM CancellationIsFinal == ~JudgeDeps => (Spec => []CancelIsSticky)
<1> SUFFICES ASSUME ~JudgeDeps PROVE Spec => []CancelIsSticky
  OBVIOUS
<1>1. Init => HumanInv
  BY HumanInit
<1>2. TypeOK /\ HumanInv /\ [Next]_vars => HumanInv'
  BY HumanStep
<1>3. HumanInv => CancelIsSticky
  BY DEF HumanInv, CancelIsSticky
<1>4. QED BY <1>1, <1>2, <1>3, TypeCorrect, PTL DEF Spec
-----------------------------------------------------------------------------
(* What a caller saw settle is on disk.                                    *)

(* Once k more links of the write chain are done, artifact and manifest    *)
(* hold the status of the record: the link at work when none or one is     *)
(* left began after the run ended.                                         *)
DoneAfter(k) ==
  /\ k = 0 => disk.artifact = record.status /\ disk.manifest = record.status
  /\ k <= 1 /\ disk.phase = "artifact" => disk.snapshot = record.status
  /\ k <= 1 /\ disk.phase = "manifest" =>
       disk.artifact = record.status /\ disk.entry = record.status

(* A settled end is the status the record keeps, the writes begun by then  *)
(* publish it, and so do those among them that the waiter waits for.       *)
DurableInv ==
  /\ record.settled \in Terminal =>
       record.settled = record.status /\ DoneAfter(record.persists)
  /\ waiter.phase # "waiting" =>
       /\ waiter.result = record.settled
       /\ waiter.result # "pending"
       /\ waiter.links <= record.persists
       /\ record.settled \in Terminal => DoneAfter(waiter.links)
  /\ waiter.phase = "returned" => waiter.links = 0

(* A step of the service proper announces an end only with a write begun.  *)
AnnouncesWithWrite ==
  /\ UNCHANGED <<disk, waiter>>
  /\ \/ record'.persists = record.persists + 1
     \/ record'.persists = record.persists /\ record'.settled = record.settled

LEMMA AnnounceStep ==
  ASSUME ~JudgeDeps, Faults \cap {"throw", "nopath"} = {},
         IInv, HumanInv, DrivenInv,
         \/ Human \/ EngineReturns \/ AbortReturns
         \/ \E g \in Gates : JudgeReturns(g)
         \/ \E g \in 0..NumGates : SummaryReturns(g)
  PROVE  AnnouncesWithWrite
<1>1. record \in RunRecord /\ engine \in Engine
  BY DEF IInv, TypeOK
<1>2. ASSUME NEW call, NEW outcome \in Outcomes(call)
      PROVE  LET a == ApplyWorkflowResult(record, outcome)
             IN  \A q \in {AfterSettlement(a), AfterApproval(a), Cancelled(a)} :
                   q.persists = record.persists + 1
  <2> DEFINE a == ApplyWorkflowResult(record, outcome)
  <2>1. Lands(record, outcome, a)
    BY <1>1, <1>2, OutcomeLemma, ApplyLemma
  <2>2. outcome = "suspended" => record.suspendedStep < NumGates
    BY <1>2, OutcomeLemma
  <2> HIDE DEF a
  <2>3. a \in RunRecord /\ a.persists = record.persists
    BY <2>1 DEF Lands
  <2>4. a.status = "awaiting_approval" => a.suspendedStep \in Gates
    <3>1. record.suspendedStep \in 0..NumGates
      BY <1>1 DEF RunRecord
    <3>2. record.cancelled => a.status = "cancelled"
      BY <2>1 DEF Lands
    <3>3. a.status = "awaiting_approval" =>
            /\ a.suspendedStep = record.suspendedStep + 1
            /\ record.suspendedStep < NumGates
      BY <2>1, <2>2, <3>2 DEF Lands
    <3>4. QED BY <3>1, <3>3, ConstantsAssumption DEF Gates
  <2>5. /\ AfterSettlement(a).persists = a.persists + 1
        /\ AfterApproval(a).persists = a.persists + 1
        /\ Cancelled(a).persists = a.persists + 1
    BY <2>3, <2>4, AfterSettlementLemma, AfterApprovalLemma, CancelledLemma
  <2>6. QED BY <2>3, <2>5 DEF a
<1>3. Cancelled(record).persists = record.persists + 1
  BY <1>1, CancelledLemma
<1>4. CASE EngineReturns
  <2>1. PICK call \in engine.calls : \E outcome \in Outcomes(call) :
          /\ UNCHANGED <<disk, waiter>>
          /\ \/ record' \in {AfterSettlement(ApplyWorkflowResult(record, outcome)),
                             AfterApproval(ApplyWorkflowResult(record, outcome)),
                             Cancelled(ApplyWorkflowResult(record, outcome))}
             \/ record' \in {record, Cancelled(record)}
             \/ Throws(outcome) /\ ~record.cancelled
    <3>1. CASE StartReturns
      BY <3>1 DEF StartReturns
    <3>2. CASE ApproveReturns
      BY <3>2 DEF ApproveReturns
    <3>3. CASE CancelResumeReturns
      BY <3>3 DEF CancelResumeReturns
    <3>4. ~JudgeResumeReturns
      BY DEF JudgeResumeReturns, HumanInv
    <3>5. QED BY <1>4, <3>1, <3>2, <3>3, <3>4 DEF EngineReturns
  <2>2. PICK outcome \in Outcomes(call) :
          /\ UNCHANGED <<disk, waiter>>
          /\ \/ record' \in {AfterSettlement(ApplyWorkflowResult(record, outcome)),
                             AfterApproval(ApplyWorkflowResult(record, outcome)),
                             Cancelled(ApplyWorkflowResult(record, outcome))}
             \/ record' \in {record, Cancelled(record)}
             \/ Throws(outcome) /\ ~record.cancelled
    BY <2>1
  <2>3. Throws(outcome) => record.cancelled
    BY DEF Throws, Outcomes, DrivenInv
  <2>4. QED BY <1>2, <1>3, <2>2, <2>3 DEF AnnouncesWithWrite
<1>5. CASE AbortReturns
  BY <1>3, <1>5 DEF AbortReturns, CancelAbortReturns, CancelAbortFails,
                    AnnouncesWithWrite
<1>6. CASE Human
  BY <1>1, <1>6 DEF Human, Approve, CancelAtGate, CancelRunning, RunRecord,
                    AnnouncesWithWrite
<1>7. ASSUME NEW g \in Gates PROVE ~JudgeReturns(g)
  BY DEF JudgeReturns, JudgeFails, JudgeDecides, HumanInv
<1>8. ASSUME NEW g \in 0..NumGates, SummaryReturns(g) PROVE AnnouncesWithWrite
  BY <1>8, SummaryReturnsLemma DEF IInv, SummaryReturns, AnnouncesWithWrite
<1>9. QED BY <1>4, <1>5, <1>6, <1>7, <1>8

(* An ended run that was announced stays as it was announced.              *)
LEMMA SettledStays ==
  ASSUME LifecycleStep, DurableInv
  PROVE  /\ record.settled \in Terminal =>
              record'.settled = record.settled /\ record'.status = record.status
         /\ record.settled # "pending" => record'.settled = record.settled
         /\ record'.settled \in Terminal => record'.settled = record'.status
BY DEF LifecycleStep, DurableInv, Terminal, Lifecycle!Next, Lifecycle!Suspend,
       Lifecycle!Answer, Lifecycle!Finish, Lifecycle!SettleLater,
       Lifecycle!MaySettle, Lifecycle!Open, Lifecycle!Terminal, Lifecycle!vars

LEMMA DurableAnnounce ==
  ASSUME IInv, DurableInv, LifecycleStep, AnnouncesWithWrite
  PROVE  DurableInv'
<1>1. record.persists \in Nat /\ waiter.links \in Nat
  BY DEF IInv, TypeOK, RunRecord, Waiter
<1>2. record'.persists \in Nat /\ record'.persists >= record.persists
  BY <1>1 DEF AnnouncesWithWrite
<1>3. CASE record.settled \in Terminal
  <2>1. record'.settled = record.settled /\ record'.status = record.status
    BY <1>3, SettledStays
  <2>2. DoneAfter(record.persists)'
    BY <1>1, <1>2, <1>3, <2>1 DEF DurableInv, DoneAfter, AnnouncesWithWrite
  <2>3. waiter'.phase # "waiting" => DoneAfter(waiter.links)'
    BY <1>3, <2>1 DEF DurableInv, DoneAfter, AnnouncesWithWrite
  <2>4. QED
    BY <1>1, <1>2, <1>3, <2>1, <2>2, <2>3 DEF DurableInv, AnnouncesWithWrite
<1>4. CASE record.settled = "pending"
  <2>1. waiter.phase = "waiting"
    BY <1>4 DEF DurableInv
  <2>2. ASSUME record'.settled \in Terminal PROVE DoneAfter(record.persists)'
    <3>1. record'.persists = record.persists + 1
      BY <1>4, <2>2 DEF AnnouncesWithWrite, Terminal
    <3>2. disk.phase # "idle" => record.persists > 0
      BY DEF IInv
    <3>3. QED BY <1>1, <3>1, <3>2 DEF DoneAfter, AnnouncesWithWrite
  <2>3. QED BY <2>1, <2>2, SettledStays DEF DurableInv, AnnouncesWithWrite
<1>5. CASE record.settled \notin Terminal \cup {"pending"}
  <2>1. record'.settled = record.settled
    BY <1>5, SettledStays
  <2>2. QED BY <1>1, <1>2, <1>5, <2>1 DEF DurableInv, AnnouncesWithWrite
<1>6. QED BY <1>3, <1>4, <1>5

(* A step of the artifact writer.                                          *)
LEMMA DurablePersist ==
  ASSUME "disk" \notin Faults, IInv, DurableInv, Persist
  PROVE  DurableInv'
<1>1. /\ record \in RunRecord /\ disk \in Disk /\ waiter \in Waiter
      /\ record.persists \in Nat /\ waiter.links \in Nat
  BY DEF IInv, TypeOK, RunRecord, Waiter
<1>2. CASE PersistSnapshot
  <2>1. /\ disk'.phase = "artifact" /\ disk'.snapshot = record.status
        /\ disk'.artifact = disk.artifact /\ disk'.manifest = disk.manifest
        /\ UNCHANGED <<record, waiter>>
    BY <1>1, <1>2 DEF PersistSnapshot, Disk
  <2>2. QED BY <2>1 DEF DurableInv, DoneAfter
<1>3. CASE PersistArtifact
  <2>1. /\ disk.phase = "artifact" /\ disk'.phase = "manifest"
        /\ disk'.artifact = disk.snapshot /\ disk'.entry = record.status
        /\ disk'.manifest = disk.manifest
        /\ UNCHANGED <<record, waiter>>
    BY <1>1, <1>3 DEF PersistArtifact, Disk
  <2>2. QED BY <1>1, <2>1 DEF DurableInv, DoneAfter
<1>4. CASE PersistManifest
  <2>1. /\ disk.phase = "manifest" /\ disk'.phase = "idle"
        /\ disk'.artifact = disk.artifact /\ disk'.manifest = disk.entry
        /\ record'.persists = record.persists - 1
        /\ record'.status = record.status /\ record'.settled = record.settled
        /\ waiter'.links = IF waiter.links > 0 THEN waiter.links - 1 ELSE 0
        /\ waiter'.phase = waiter.phase /\ waiter'.result = waiter.result
    BY <1>1, <1>4 DEF PersistManifest, LinkDone, Disk, RunRecord, Waiter
  <2>2. record.persists > 0
    BY <2>1 DEF IInv
  <2>3. ASSUME NEW k \in Nat, DoneAfter(k)
        PROVE  /\ disk.entry = record.status /\ disk.artifact = record.status
               \/ k > 1
    BY <2>1, <2>3 DEF DoneAfter
  <2>4. ASSUME record.settled \in Terminal PROVE DoneAfter(record.persists)'
    BY <1>1, <2>1, <2>2, <2>3, <2>4 DEF DurableInv, DoneAfter
  <2>5. ASSUME record.settled \in Terminal, waiter.phase # "waiting"
        PROVE  DoneAfter(waiter.links)'
    BY <1>1, <2>1, <2>3, <2>5 DEF DurableInv, DoneAfter
  <2>6. waiter.links <= record.persists => waiter'.links <= record'.persists
    BY <1>1, <2>1, <2>2
  <2>7. QED BY <1>1, <2>1, <2>4, <2>5, <2>6 DEF DurableInv
<1>5. ~PersistFails
  BY DEF PersistFails
<1>6. QED BY <1>2, <1>3, <1>4, <1>5 DEF Persist

(* A step of waitForSettled.                                               *)
LEMMA DurableWait ==
  ASSUME IInv, DurableInv, Wait
  PROVE  DurableInv'
<1>1. record.persists \in Nat /\ waiter \in Waiter
  BY DEF IInv, TypeOK, RunRecord
<1>2. CASE WaiterSettles
  <2>1. /\ waiter'.phase = "persisting" /\ waiter'.links = record.persists
        /\ waiter'.result = record.settled /\ record.settled # "pending"
        /\ UNCHANGED <<record, disk>>
    BY <1>2 DEF WaiterSettles, LinksToAwait
  <2>2. QED BY <1>1, <2>1 DEF DurableInv, DoneAfter
<1>3. CASE WaiterReturns
  <2>1. /\ waiter.phase = "persisting" /\ waiter.links = 0
        /\ waiter'.phase = "returned" /\ waiter'.links = 0
        /\ waiter'.result = waiter.result
        /\ UNCHANGED <<record, disk>>
    BY <1>1, <1>3 DEF WaiterReturns, Waiter
  <2>2. QED BY <2>1 DEF DurableInv, DoneAfter
<1>4. QED BY <1>2, <1>3 DEF Wait

LEMMA DurableStep ==
  ASSUME ~JudgeDeps, Faults \subseteq {"abort"},
         IInv, HumanInv, DrivenInv, DurableInv, [Next]_vars
  PROVE  DurableInv'
<1>1. LifecycleStep
  BY HumanStep DEF IInv
<1>2. CASE Persist
  BY <1>2, DurablePersist
<1>3. CASE Wait
  BY <1>3, DurableWait
<1>4. CASE UNCHANGED vars
  BY <1>4 DEF vars, DurableInv, DoneAfter
<1>5. CASE \/ Human \/ EngineReturns \/ AbortReturns
           \/ \E g \in Gates : JudgeReturns(g)
           \/ \E g \in 0..NumGates : SummaryReturns(g)
  BY <1>1, <1>5, AnnounceStep, DurableAnnounce
<1>6. QED BY <1>2, <1>3, <1>4, <1>5 DEF Next

(* Without a judge, whatever cancel() meets, and as long as the engine     *)
(* rejects nothing of its own and the disk can be written: a caller whom   *)
(* waitForSettled told that the run ended finds that end in the artifact   *)
(* and in the manifest, however the writes and later calls interleave.     *)
THEOREM SettlementIsDurable ==
  ~JudgeDeps /\ Faults \subseteq {"abort"} =>
    (Spec => []ObservedSettlementIsDurable)
<1> SUFFICES ASSUME ~JudgeDeps, Faults \subseteq {"abort"}
             PROVE  Spec => []ObservedSettlementIsDurable
  OBVIOUS
<1>1. Init => HumanInv /\ DrivenInv /\ DurableInv
  <2> SUFFICES ASSUME Init PROVE HumanInv /\ DrivenInv /\ DurableInv
    OBVIOUS
  <2>1. HumanInv
    BY HumanInit
  <2>2. DrivenInv
    BY DrivenInit
  <2>3. record.settled = "pending" /\ waiter.phase = "waiting"
    BY DEF Init
  <2>4. DurableInv
    BY <2>3 DEF DurableInv, Terminal
  <2>5. QED BY <2>1, <2>2, <2>4
<1>2. IInv /\ HumanInv /\ DrivenInv /\ DurableInv /\ [Next]_vars =>
        HumanInv' /\ DrivenInv' /\ DurableInv'
  <2>1. Faults \cap {"throw", "nopath"} = {}
    OBVIOUS
  <2>2. QED BY <2>1, HumanStep, DrivenStep, DurableStep DEF IInv
<1>3. DurableInv => ObservedSettlementIsDurable
  BY DEF DurableInv, ObservedSettlementIsDurable, DoneAfter
<1>4. QED BY <1>1, <1>2, <1>3, InitInv, NextInv, PTL DEF Spec
=============================================================================
