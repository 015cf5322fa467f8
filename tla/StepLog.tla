------------------------------ MODULE StepLog ------------------------------
(***************************************************************************)
(* One events file of a run directory (src/runtime/stepLog.ts), the sinks  *)
(* of the runs that write to it, and those who write: the step builders of *)
(* buildSteps.ts, and runService.ts with its decisions and the terminal    *)
(* lines it writes for the steps a cancellation cuts off.                  *)
(*                                                                         *)
(* Several runs write one file when a stage of a chain is run again in the *)
(* anchor run's directory.  A process may die, a write with it, and the    *)
(* file outlives both.  What an event says, its bounding and the redaction *)
(* of its payload are left out: they decide what a line contains, never    *)
(* whether it is written nor its number.                                   *)
(***************************************************************************)
EXTENDS Naturals, Sequences, FiniteSets

CONSTANTS
  Runs,           \* the runs that write to this file
  Steps,          \* the steps of the pipeline
  MaxEvents,      \* caps.events: the number from which bulk lines are dropped
  MaxBytes,       \* caps.bytes: the size from which bulk lines are dropped
  MaxLines,       \* bound: numbers handed out, and lines in the file
  Shared,         \* two runs may hold the file at the same time
  MayFail         \* the kinds of line whose append may fail

(* One kind stands for the BULK_KINDS.                                    *)
Bulk == {"message"}
Structure == {"step.start", "step.result", "decision", "log.truncated"}
Kind == Bulk \cup Structure

ASSUME StepLogAssumption ==
  /\ {MaxEvents, MaxBytes, MaxLines} \subseteq Nat
  /\ Shared \in BOOLEAN
  /\ MayFail \subseteq Kind

Phase == {"new", "open", "closed", "dead"}

VARIABLES
  log,            \* the events file
  sink,           \* the RunLogEntry of each run
  work,           \* what the builder of each step of a run is doing
  feed            \* numbers notified to the subscriber, not yet delivered

logVars == <<log, sink, work, feed>>

(* whole: the text is one JSON object.  A line that was appended to a torn *)
(* one is not; its last "seq" key is still the number of what was appended.*)
Line == [seq: Nat, kind: Kind, run: Runs, step: Steps, whole: BOOLEAN]

File ==
  [lines: Seq(Line),
   torn: BOOLEAN,                       \* the last line lacks its newline
   bytes: Nat,
   spoiled: BOOLEAN]                    \* history: an append failed or was merged

RunLogEntry ==
  [phase: Phase,                        \* registered iff "open"
   seq: Nat,
   bytes: Nat,
   truncated: BOOLEAN,
   settledSteps: SUBSET Steps,
   listening: BOOLEAN,                  \* an SSE client is subscribed
   cancelled: BOOLEAN,                  \* RunRecord.cancelled
   closing: SUBSET Steps]               \* cancel() has yet to close these out

LogTypeOK ==
  /\ log \in File
  /\ sink \in [Runs -> RunLogEntry]
  /\ work \in [Runs -> [Steps -> {"idle", "running", "done"}]]
  /\ feed \in Seq(Nat)
-----------------------------------------------------------------------------
(* The file.                                                               *)

(* Bulk lines are the long ones.                                           *)
Weight(kind) == IF kind \in Bulk THEN 2 ELSE 1

(* Append one line.  Behind a torn line it becomes a part of that line.    *)
PutLine(file, line) ==
  LET last == Len(file.lines)
      merged == [line EXCEPT !.kind = file.lines[last].kind, !.whole = FALSE]
  IN  [lines   |-> IF file.torn THEN [file.lines EXCEPT ![last] = merged]
                   ELSE Append(file.lines, line),
       torn    |-> FALSE,
       bytes   |-> file.bytes + Weight(line.kind),
       spoiled |-> file.spoiled \/ file.torn]

(* The process dies while it appends a line: all of it but the newline is  *)
(* there (all) or not even that.                                           *)
CutLine(file, line, all) ==
  [PutLine(file, [line EXCEPT !.whole = all]) EXCEPT !.torn = TRUE]

(* Variant: the lines are counted.                                         *)
LineCount(lines) == Len(lines) + 1

(* nextSeqFromFile: one past the last line that parses.                    *)
NextSeqFromFile(lines) ==
  LET parses == {i \in DOMAIN lines : lines[i].whole}
  IN  IF parses = {} THEN 1
      ELSE lines[CHOOSE i \in parses : \A j \in parses : j <= i].seq + 1
-----------------------------------------------------------------------------
(* The sink.  A handler's effect is computed on the state st it works on:  *)
(* the file, its run's entry and the subscriber's feed.                    *)

State(r) == [log |-> log, entry |-> sink[r], feed |-> feed]

Commit(r, st) ==
  /\ log' = st.log
  /\ sink' = [sink EXCEPT ![r] = st.entry]
  /\ feed' = st.feed

(* writeEvent: a failed append is reported and otherwise ignored.          *)
WriteEvent(st, r, s, kind, written) ==
  LET n == st.entry.seq + 1
      line == [seq |-> n, kind |-> kind, run |-> r, step |-> s, whole |-> TRUE]
  IN  [log   |-> IF written THEN PutLine(st.log, line)
                 ELSE [st.log EXCEPT !.spoiled = TRUE],
       entry |-> [st.entry EXCEPT !.seq = n, !.bytes = @ + Weight(kind)],
       feed  |-> IF st.entry.listening THEN Append(st.feed, n) ELSE st.feed]

CapReached(entry) == entry.seq >= MaxEvents \/ entry.bytes >= MaxBytes

(* The first event past a cap is preceded by log.truncated.                *)
Truncate(st, r, s, written) ==
  IF st.entry.truncated \/ ~CapReached(st.entry) THEN st
  ELSE WriteEvent([st EXCEPT !.entry.truncated = TRUE], r, s, "log.truncated", written)

(* The kinds a capped log goes without.                                    *)
Dropped(kind) == kind \in Bulk

(* Variant: whoever comes second writes a second terminal line.            *)
NeverSettled(entry, s, kind) == FALSE

(* A step has its terminal line already.                                   *)
AlreadySettled(entry, s, kind) ==
  kind = "step.result" /\ s \in entry.settledSteps

(* appendStepLog, of a registered run.                                     *)
AppendOpen(st, r, s, kind, written) ==
  LET settling == IF kind = "step.result"
                  THEN [st EXCEPT !.entry.settledSteps = @ \cup {s}] ELSE st
      capped == Truncate(settling, r, s, written)
  IN  IF capped.entry.truncated /\ Dropped(kind) THEN capped
      ELSE WriteEvent(capped, r, s, kind, written)

AppendStepLog(st, r, s, kind, written) ==
  IF st.entry.phase # "open" \/ AlreadySettled(st.entry, s, kind)
    THEN st
    ELSE AppendOpen(st, r, s, kind, written)

(* appendRunLogFileEvent: past the sink, nobody is notified.               *)
AppendRunLogFileEvent(file, r, s, kind, written) ==
  LET line == [seq |-> NextSeqFromFile(file.lines), kind |-> kind,
               run |-> r, step |-> s, whole |-> TRUE]
  IN  IF written THEN PutLine(file, line) ELSE [file EXCEPT !.spoiled = TRUE]
-----------------------------------------------------------------------------
Init ==
  /\ log = [lines |-> <<>>, torn |-> FALSE, bytes |-> 0, spoiled |-> FALSE]
  /\ sink = [r \in Runs |->
       [phase |-> "new", seq |-> 0, bytes |-> 0, truncated |-> FALSE,
        settledSteps |-> {}, listening |-> FALSE, cancelled |-> FALSE,
        closing |-> {}]]
  /\ work = [r \in Runs |-> [s \in Steps |-> "idle"]]
  /\ feed = <<>>

(* Whether the append succeeds.  Bound: no failure once the file is spoiled*)
Written(kind) ==
  IF kind \in MayFail /\ ~log.spoiled THEN BOOLEAN ELSE {TRUE}

(* The loop of cancel() over the steps runs without interruption.          *)
Free == \A r \in Runs : sink[r].closing = {}

(* MaxLines, the bound on the numbers handed out: what the program offers  *)
(* of its own accord stops there; terminal lines are never held back.      *)
Room(r) == sink[r].seq < MaxLines /\ Len(log.lines) < MaxLines

(* Unless Shared, a run writes only while no other run holds the file.     *)
HasFile(r) ==
  Shared \/ \A q \in Runs \ {r} : sink[q].phase # "open"

(* openRunLog, from RunService.start.                                      *)
Open(r) ==
  /\ Free
  /\ sink[r].phase = "new"
  /\ HasFile(r)
  /\ sink' = [sink EXCEPT ![r].phase = "open",
                          ![r].seq = NextSeqFromFile(log.lines) - 1,
                          ![r].bytes = log.bytes]
  /\ UNCHANGED <<log, work, feed>>

(* subscribeRunLog, for the one SSE client: a no-op unless registered.     *)
Subscribe(r) ==
  /\ sink' = [sink EXCEPT ![r].listening = sink[r].phase = "open"]
  /\ UNCHANGED <<log, work, feed>>

(* The SSE connection delivers what was written to it.                     *)
Deliver ==
  /\ feed # <<>>
  /\ feed' = Tail(feed)
  /\ UNCHANGED <<log, sink, work>>

(* A builder begins a step: not when the run is already cancelled.  In the *)
(* body of a loop the step may have run before.                            *)
StartStep(r, s) ==
  /\ Free /\ Room(r)
  /\ sink[r].phase = "open"
  /\ ~sink[r].cancelled
  /\ work[r][s] # "running"
  /\ work' = [work EXCEPT ![r][s] = "running"]
  /\ \E written \in Written("step.start") :
       Commit(r, AppendStepLog(State(r), r, s, "step.start", written))

(* The model or the command of a step says something.                      *)
Emit(r, s) ==
  /\ Free /\ Room(r)
  /\ work[r][s] = "running"
  /\ \E written \in Written("message") :
       Commit(r, AppendStepLog(State(r), r, s, "message", written))
  /\ UNCHANGED work

(* finishStepLog: after a cancellation this comes when the child has died. *)
FinishStep(r, s) ==
  /\ Free
  /\ work[r][s] = "running"
  /\ work' = [work EXCEPT ![r][s] = "done"]
  /\ \E written \in Written("step.result") :
       Commit(r, AppendStepLog(State(r), r, s, "step.result", written))

(* appendDecision, for a gate the run has reached: the verdict of a judge  *)
(* may outlive the run's log.                                              *)
Decide(r, s) ==
  /\ Free /\ Room(r)
  /\ work[r][s] # "idle"
  /\ \E written \in Written("decision") :
       \/ /\ sink[r].phase = "open"
          /\ Commit(r, AppendStepLog(State(r), r, s, "decision", written))
       \/ /\ sink[r].phase = "closed"
          /\ HasFile(r)
          /\ log' = AppendRunLogFileEvent(log, r, s, "decision", written)
          /\ UNCHANGED <<sink, feed>>
  /\ UNCHANGED work

(* The steps cancel() may find started: those at work, and those whose     *)
(* builder is done but whose result event has not reached the run service. *)
InFlight(r) ==
  {running \cup late : running \in {{s \in Steps : work[r][s] = "running"}},
                       late \in SUBSET {s \in Steps : work[r][s] = "done"}}

(* cancel(), up to its await: mark the run, then one step after the other. *)
Cancel(r) ==
  /\ Free
  /\ sink[r].phase = "open"
  /\ ~sink[r].cancelled
  /\ \E inFlight \in InFlight(r) :
       sink' = [sink EXCEPT ![r].cancelled = TRUE, ![r].closing = inFlight]
  /\ UNCHANGED <<log, work, feed>>

CancelStep(r, s) ==
  /\ s \in sink[r].closing
  /\ \E written \in Written("step.result") :
       LET st == [State(r) EXCEPT !.entry.closing = @ \ {s}]
       IN  Commit(r, AppendStepLog(st, r, s, "step.result", written))
  /\ UNCHANGED work

(* finalizeSettlement closes the log.  The engine answers when its steps   *)
(* have returned; a cancellation waits for none of them.                   *)
Close(r) ==
  /\ Free
  /\ sink[r].phase = "open"
  /\ sink[r].cancelled \/ \A s \in Steps : work[r][s] # "running"
  /\ sink' = [sink EXCEPT ![r].phase = "closed", ![r].listening = FALSE]
  /\ UNCHANGED <<log, work, feed>>

(* The daemon is killed; its children go with it, and of the line it may   *)
(* be appending only a part may have reached the file.                     *)
Crash ==
  /\ Free
  /\ \E r \in Runs : sink[r].phase \in {"open", "closed"}
  /\ \/ UNCHANGED log
     \/ \E r \in Runs, s \in Steps, all \in BOOLEAN :
          /\ sink[r].phase = "open"
          /\ work[r][s] = "running"
          /\ log' = CutLine(log, [seq |-> sink[r].seq + 1, kind |-> "step.result",
                                  run |-> r, step |-> s, whole |-> TRUE], all)
  /\ sink' = [r \in Runs |->
       IF sink[r].phase = "new" THEN sink[r]
       ELSE [sink[r] EXCEPT !.phase = "dead", !.listening = FALSE]]
  /\ work' = [r \in Runs |-> [s \in Steps |->
       IF work[r][s] = "running" THEN "done" ELSE work[r][s]]]
  /\ feed' = <<>>

RunNext(r) ==
  \/ Open(r)
  \/ Cancel(r)
  \/ Close(r)
  \/ \E s \in Steps :
       \/ StartStep(r, s)
       \/ Emit(r, s)
       \/ FinishStep(r, s)
       \/ Decide(r, s)
       \/ CancelStep(r, s)

LogNext == Crash \/ Deliver \/ \E r \in Runs : Subscribe(r) \/ RunNext(r)

LogSpec == Init /\ [][LogNext]_logVars
-----------------------------------------------------------------------------
(* Properties.                                                             *)

(* The complete lines: what the readers take; a torn tail is dropped.      *)
Complete == {i \in DOMAIN log.lines : log.torn => i < Len(log.lines)}

Readable == {i \in Complete : log.lines[i].whole}

(* Lines that can be read are numbered upwards through restarts, torn      *)
(* lines, failed appends and decisions written past the sink: the number   *)
(* is a cursor (lastSeqOfFile relies on it) and a key (mergeLogEvents      *)
(* drops what is not above the last one it applied).                       *)
SeqsIncrease ==
  \A i, j \in Readable : i < j => log.lines[i].seq < log.lines[j].seq

LinesOf(r, s, kind) ==
  {i \in DOMAIN log.lines : /\ log.lines[i].run = r
                            /\ log.lines[i].step = s
                            /\ log.lines[i].kind = kind}

(* A run whose log was closed has the whole story in the file: for every   *)
(* step that ran a start and exactly one terminal line, although the       *)
(* builder and cancel() race for it, the builder may come after the log    *)
(* was closed, and the log may be full (spec 036 D2, FR-014).              *)
ClosedLogIsComplete ==
  \A r \in Runs, s \in Steps :
    sink[r].phase = "closed" /\ work[r][s] # "idle" /\ ~log.spoiled =>
      /\ LinesOf(r, s, "step.start") # {}
      /\ Cardinality(LinesOf(r, s, "step.result")) = 1

=============================================================================
