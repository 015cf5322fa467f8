---------------------------- MODULE LogReaders ----------------------------
(***************************************************************************)
(* Who follows a run through its events file, composed with StepLog:       *)
(*                                                                         *)
(*   - the run page (serve/ui.html, serve/ui-log.js): it opens the SSE     *)
(*     stream, fetches the whole log, holds back what the stream says      *)
(*     until the log has arrived, and merges the two by number;            *)
(*   - the get_run_events tool (bindings/mastra/daemonTools.ts): it polls  *)
(*     the log route of serve/server.ts with a cursor, or reads the file   *)
(*     when no daemon answers.                                             *)
(*                                                                         *)
(* Events are told apart by their numbers.  The page's cap of 2000 lines   *)
(* per step and all rendering are left out.                                *)
(***************************************************************************)
EXTENDS StepLog

VARIABLES page, poll

vars == <<logVars, page, poll>>

Lifecycle == {"step.start", "step.result"}      \* LIFECYCLE_KINDS

Page ==
  [run: Runs,                     \* the run it is about to show
   stream: {"none", "requested", "up", "down"}, \* the EventSource
   log: {"none", "requested", "served", "applied"}, \* the backfill fetch
   served: SUBSET Nat,            \* what the fetch returns
   buffer: SUBSET Nat,            \* _logBuffer
   shown: SUBSET Nat,             \* the events of _logState
   lastSeq: Nat,                  \* _logState.lastSeq
   streamFirst: BOOLEAN]          \* history: subscribed first, then got the log

Poll ==
  [since: Nat,                    \* the caller's cursor: the last nextSeq
   asked: BOOLEAN,                \* the headers of an answer are out
   maxSeq: Nat,                   \* X-Run-Max-Seq of that answer
   seen: SUBSET Nat]              \* every number a call has returned

TypeOK ==
  /\ LogTypeOK
  /\ page \in Page
  /\ poll \in Poll

Seqs(indices) == {log.lines[i].seq : i \in indices}

(* readRunLog: complete lines above the cursor that parse.                 *)
ReadRunLog(after) == {i \in Readable : log.lines[i].seq > after}

(* pipeRunLog: complete lines above the cursor, forwarded as they are.     *)
PipeRunLog(after, kinds) ==
  {i \in Complete : log.lines[i].seq > after /\ log.lines[i].kind \in kinds}

(* Variant: the line that is being written answers too.                    *)
LastSeqOfTail ==
  IF log.lines = <<>> THEN 0 ELSE log.lines[Len(log.lines)].seq

(* lastSeqOfFile: the number of the last complete line.                    *)
LastSeqOfFile ==
  IF Complete = {} THEN 0
  ELSE log.lines[CHOOSE i \in Complete : \A j \in Complete : j <= i].seq

(* nextSeqOf                                                               *)
NextSeqOf(maxSeq, since) == IF maxSeq < since THEN since ELSE maxSeq + 1
-----------------------------------------------------------------------------
(* Variant: what the stream says is applied as it comes.                   *)
NoBuffer(p) == TRUE

(* The log has been applied, nothing is held back any more.                *)
Flushed(p) == p.log = "applied"

(* mergeLogEvents skips what is not above the last event applied.          *)
Fresh(p, incoming) == {n \in incoming : n > p.lastSeq}

(* mergeLogEvents *)
Merge(p, incoming) ==
  LET fresh == Fresh(p, incoming)
  IN  [p EXCEPT !.shown = @ \cup fresh,
                !.lastSeq = IF fresh = {} THEN @
                            ELSE CHOOSE n \in fresh : \A m \in fresh : m <= n]

(* openRunView of a run of this daemon, or of one restored from disk: then *)
(* there is no stream to open.                                             *)
PageOpens ==
  /\ page.log = "none"
  /\ sink[page.run].phase # "new"
  /\ page' = [page EXCEPT !.log = "requested",
       !.stream = IF sink[page.run].phase = "dead" THEN "none" ELSE "requested"]
  /\ UNCHANGED <<logVars, poll>>

(* GET /api/runs/:id/events reaches the daemon.                            *)
StreamConnects ==
  /\ Free
  /\ page.stream = "requested"
  /\ page' = [page EXCEPT !.stream = "up",
                          !.streamFirst = (page.log = "requested")]
  /\ Subscribe(page.run)
  /\ UNCHANGED poll

(* GET /api/runs/:id/log: what the stream of the file sees to its end, of  *)
(* which the page takes what parses.                                       *)
LogServed ==
  /\ Free
  /\ page.log = "requested"
  /\ sink[page.run].phase # "new"
  /\ page' = [page EXCEPT !.log = "served",
       !.served = Seqs({i \in PipeRunLog(0, Kind) : log.lines[i].whole})]
  /\ UNCHANGED <<logVars, poll>>

(* backfillRunLog: apply the log, then what the stream said meanwhile.     *)
LogArrives ==
  /\ page.log = "served"
  /\ page' = [Merge(Merge(page, page.served), page.buffer) EXCEPT
                !.log = "applied", !.buffer = {}, !.served = {}]
  /\ UNCHANGED <<logVars, poll>>

(* The "log" listener of the stream.                                       *)
StreamDelivers ==
  /\ page.stream = "up"
  /\ Deliver
  /\ page' = IF Flushed(page) THEN Merge(page, {Head(feed)})
             ELSE [page EXCEPT !.buffer = @ \cup {Head(feed)}]
  /\ UNCHANGED poll
-----------------------------------------------------------------------------
(* The daemon answers while it has a run of this file in its registry.     *)
DaemonUp == \E r \in Runs : sink[r].phase \in {"open", "closed"}

(* The log route sends its headers before it reads the lines.              *)
PollHeaders ==
  /\ Free
  /\ DaemonUp
  /\ ~poll.asked
  /\ poll' = [poll EXCEPT !.asked = TRUE, !.maxSeq = LastSeqOfFile]
  /\ UNCHANGED <<logVars, page>>

(* getRunEvents: a line that does not parse makes the call fail, and the   *)
(* caller keeps its cursor.                                                *)
PollBody ==
  /\ Free
  /\ poll.asked
  /\ LET lines == PipeRunLog(poll.since, Lifecycle)
     IN  poll' = IF \A i \in lines : log.lines[i].whole
                   THEN [since |-> NextSeqOf(poll.maxSeq, poll.since),
                         asked |-> FALSE, maxSeq |-> 0,
                         seen |-> poll.seen \cup Seqs(lines)]
                   ELSE [poll EXCEPT !.asked = FALSE, !.maxSeq = 0]
  /\ UNCHANGED <<logVars, page>>

(* getRunEvents when the daemon is gone: the lines come from the file, and *)
(* the cursor from all of them, not only from those returned.              *)
PollDisk ==
  /\ ~DaemonUp
  /\ ~poll.asked
  /\ LET all == ReadRunLog(poll.since)
         lifecycle == {i \in all : log.lines[i].kind \in Lifecycle}
     IN  /\ all # {}
         /\ poll' = [poll EXCEPT
              !.since = NextSeqOf(CHOOSE n \in Seqs(all) : \A m \in Seqs(all) : m <= n, @),
              !.seen = @ \cup Seqs(lifecycle)]
  /\ UNCHANGED <<logVars, page>>

(* The daemon dies: streams break, an answer under way fails.  A backfill  *)
(* that fails counts as an empty log: the page goes on with what it held   *)
(* back.                                                                   *)
DaemonDies ==
  /\ Crash
  /\ page' = [page EXCEPT
       !.stream = IF @ = "none" THEN @ ELSE "down",
       !.log = IF @ = "requested" THEN "served" ELSE @,
       !.streamFirst = @ /\ page.log # "requested"]
  /\ poll' = [poll EXCEPT !.asked = FALSE, !.maxSeq = 0]
-----------------------------------------------------------------------------
ReadersInit ==
  /\ Init
  /\ page \in {[run |-> r, stream |-> "none", log |-> "none", served |-> {},
                buffer |-> {}, shown |-> {}, lastSeq |-> 0, streamFirst |-> FALSE] :
               r \in Runs}
  /\ poll = [since |-> 0, asked |-> FALSE, maxSeq |-> 0, seen |-> {}]

PageNext ==
  \/ PageOpens
  \/ StreamConnects
  \/ LogServed
  \/ LogArrives
  \/ StreamDelivers

PollNext == PollHeaders \/ PollBody \/ PollDisk

Next ==
  \/ \E r \in Runs : RunNext(r) /\ UNCHANGED <<page, poll>>
  \/ DaemonDies
  \/ PageNext
  \/ PollNext

Spec == ReadersInit /\ [][Next]_vars
-----------------------------------------------------------------------------
(* Properties.                                                             *)

(* A page whose stream was connected before its log was read, and which    *)
(* got that log, shows every line up to the last one on screen, in         *)
(* whatever order the log, the buffered and the live events arrive (spec   *)
(* 036 D4).  The order of the two requests at the daemon is not under the  *)
(* page's control.  Once an append has failed or was merged into a torn    *)
(* line, numbers are handed out again, to a late decision or a later run:  *)
(* of such a file the property keeps what the page's run wrote through its *)
(* sink.                                                                   *)
Followed(line) ==
  ~log.spoiled \/ (line.run = page.run /\ line.kind # "decision")

PageKeepsUp ==
  page.streamFirst =>
    \A i \in Readable :
      Followed(log.lines[i]) /\ log.lines[i].seq <= page.lastSeq
        => log.lines[i].seq \in page.shown

(* The cursor handed to a poller never runs further ahead of the file than *)
(* the one number it is given as next, a torn tail, failed appends and the *)
(* switch between daemon and file included (lastSeqOfFile).  A line merged *)
(* into a torn one breaks this: its number answers a poll, but a later     *)
(* process cannot parse the line and hands the number out again.           *)
CursorWithinLog ==
  (\A i \in Complete : log.lines[i].whole) =>
    poll.since <= 1 \/ \E n \in Seqs(Complete) : poll.since <= n + 1

(* Between two polls, every transition up to the cursor has been returned: *)
(* "skipping past them loses nothing" (nextSeqOf).                         *)
PollMissesNothing ==
  ~poll.asked =>
    \A i \in Readable :
      /\ log.lines[i].kind \in Lifecycle
      /\ log.lines[i].seq <= poll.since
      => log.lines[i].seq \in poll.seen
=============================================================================
