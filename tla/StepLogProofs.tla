-------------------------- MODULE StepLogProofs --------------------------
(***************************************************************************)
(* What holds of an events file and its readers for every number of runs,  *)
(* steps and lines, every cap and every pattern of crashes and failing     *)
(* appends.                                                                *)
(*                                                                         *)
(*   NumbersIncrease          the lines that can be read are numbered      *)
(*                            upwards;                                     *)
(*   ClosedLogsAreComplete    a closed log tells every step's story once,  *)
(*                            also when two runs hold the file;            *)
(*   CursorsStayWithinTheLog  a poller's cursor stays within the file;     *)
(*   PagesKeepUp              a connected page shows every line up to the  *)
(*                            last one on its screen.                      *)
(*                                                                         *)
(* All but the second assume that one run at a time holds the file.  They  *)
(* share LogInv: while a run is registered no line that can be read has a  *)
(* higher number than its sink has handed out.                             *)
(***************************************************************************)
EXTENDS LogReaders, WellFoundedInduction, FiniteSetTheorems, TLAPS

(* A file whose whole lines are numbered upwards, and a number none of     *)
(* them exceeds.                                                           *)
Increasing(lines) ==
  \A i, j \in DOMAIN lines :
    i < j /\ lines[i].whole /\ lines[j].whole => lines[i].seq < lines[j].seq

Bounded(lines, n) ==
  \A i \in DOMAIN lines : lines[i].whole => lines[i].seq <= n

Positive(lines) == \A i \in DOMAIN lines : 0 < lines[i].seq

FileOK(file) ==
  /\ file \in File
  /\ file.torn => file.lines # <<>>
  /\ Increasing(file.lines)
  /\ Positive(file.lines)

(* A non-empty set of natural numbers has a least element, and one within  *)
(* bounds a greatest.                                                      *)
LEMMA HasLeast ==
  ASSUME NEW T, T \subseteq Nat, T # {}
  PROVE  \E x \in T : \A y \in T : x <= y
<1>1. \E x \in T : \A y \in T : ~(<<y, x>> \in OpToRel(<, Nat))
  BY WFMin, NatLessThanWellFounded
<1>2. \A x, y \in T : <<y, x>> \in OpToRel(<, Nat) <=> y < x
  BY DEF OpToRel
<1>3. \A x, y \in T : ~(y < x) => x <= y
  OBVIOUS
<1>4. \E x \in T : \A y \in T : ~(y < x)
  BY <1>1, <1>2, Zenon
<1> QED BY <1>3, <1>4

LEMMA HasGreatest ==
  ASSUME NEW n \in Nat, NEW T, T \subseteq 1..n, T # {}
  PROVE  \E x \in T : \A y \in T : y <= x
<1> DEFINE D == {n - x : x \in T}
<1>1. D \subseteq Nat
  <2>1. \A x \in 1..n : n - x \in Nat
    OBVIOUS
  <2> QED BY <2>1
<1>2. D # {}
  OBVIOUS
<1>3. \E d \in D : \A e \in D : d <= e
  <2> HIDE DEF D
  <2> QED BY <1>1, <1>2, HasLeast
<1>4. \E x \in T : \A y \in T : n - x <= n - y
  BY <1>3
<1>5. \A x, y \in T : n - x <= n - y => y <= x
  OBVIOUS
<1> QED BY <1>4, <1>5

(* nextSeqFromFile returns a number above every line that parses, although *)
(* it looks at the last of them only.                                      *)
LEMMA NextSeqLemma ==
  ASSUME NEW file, FileOK(file)
  PROVE  /\ NextSeqFromFile(file.lines) \in Nat \ {0}
         /\ Bounded(file.lines, NextSeqFromFile(file.lines) - 1)
<1> DEFINE lines == file.lines
           parses == {i \in DOMAIN lines : lines[i].whole}
           last == CHOOSE i \in parses : \A j \in parses : j <= i
<1>1. lines \in Seq(Line) /\ Increasing(lines)
  BY DEF FileOK, File
<1>2. \A i \in DOMAIN lines : lines[i].seq \in Nat
  <2>1. \A i \in DOMAIN lines : lines[i] \in Line
    BY <1>1
  <2> QED BY <2>1 DEF Line
<1>3. CASE parses = {}
  BY <1>3 DEF NextSeqFromFile, Bounded
<1>4. CASE parses # {}
  <2>1. \E i \in parses : \A j \in parses : j <= i
    <3>1. Len(lines) \in Nat /\ parses \subseteq 1..Len(lines)
      BY <1>1
    <3> HIDE DEF parses
    <3> QED BY <3>1, <1>4, HasGreatest
  <2>2. last \in parses /\ \A j \in parses : j <= last
    BY <2>1
  <2>3. NextSeqFromFile(lines) = lines[last].seq + 1
    BY <1>4 DEF NextSeqFromFile
  <2>4. \A j \in parses : lines[j].seq <= lines[last].seq
    <3>0. lines[last].seq \in Nat
      BY <1>2, <2>2
    <3>1. SUFFICES ASSUME NEW j \in parses, j # last
                   PROVE  lines[j].seq < lines[last].seq
      <4>1. \A j \in parses : lines[j].seq \in Nat
        BY <1>2
      <4> HIDE DEF last, parses, lines
      <4> QED BY <3>0, <4>1
    <3>2. DOMAIN lines = 1..Len(lines) /\ Len(lines) \in Nat
      BY <1>1
    <3>3. j \in DOMAIN lines /\ last \in DOMAIN lines
      BY <2>2
    <3>4. j <= last /\ j # last
      BY <2>2, <3>1
    <3>5. j < last
      <4> HIDE DEF last, parses
      <4> QED BY <3>2, <3>3, <3>4
    <3>6. lines[j].whole /\ lines[last].whole
      BY <2>2
    <3> HIDE DEF last, parses, lines
    <3> QED BY <1>1, <3>3, <3>5, <3>6 DEF Increasing
  <2>5. lines[last].seq \in Nat
    BY <1>2, <2>2
  <2>6. \A j \in parses : lines[j].seq <= (lines[last].seq + 1) - 1
    <3>1. \A j \in parses : lines[j].seq \in Nat
      BY <1>2
    <3> HIDE DEF last, parses, lines
    <3> QED BY <2>4, <2>5, <3>1
  <2> QED BY <2>3, <2>5, <2>6 DEF Bounded
<1> QED BY <1>3, <1>4

(* A number above all the others keeps the numbering of a file in order.   *)
LEMMA PutLineLemma ==
  ASSUME NEW file, FileOK(file), NEW line \in Line, NEW n \in Nat,
         Bounded(file.lines, n), n < line.seq
  PROVE  /\ FileOK(PutLine(file, line))
         /\ Bounded(PutLine(file, line).lines, line.seq)
         /\ PutLine(file, line).lines # <<>>
<1> DEFINE lines == file.lines
           last == Len(lines)
           merged == [line EXCEPT !.kind = lines[last].kind, !.whole = FALSE]
           put == PutLine(file, line)
<1>1. /\ file \in File /\ lines \in Seq(Line) /\ Increasing(lines)
      /\ Positive(lines) /\ file.torn \in BOOLEAN /\ file.bytes \in Nat /\ file.spoiled \in BOOLEAN
  BY DEF FileOK, File
<1>2. /\ line.seq \in Nat /\ 0 < line.seq /\ line.kind \in Kind
      /\ \A i \in DOMAIN lines : lines[i] \in Line
      /\ \A i \in DOMAIN lines : lines[i].seq \in Nat
  <2>1. \A i \in DOMAIN lines : lines[i] \in Line
    BY <1>1
  <2> QED BY <2>1 DEF Line
<1>3. Weight(line.kind) \in Nat
  BY DEF Weight
<1>4. CASE file.torn
  <2>1. last \in DOMAIN lines /\ lines # <<>>
    BY <1>1, <1>4 DEF FileOK
  <2>2. merged \in Line /\ ~merged.whole /\ merged.seq = line.seq
    BY <1>2, <2>1 DEF Line
  <2>3. put = [lines |-> [lines EXCEPT ![last] = merged], torn |-> FALSE,
               bytes |-> file.bytes + Weight(line.kind),
               spoiled |-> file.spoiled \/ file.torn]
    BY <1>4 DEF PutLine
  <2> DEFINE ls == [lines EXCEPT ![last] = merged]
  <2>4. /\ ls \in Seq(Line) /\ DOMAIN ls = DOMAIN lines
        /\ ls[last] = merged
        /\ \A i \in DOMAIN lines : i # last => ls[i] = lines[i]
    <3> HIDE DEF merged
    <3> QED BY <1>1, <2>1, <2>2
  <2>5. ls # <<>>
    BY <2>1, <2>4
  <2>6. Increasing(ls)
    <3> HIDE DEF ls, merged, last
    <3> QED BY <1>1, <2>2, <2>4 DEF Increasing
  <2>7. Bounded(ls, line.seq)
    <3> HIDE DEF ls, merged, last
    <3> QED BY <1>2, <2>2, <2>4 DEF Bounded
  <2>8. put \in File
    <3> HIDE DEF ls
    <3> QED BY <1>1, <1>3, <2>3, <2>4 DEF File, ls
  <2>9. Positive(ls)
    <3> HIDE DEF ls, merged, last
    <3> QED BY <1>1, <1>2, <2>2, <2>4 DEF Positive
  <2> QED BY <2>3, <2>5, <2>6, <2>7, <2>8, <2>9 DEF FileOK
<1>5. CASE ~file.torn
  <2> DEFINE ls == Append(lines, line)
  <2>1. put = [lines |-> ls, torn |-> FALSE,
               bytes |-> file.bytes + Weight(line.kind),
               spoiled |-> file.spoiled \/ file.torn]
    BY <1>5 DEF PutLine
  <2>2. /\ ls \in Seq(Line) /\ ls # <<>>
        /\ last \in Nat
        /\ DOMAIN lines = 1..last /\ DOMAIN ls = 1..(last + 1)
        /\ ls[last + 1] = line
        /\ \A i \in 1..last : ls[i] = lines[i]
    BY <1>1
  <2>3. Bounded(ls, line.seq)
    <3> HIDE DEF ls, last
    <3> QED BY <1>2, <2>2 DEF Bounded
  <2>4. Increasing(ls)
    <3> SUFFICES ASSUME NEW i \in 1..(last + 1), NEW j \in 1..(last + 1),
                        i < j, ls[i].whole, ls[j].whole
                 PROVE  ls[i].seq < ls[j].seq
      BY <2>2 DEF Increasing
    <3>1. i \in 1..last /\ ls[i] = lines[i]
      BY <2>2
    <3>2. lines[i].seq \in Nat /\ lines[i].seq <= n
      <4> HIDE DEF ls, last
      <4> QED BY <1>2, <2>2, <3>1 DEF Bounded
    <3>3. CASE j = last + 1
      <4> HIDE DEF ls
      <4> QED BY <1>2, <2>2, <3>1, <3>2, <3>3
    <3>4. CASE j # last + 1
      <4>1. j \in 1..last
        BY <2>2, <3>4
      <4> HIDE DEF ls, last, lines
      <4> QED BY <1>1, <2>2, <3>1, <4>1 DEF Increasing
    <3> QED BY <3>3, <3>4
  <2>5. put \in File
    <3> HIDE DEF ls
    <3> QED BY <1>1, <1>3, <2>1, <2>2 DEF File
  <2>6. Positive(ls)
    <3> HIDE DEF ls
    <3> QED BY <1>1, <1>2, <2>2 DEF Positive
  <2> QED BY <2>1, <2>2, <2>3, <2>4, <2>5, <2>6 DEF FileOK
<1> QED BY <1>1, <1>4, <1>5

(* What a handler works on: while the run is registered its number is that *)
(* of no line that can be read, nor below one.                             *)
StateOK(st) ==
  /\ st \in [log: File, entry: RunLogEntry, feed: Seq(Nat)]
  /\ FileOK(st.log)
  /\ st.entry.phase = "open" => Bounded(st.log.lines, st.entry.seq)

LEMMA WriteEventLemma ==
  ASSUME NEW st, StateOK(st), st.entry.phase = "open",
         NEW r \in Runs, NEW s \in Steps, NEW kind \in Kind, NEW written \in BOOLEAN
  PROVE  /\ StateOK(WriteEvent(st, r, s, kind, written))
         /\ WriteEvent(st, r, s, kind, written).entry.phase = "open"
<1> DEFINE n == st.entry.seq + 1
           line == [seq |-> n, kind |-> kind, run |-> r, step |-> s, whole |-> TRUE]
           file == IF written THEN PutLine(st.log, line)
                   ELSE [st.log EXCEPT !.spoiled = TRUE]
           entry == [st.entry EXCEPT !.seq = n, !.bytes = @ + Weight(kind)]
           next == WriteEvent(st, r, s, kind, written)
<1>1. /\ FileOK(st.log) /\ st.log \in File
      /\ st.entry \in RunLogEntry /\ st.feed \in Seq(Nat)
      /\ Bounded(st.log.lines, st.entry.seq)
  BY DEF StateOK
<1>2. n \in Nat /\ st.entry.seq < n /\ st.entry.seq \in Nat
  BY <1>1 DEF RunLogEntry
<1>3. line \in Line /\ line.seq = n
  BY <1>2 DEF Line
<1>4. FileOK(file) /\ Bounded(file.lines, n)
  <2>1. CASE written
    <3> HIDE DEF line, n
    <3> QED BY <1>1, <1>2, <1>3, <2>1, PutLineLemma
  <2>2. CASE ~written
    <3>1. /\ file = [st.log EXCEPT !.spoiled = TRUE]
          /\ file \in File /\ file.lines = st.log.lines /\ file.torn = st.log.torn
      BY <1>1, <2>2 DEF File
    <3>2. FileOK(file)
      BY <1>1, <3>1 DEF FileOK
    <3>3. \A i \in DOMAIN st.log.lines : st.log.lines[i].seq \in Nat
      <4>1. \A i \in DOMAIN st.log.lines : st.log.lines[i] \in Line
        BY <1>1 DEF File
      <4> QED BY <4>1 DEF Line
    <3>4. Bounded(st.log.lines, n)
      <4> HIDE DEF n
      <4> QED BY <1>1, <1>2, <3>3 DEF Bounded
    <3> QED BY <3>1, <3>2, <3>4
  <2> QED BY <2>1, <2>2
<1>5. entry \in RunLogEntry /\ entry.phase = "open" /\ entry.seq = n
  <2>1. st.entry.bytes + Weight(kind) \in Nat
    BY <1>1 DEF Weight, RunLogEntry
  <2>2. entry = [st.entry EXCEPT !.seq = n, !.bytes = st.entry.bytes + Weight(kind)]
    BY <1>1 DEF RunLogEntry
  <2> HIDE DEF n
  <2>3. entry \in RunLogEntry
    BY <1>1, <1>2, <2>1, <2>2 DEF RunLogEntry
  <2>4. entry.phase = "open" /\ entry.seq = n
    BY <1>1, <2>2 DEF RunLogEntry
  <2> QED BY <2>3, <2>4
<1>6. next.feed \in Seq(Nat)
  BY <1>1, <1>2 DEF WriteEvent
<1>7. next.log = file /\ next.entry = entry
  BY DEF WriteEvent
<1>8. next \in [log: File, entry: RunLogEntry, feed: Seq(Nat)]
  <2>1. /\ next = [log |-> next.log, entry |-> next.entry, feed |-> next.feed]
        /\ file \in File
    BY <1>4 DEF WriteEvent, FileOK
  <2> HIDE DEF next, file, entry
  <2> QED BY <1>5, <1>6, <1>7, <2>1
<1> HIDE DEF next, file, entry
<1> QED BY <1>4, <1>5, <1>7, <1>8 DEF StateOK, next

(* Another entry with the same number.                                     *)
LEMMA EntryLemma ==
  ASSUME NEW st, StateOK(st),
         NEW e \in RunLogEntry, e.seq = st.entry.seq, e.phase = st.entry.phase
  PROVE  /\ StateOK([st EXCEPT !.entry = e])
         /\ [st EXCEPT !.entry = e].entry = e
BY DEF StateOK

LEMMA AppendStepLogLemma ==
  ASSUME NEW st, StateOK(st),
         NEW r \in Runs, NEW s \in Steps, NEW kind \in Kind, NEW written \in BOOLEAN
  PROVE  /\ StateOK(AppendStepLog(st, r, s, kind, written))
         /\ AppendStepLog(st, r, s, kind, written).entry.phase = st.entry.phase
<1>1. CASE st.entry.phase # "open" \/ AlreadySettled(st.entry, s, kind)
  BY <1>1 DEF AppendStepLog
<1>2. CASE st.entry.phase = "open" /\ ~AlreadySettled(st.entry, s, kind)
  <2> DEFINE settled == [st EXCEPT !.entry.settledSteps = @ \cup {s}]
             settling == IF kind = "step.result" THEN settled ELSE st
             capped == Truncate(settling, r, s, written)
             marked == [settling EXCEPT !.entry.truncated = TRUE]
  <2>1. StateOK(settling) /\ settling.entry.phase = "open"
    <3>1. StateOK(settled) /\ settled.entry.phase = "open"
      <4> DEFINE e == [st.entry EXCEPT !.settledSteps = @ \cup {s}]
      <4>1. settled = [st EXCEPT !.entry = e]
        OBVIOUS
      <4>2. e \in RunLogEntry /\ e.seq = st.entry.seq /\ e.phase = "open"
        BY <1>2 DEF StateOK, RunLogEntry
      <4> HIDE DEF settled, e
      <4> QED BY <1>2, <4>1, <4>2, EntryLemma
    <3> QED BY <1>2, <3>1
  <2>2. StateOK(marked) /\ marked.entry.phase = "open"
    <3> HIDE DEF settling
    <3> DEFINE e == [settling.entry EXCEPT !.truncated = TRUE]
    <3>1. marked = [settling EXCEPT !.entry = e]
      OBVIOUS
    <3>2. e \in RunLogEntry /\ e.seq = settling.entry.seq /\ e.phase = "open"
      BY <2>1 DEF StateOK, RunLogEntry
    <3> HIDE DEF marked, e
    <3> QED BY <2>1, <3>1, <3>2, EntryLemma
  <2>3. StateOK(capped) /\ capped.entry.phase = "open"
    <3>1. "log.truncated" \in Kind
      BY DEF Kind, Structure
    <3> HIDE DEF settling
    <3>2. CASE settling.entry.truncated \/ ~CapReached(settling.entry)
      BY <2>1, <3>2 DEF Truncate
    <3>3. CASE ~(settling.entry.truncated \/ ~CapReached(settling.entry))
      <4>1. capped = WriteEvent(marked, r, s, "log.truncated", written)
        BY <3>3 DEF Truncate
      <4> HIDE DEF capped, marked
      <4> QED BY <2>2, <3>1, <4>1, WriteEventLemma
    <3> QED BY <3>2, <3>3
  <2>4. AppendStepLog(st, r, s, kind, written) =
          IF capped.entry.truncated /\ Dropped(kind) THEN capped
          ELSE WriteEvent(capped, r, s, kind, written)
    BY <1>2 DEF AppendStepLog, AppendOpen
  <2> HIDE DEF capped
  <2> QED BY <1>2, <2>3, <2>4, WriteEventLemma
<1> QED BY <1>1, <1>2
-----------------------------------------------------------------------------
(* One run at a time holds the file, and while it does no line that can be *)
(* read has a higher number than the run has handed out.                   *)
LogInv ==
  /\ LogTypeOK
  /\ FileOK(log)
  /\ \A r \in Runs : sink[r].phase = "open" => Bounded(log.lines, sink[r].seq)
  /\ \A q, r \in Runs : sink[q].phase = "open" /\ sink[r].phase = "open" => q = r

LEMMA LogInvInit == Init => LogInv
<1> SUFFICES ASSUME Init PROVE LogInv
  OBVIOUS
<1>1. log \in File /\ log.lines = <<>> /\ ~log.torn
  BY DEF Init, File
<1>2. FileOK(log)
  BY <1>1 DEF FileOK, Increasing, Positive
<1>3. sink \in [Runs -> RunLogEntry]
  <2>1. \A r \in Runs : sink[r] \in RunLogEntry
    BY DEF Init, RunLogEntry, Phase
  <2> QED BY <2>1 DEF Init
<1>4. \A r \in Runs : sink[r].phase # "open"
  BY DEF Init
<1>5. LogTypeOK
  BY <1>1, <1>3 DEF Init, LogTypeOK
<1> QED BY <1>2, <1>4, <1>5 DEF LogInv

(* A handler that works on the state of a registered run and commits it.   *)
LEMMA CommitLemma ==
  ASSUME LogInv, NEW r \in Runs, NEW st, StateOK(st), Commit(r, st),
         st.entry.phase = sink[r].phase,
         \/ sink[r].phase = "open"
         \/ st.log = log,
         work' \in [Runs -> [Steps -> {"idle", "running", "done"}]]
  PROVE  LogInv'
<1>1. /\ log' = st.log /\ sink' = [sink EXCEPT ![r] = st.entry] /\ feed' = st.feed
      /\ st.entry \in RunLogEntry /\ FileOK(st.log) /\ st.feed \in Seq(Nat)
      /\ st.log \in File
  BY DEF Commit, StateOK
<1>2. /\ sink \in [Runs -> RunLogEntry]
      /\ sink' \in [Runs -> RunLogEntry]
      /\ sink'[r] = st.entry
      /\ \A q \in Runs \ {r} : sink'[q] = sink[q]
  BY <1>1 DEF LogInv, LogTypeOK
<1>3. LogTypeOK'
  BY <1>1, <1>2 DEF LogTypeOK
<1>4. FileOK(log)'
  BY <1>1 DEF FileOK, Increasing, Positive, File, Line, Kind, Bulk, Structure
<1>5. \A q \in Runs : sink'[q].phase = sink[q].phase
  BY <1>2
<1>6. \A q, t \in Runs : sink'[q].phase = "open" /\ sink'[t].phase = "open" => q = t
  BY <1>5 DEF LogInv
<1>7. ASSUME NEW q \in Runs, sink'[q].phase = "open"
      PROVE  Bounded(log'.lines, sink'[q].seq)
  <2>1. CASE q = r
    BY <1>1, <1>2, <1>7, <2>1 DEF StateOK
  <2>2. CASE q # r
    <3>1. log' = log
      BY <1>1, <1>5, <1>7, <2>2 DEF LogInv
    <3> QED BY <1>2, <1>7, <2>2, <3>1 DEF LogInv
  <2> QED BY <2>1, <2>2
<1> QED BY <1>3, <1>4, <1>6, <1>7 DEF LogInv, Bounded

LEMMA StateLemma ==
  ASSUME LogInv, NEW r \in Runs
  PROVE  StateOK(State(r)) /\ State(r).log = log /\ State(r).entry = sink[r]
BY DEF LogInv, LogTypeOK, State, StateOK

LEMMA AppendedLemma ==
  ASSUME LogInv, NEW r \in Runs, NEW s \in Steps, NEW kind \in Kind,
         NEW written \in BOOLEAN,
         Commit(r, AppendStepLog(State(r), r, s, kind, written)),
         work' \in [Runs -> [Steps -> {"idle", "running", "done"}]]
  PROVE  LogInv'
<1> DEFINE st == AppendStepLog(State(r), r, s, kind, written)
<1>1. StateOK(st) /\ st.entry.phase = sink[r].phase
  BY StateLemma, AppendStepLogLemma
<1>2. sink[r].phase = "open" \/ st.log = log
  BY StateLemma DEF AppendStepLog
<1> HIDE DEF st
<1> QED BY <1>1, <1>2, CommitLemma DEF st

LEMMA WrittenLemma ==
  ASSUME NEW kind
  PROVE  Written(kind) \subseteq BOOLEAN
BY DEF Written

LEMMA KindLemma ==
  {"step.start", "message", "step.result", "decision", "log.truncated"} \subseteq Kind
BY DEF Kind, Bulk, Structure

(* A handler that leaves the file alone, and the numbers and phases of the *)
(* entries too.                                                            *)
LEMMA BesideFileLemma ==
  ASSUME LogInv, log' = log, feed' \in Seq(Nat),
         work' \in [Runs -> [Steps -> {"idle", "running", "done"}]],
         sink' \in [Runs -> RunLogEntry],
         \A r \in Runs : sink'[r].phase = "open" =>
           sink[r].phase = "open" /\ sink'[r].seq = sink[r].seq
  PROVE  LogInv'
<1>1. LogTypeOK'
  BY DEF LogInv, LogTypeOK
<1>2. FileOK(log)'
  BY DEF LogInv, FileOK, Increasing, Positive, File, Line, Kind, Bulk, Structure
<1> QED BY <1>1, <1>2 DEF LogInv, Bounded

(* A handler after which no run is registered.                             *)
LEMMA NobodyOpenLemma ==
  ASSUME LogInv, FileOK(log'), feed' \in Seq(Nat),
         work' \in [Runs -> [Steps -> {"idle", "running", "done"}]],
         sink' \in [Runs -> RunLogEntry],
         \A r \in Runs : sink'[r].phase # "open"
  PROVE  LogInv'
<1>1. FileOK(log)'
  BY DEF FileOK, Increasing, Positive, File, Line, Kind, Bulk, Structure
<1>2. LogTypeOK'
  BY DEF LogTypeOK, FileOK
<1> QED BY <1>1, <1>2 DEF LogInv, Bounded

LEMMA OpenStep ==
  ASSUME LogInv, ~Shared, NEW r \in Runs, Open(r)
  PROVE  LogInv'
<1>1. /\ log' = log /\ feed' = feed /\ work' = work
      /\ FileOK(log) /\ log.bytes \in Nat
      /\ sink \in [Runs -> RunLogEntry]
  BY DEF Open, LogInv, LogTypeOK, File
<1> DEFINE n == NextSeqFromFile(log.lines) - 1
           e == [sink[r] EXCEPT !.phase = "open", !.seq = n, !.bytes = log.bytes]
<1>2. n \in Nat /\ Bounded(log.lines, n)
  BY <1>1, NextSeqLemma
<1>3. sink' = [sink EXCEPT ![r] = e]
  BY DEF Open
<1>4. e \in RunLogEntry /\ e.phase = "open" /\ e.seq = n
  <2> HIDE DEF n
  <2> QED BY <1>1, <1>2 DEF RunLogEntry, Phase
<1>5. /\ sink' \in [Runs -> RunLogEntry]
      /\ sink'[r].phase = "open" /\ sink'[r].seq = n
      /\ \A q \in Runs \ {r} : sink'[q] = sink[q] /\ sink'[q].phase # "open"
  <2>1. \A q \in Runs \ {r} : sink[q].phase # "open"
    BY DEF Open, HasFile
  <2> HIDE DEF n, e
  <2> QED BY <1>1, <1>3, <1>4, <2>1
<1>6. LogTypeOK'
  BY <1>1, <1>5 DEF LogInv, LogTypeOK
<1>7. FileOK(log)'
  BY <1>1 DEF FileOK, Increasing, Positive, File, Line, Kind, Bulk, Structure
<1> HIDE DEF n
<1> QED BY <1>1, <1>2, <1>5, <1>6, <1>7 DEF LogInv, Bounded

LEMMA DecideStep ==
  ASSUME LogInv, ~Shared, NEW r \in Runs, NEW s \in Steps, Decide(r, s)
  PROVE  LogInv'
<1>1. work' \in [Runs -> [Steps -> {"idle", "running", "done"}]]
  BY DEF Decide, LogInv, LogTypeOK
<1>2. PICK written \in Written("decision") :
        \/ /\ sink[r].phase = "open"
           /\ Commit(r, AppendStepLog(State(r), r, s, "decision", written))
        \/ /\ sink[r].phase = "closed" /\ HasFile(r)
           /\ log' = AppendRunLogFileEvent(log, r, s, "decision", written)
           /\ UNCHANGED <<sink, feed>>
  BY DEF Decide
<1>3. written \in BOOLEAN /\ "decision" \in Kind
  BY WrittenLemma, KindLemma
<1>4. CASE Commit(r, AppendStepLog(State(r), r, s, "decision", written))
  BY <1>1, <1>3, <1>4, AppendedLemma
<1>5. CASE /\ sink[r].phase = "closed" /\ HasFile(r)
           /\ log' = AppendRunLogFileEvent(log, r, s, "decision", written)
           /\ UNCHANGED <<sink, feed>>
  <2> DEFINE n == NextSeqFromFile(log.lines)
             line == [seq |-> n, kind |-> "decision", run |-> r, step |-> s,
                      whole |-> TRUE]
  <2>1. FileOK(log) /\ log \in File
    BY DEF LogInv, FileOK
  <2>2. n \in Nat \ {0} /\ Bounded(log.lines, n - 1)
    BY <2>1, NextSeqLemma
  <2>3. line \in Line /\ n - 1 \in Nat /\ n - 1 < line.seq
    <3> HIDE DEF n
    <3> QED BY <1>3, <2>2 DEF Line
  <2>4. log' = IF written THEN PutLine(log, line) ELSE [log EXCEPT !.spoiled = TRUE]
    BY <1>5 DEF AppendRunLogFileEvent
  <2>5. FileOK(log')
    <3>1. CASE written
      <4> HIDE DEF n, line
      <4> QED BY <2>1, <2>2, <2>3, <2>4, <3>1, PutLineLemma
    <3>2. CASE ~written
      <4>1. /\ log' \in File
            /\ log'.lines = log.lines /\ log'.torn = log.torn
        BY <2>1, <2>4, <3>2 DEF File
      <4> QED BY <2>1, <4>1 DEF FileOK
    <3> QED BY <3>1, <3>2
  <2>6. \A q \in Runs : sink'[q].phase # "open"
    BY <1>5 DEF HasFile
  <2>7. sink' \in [Runs -> RunLogEntry] /\ feed' \in Seq(Nat)
    BY <1>5 DEF LogInv, LogTypeOK
  <2> QED BY <1>1, <2>5, <2>6, <2>7, NobodyOpenLemma
<1> QED BY <1>2, <1>4, <1>5

LEMMA CancelStepStep ==
  ASSUME LogInv, NEW r \in Runs, NEW s \in Steps, CancelStep(r, s)
  PROVE  LogInv'
<1> DEFINE e == [sink[r] EXCEPT !.closing = @ \ {s}]
           st == [State(r) EXCEPT !.entry = e]
<1>1. PICK written \in Written("step.result") :
        Commit(r, AppendStepLog([State(r) EXCEPT !.entry.closing = @ \ {s}],
                                r, s, "step.result", written))
  BY DEF CancelStep
<1>2. [State(r) EXCEPT !.entry.closing = @ \ {s}] = st
  BY DEF State
<1>3. /\ StateOK(State(r)) /\ State(r).entry = sink[r] /\ State(r).log = log
      /\ sink[r] \in RunLogEntry
  BY StateLemma DEF LogInv, LogTypeOK
<1>4. e \in RunLogEntry /\ e.seq = sink[r].seq /\ e.phase = sink[r].phase
  BY <1>3 DEF RunLogEntry
<1>5. StateOK(st) /\ st.entry = e /\ st.log = log
  <2>1. st.log = State(r).log
    OBVIOUS
  <2> HIDE DEF e
  <2> QED BY <1>3, <1>4, <2>1, EntryLemma
<1> DEFINE next == AppendStepLog(st, r, s, "step.result", written)
<1> HIDE DEF st, e
<1>6. written \in BOOLEAN /\ "step.result" \in Kind
  BY WrittenLemma, KindLemma
<1>7. StateOK(next) /\ next.entry.phase = sink[r].phase
  BY <1>4, <1>5, <1>6, AppendStepLogLemma
<1>8. sink[r].phase = "open" \/ next.log = log
  BY <1>4, <1>5 DEF AppendStepLog
<1>9. Commit(r, next) /\ work' \in [Runs -> [Steps -> {"idle", "running", "done"}]]
  BY <1>1, <1>2 DEF CancelStep, LogInv, LogTypeOK
<1> HIDE DEF next
<1> QED BY <1>7, <1>8, <1>9, CommitLemma

LEMMA CrashStep ==
  ASSUME LogInv, Crash
  PROVE  LogInv'
<1>1. FileOK(log) /\ log \in File /\ sink \in [Runs -> RunLogEntry]
  BY DEF LogInv, LogTypeOK
<1>2. FileOK(log')
  <2>1. CASE UNCHANGED log
    BY <1>1, <2>1
  <2>2. ASSUME NEW r \in Runs, NEW s \in Steps, NEW all \in BOOLEAN,
               sink[r].phase = "open",
               log' = CutLine(log, [seq |-> sink[r].seq + 1, kind |-> "step.result",
                                    run |-> r, step |-> s, whole |-> TRUE], all)
        PROVE  FileOK(log')
    <3> DEFINE n == sink[r].seq
               line == [seq |-> n + 1, kind |-> "step.result", run |-> r,
                        step |-> s, whole |-> all]
               put == PutLine(log, line)
    <3>1. n \in Nat /\ Bounded(log.lines, n)
      BY <1>1, <2>2 DEF LogInv, RunLogEntry
    <3>2. line \in Line /\ n < line.seq
      <4> HIDE DEF n
      <4> QED BY <3>1, KindLemma DEF Line
    <3>3. FileOK(put) /\ put.lines # <<>>
      <4> HIDE DEF n, line
      <4> QED BY <1>1, <3>1, <3>2, PutLineLemma
    <3>4. log' = [put EXCEPT !.torn = TRUE]
      <4> DEFINE full == [seq |-> n + 1, kind |-> "step.result", run |-> r,
                          step |-> s, whole |-> TRUE]
      <4>1. [full EXCEPT !.whole = all] = line
        OBVIOUS
      <4>2. log' = CutLine(log, full, all)
        BY <2>2
      <4> HIDE DEF full, line
      <4> QED BY <4>1, <4>2 DEF CutLine
    <3>5. log' \in File /\ log'.lines = put.lines
      <4> HIDE DEF put
      <4> QED BY <3>3, <3>4 DEF FileOK, File
    <3> QED BY <3>3, <3>5 DEF FileOK
  <2> QED BY <2>1, <2>2 DEF Crash
<1>3. /\ \A r \in Runs : sink'[r] \in RunLogEntry /\ sink'[r].phase # "open"
      /\ sink' \in [Runs -> RunLogEntry]
  <2>1. \A r \in Runs :
          [sink[r] EXCEPT !.phase = "dead", !.listening = FALSE] \in RunLogEntry
    BY <1>1 DEF RunLogEntry, Phase
  <2>2. \A r \in Runs :
          [sink[r] EXCEPT !.phase = "dead", !.listening = FALSE].phase = "dead"
    BY <1>1 DEF RunLogEntry
  <2> QED BY <1>1, <2>1, <2>2 DEF Crash
<1>4. work' \in [Runs -> [Steps -> {"idle", "running", "done"}]]
  BY DEF Crash, LogInv, LogTypeOK
<1>5. feed' \in Seq(Nat)
  <2>1. feed' = <<>>
    BY DEF Crash
  <2> QED BY <2>1
<1> QED BY <1>2, <1>3, <1>4, <1>5, NobodyOpenLemma

LEMMA LogInvNext ==
  ASSUME LogInv, ~Shared, [LogNext]_logVars
  PROVE  LogInv'
<1>0. /\ log \in File /\ sink \in [Runs -> RunLogEntry] /\ feed \in Seq(Nat)
      /\ work \in [Runs -> [Steps -> {"idle", "running", "done"}]]
  BY DEF LogInv, LogTypeOK
<1>1. CASE UNCHANGED logVars
  BY <1>0, <1>1, BesideFileLemma DEF logVars
<1>2. CASE Crash
  BY <1>2, CrashStep
<1>3. CASE Deliver
  <2>1. /\ log' = log /\ sink' = sink /\ work' = work
        /\ feed # <<>> /\ feed' = Tail(feed)
    BY <1>3 DEF Deliver
  <2>2. feed' \in Seq(Nat)
    BY <1>0, <2>1
  <2> QED BY <1>0, <2>1, <2>2, BesideFileLemma
<1>4. ASSUME NEW r \in Runs, Subscribe(r)
      PROVE  LogInv'
  <2> DEFINE e == [sink[r] EXCEPT !.listening = sink[r].phase = "open"]
  <2>1. log' = log /\ feed' = feed /\ work' = work /\ sink' = [sink EXCEPT ![r] = e]
    BY <1>4 DEF Subscribe
  <2>2. e \in RunLogEntry /\ e.phase = sink[r].phase /\ e.seq = sink[r].seq
    BY <1>0 DEF RunLogEntry
  <2> HIDE DEF e
  <2> QED BY <1>0, <2>1, <2>2, BesideFileLemma
<1>5. ASSUME NEW r \in Runs, Cancel(r)
      PROVE  LogInv'
  <2>1. PICK inFlight \in InFlight(r) :
          sink' = [sink EXCEPT ![r].cancelled = TRUE, ![r].closing = inFlight]
    BY <1>5 DEF Cancel
  <2> DEFINE e == [sink[r] EXCEPT !.cancelled = TRUE, !.closing = inFlight]
  <2>2. log' = log /\ feed' = feed /\ work' = work
    BY <1>5 DEF Cancel
  <2>3. sink' = [sink EXCEPT ![r] = e]
    BY <1>0, <2>1
  <2>4. inFlight \subseteq Steps
    BY <2>1 DEF InFlight
  <2>5. e \in RunLogEntry /\ e.phase = sink[r].phase /\ e.seq = sink[r].seq
    BY <1>0, <2>4 DEF RunLogEntry
  <2> HIDE DEF e
  <2> QED BY <1>0, <2>2, <2>3, <2>5, BesideFileLemma
<1>6. ASSUME NEW r \in Runs, Close(r)
      PROVE  LogInv'
  <2> DEFINE e == [sink[r] EXCEPT !.phase = "closed", !.listening = FALSE]
  <2>1. log' = log /\ feed' = feed /\ work' = work /\ sink' = [sink EXCEPT ![r] = e]
    BY <1>6 DEF Close
  <2>2. e \in RunLogEntry /\ e.phase = "closed"
    BY <1>0 DEF RunLogEntry, Phase
  <2> HIDE DEF e
  <2> QED BY <1>0, <2>1, <2>2, BesideFileLemma
<1>7. ASSUME NEW r \in Runs, NEW s \in Steps,
             StartStep(r, s) \/ Emit(r, s) \/ FinishStep(r, s)
      PROVE  LogInv'
  <2>1. work' \in [Runs -> [Steps -> {"idle", "running", "done"}]]
    BY <1>0, <1>7 DEF StartStep, Emit, FinishStep
  <2>2. \E kind \in Kind, written \in BOOLEAN :
          Commit(r, AppendStepLog(State(r), r, s, kind, written))
    BY <1>7, WrittenLemma, KindLemma DEF StartStep, Emit, FinishStep
  <2> QED BY <2>1, <2>2, AppendedLemma
<1> QED BY <1>1, <1>2, <1>3, <1>4, <1>5, <1>6, <1>7, OpenStep, DecideStep,
           CancelStepStep DEF LogNext, RunNext
-----------------------------------------------------------------------------
PageHasRun == "run" \in DOMAIN page /\ page.run \in Runs

LEMMA MergeLemma ==
  ASSUME NEW p, NEW incoming, "run" \in DOMAIN p
  PROVE  "run" \in DOMAIN Merge(p, incoming) /\ Merge(p, incoming).run = p.run
BY DEF Merge

LEMMA PageKeepsRun ==
  ASSUME PageHasRun, [Next]_vars
  PROVE  PageHasRun'
<1>1. CASE UNCHANGED page
  BY <1>1 DEF PageHasRun
<1>2. CASE PageOpens \/ StreamConnects \/ LogServed \/ DaemonDies
  BY <1>2 DEF PageOpens, StreamConnects, LogServed, DaemonDies, PageHasRun
<1>3. CASE LogArrives
  <2> DEFINE served == Merge(page, page.served)
             both == Merge(served, page.buffer)
  <2>1. "run" \in DOMAIN both /\ both.run = page.run
    <3>1. "run" \in DOMAIN served /\ served.run = page.run
      BY MergeLemma DEF PageHasRun
    <3> HIDE DEF served
    <3> QED BY <3>1, MergeLemma
  <2>2. page' = [both EXCEPT !.log = "applied", !.buffer = {}, !.served = {}]
    BY <1>3 DEF LogArrives
  <2> HIDE DEF both
  <2> QED BY <2>1, <2>2 DEF PageHasRun
<1>4. CASE StreamDelivers
  <2>1. \/ page' = Merge(page, {Head(feed)})
        \/ page' = [page EXCEPT !.buffer = @ \cup {Head(feed)}]
    BY <1>4 DEF StreamDelivers
  <2>2. CASE page' = Merge(page, {Head(feed)})
    BY <2>2, MergeLemma DEF PageHasRun
  <2>3. CASE page' = [page EXCEPT !.buffer = @ \cup {Head(feed)}]
    BY <2>3 DEF PageHasRun
  <2> QED BY <2>1, <2>2, <2>3
<1> QED BY <1>1, <1>2, <1>3, <1>4
    DEF Next, PageNext, PollNext, PollHeaders, PollBody, PollDisk, vars

(* Whatever the readers do, the file sees only steps of StepLog.           *)
LEMMA ReadersStepsAreLogSteps ==
  ASSUME [Next]_vars, PageHasRun
  PROVE  [LogNext]_logVars
<1>1. CASE UNCHANGED vars
  BY <1>1 DEF vars
<1>2. ASSUME NEW r \in Runs, RunNext(r)
      PROVE  LogNext
  BY <1>2 DEF LogNext
<1>3. CASE DaemonDies
  BY <1>3 DEF DaemonDies, LogNext
<1>4. CASE PageNext
  <2>1. CASE PageOpens \/ LogServed \/ LogArrives
    BY <2>1 DEF PageOpens, LogServed, LogArrives
  <2>2. CASE StreamDelivers
    BY <2>2 DEF StreamDelivers, LogNext
  <2>3. CASE StreamConnects
    <3>1. Subscribe(page.run) /\ page.run \in Runs
      BY <2>3 DEF StreamConnects, PageHasRun
    <3> QED BY <3>1 DEF LogNext
  <2> QED BY <1>4, <2>1, <2>2, <2>3 DEF PageNext
<1>5. CASE PollNext
  BY <1>5 DEF PollNext, PollHeaders, PollBody, PollDisk
<1> QED BY <1>1, <1>2, <1>3, <1>4, <1>5 DEF Next

(* Lines that can be read are numbered upwards, whatever crashes, torn     *)
(* lines, failed appends, caps, cancellations, late decisions and readers  *)
(* there are, as long as one run at a time holds the file.                 *)
THEOREM NumbersIncrease ==
  ASSUME ~Shared
  PROVE  Spec => []SeqsIncrease
<1>1. ReadersInit => LogInv /\ PageHasRun
  BY LogInvInit DEF ReadersInit, PageHasRun
<1>2. LogInv /\ PageHasRun /\ [Next]_vars => (LogInv /\ PageHasRun)'
  BY ReadersStepsAreLogSteps, LogInvNext, PageKeepsRun
<1>3. LogInv => SeqsIncrease
  BY DEF LogInv, FileOK, Increasing, SeqsIncrease, Readable, Complete
<1> QED BY <1>1, <1>2, <1>3, PTL DEF Spec
-----------------------------------------------------------------------------
(* The story of a step in the file.  It needs no more of the file than its *)
(* type, and holds with several runs at work on it.                        *)

LinesIn(file, r, s, kind) ==
  {i \in DOMAIN file.lines : /\ file.lines[i].run = r
                             /\ file.lines[i].step = s
                             /\ file.lines[i].kind = kind}

StoryKinds == {"step.start", "step.result"}

FileTyped(file) ==
  /\ file \in File
  /\ file.torn => file.lines # <<>>

(* From before to after the story has not changed; it has got one line.    *)
SameStory(before, after) ==
  after.spoiled \/
    /\ ~before.spoiled
    /\ \A q \in Runs, t \in Steps, k \in StoryKinds :
         LinesIn(after, q, t, k) = LinesIn(before, q, t, k)

OneMore(before, after, r, s, kind) ==
  after.spoiled \/
    /\ ~before.spoiled
    /\ \E i : LinesIn(after, r, s, kind) = LinesIn(before, r, s, kind) \cup {i}
    /\ \A q \in Runs, t \in Steps, k \in StoryKinds :
         <<q, t, k>> # <<r, s, kind>> =>
           LinesIn(after, q, t, k) = LinesIn(before, q, t, k)

LEMMA PutLineStory ==
  ASSUME NEW file, FileTyped(file), NEW line \in Line
  PROVE  /\ FileTyped(PutLine(file, line))
         /\ line.kind \in StoryKinds =>
              OneMore(file, PutLine(file, line), line.run, line.step, line.kind)
         /\ line.kind \notin StoryKinds => SameStory(file, PutLine(file, line))
<1> DEFINE lines == file.lines
           last == Len(lines)
           put == PutLine(file, line)
<1>1. /\ file \in File /\ lines \in Seq(Line)
      /\ file.torn \in BOOLEAN /\ file.bytes \in Nat /\ file.spoiled \in BOOLEAN
  BY DEF FileTyped, File
<1>2. line.seq \in Nat /\ line.kind \in Kind /\ Weight(line.kind) \in Nat
  BY DEF Line, Weight
<1>3. CASE file.torn
  <2> DEFINE merged == [line EXCEPT !.kind = lines[last].kind, !.whole = FALSE]
             ls == [lines EXCEPT ![last] = merged]
  <2>1. last \in DOMAIN lines
    BY <1>1, <1>3 DEF FileTyped
  <2>2. lines[last] \in Line
    BY <1>1, <2>1
  <2>3. merged \in Line
    BY <2>2 DEF Line
  <2>4. ls \in Seq(Line) /\ DOMAIN ls = DOMAIN lines
    <3> HIDE DEF merged
    <3> QED BY <1>1, <2>1, <2>3
  <2>5. put = [lines |-> ls, torn |-> FALSE,
               bytes |-> file.bytes + Weight(line.kind),
               spoiled |-> file.spoiled \/ file.torn]
    BY <1>3 DEF PutLine
  <2>6. put \in File /\ ~put.torn /\ put.spoiled
    <3> HIDE DEF ls
    <3> QED BY <1>1, <1>2, <1>3, <2>4, <2>5 DEF File
  <2> HIDE DEF put
  <2> QED BY <2>6 DEF FileTyped, OneMore, SameStory, put
<1>4. CASE ~file.torn
  <2> DEFINE ls == Append(lines, line)
  <2>1. put = [lines |-> ls, torn |-> FALSE,
               bytes |-> file.bytes + Weight(line.kind),
               spoiled |-> file.spoiled \/ file.torn]
    BY <1>4 DEF PutLine
  <2>2. /\ ls \in Seq(Line)
        /\ last \in Nat
        /\ DOMAIN lines = 1..last /\ DOMAIN ls = 1..(last + 1)
        /\ ls[last + 1] = line
        /\ \A i \in 1..last : ls[i] = lines[i]
    BY <1>1
  <2>3. put \in File /\ ~put.torn /\ put.lines = ls /\ put.spoiled = file.spoiled
    <3> HIDE DEF ls
    <3> QED BY <1>1, <1>2, <1>4, <2>1, <2>2 DEF File
  <2>4. ASSUME NEW q, NEW t, NEW k, <<q, t, k>> # <<line.run, line.step, line.kind>>
        PROVE  LinesIn(put, q, t, k) = LinesIn(file, q, t, k)
    <3>1. ~(line.run = q /\ line.step = t /\ line.kind = k)
      BY <2>4
    <3> HIDE DEF ls, put, last, lines
    <3> QED BY <2>2, <2>3, <3>1 DEF LinesIn, lines
  <2>5. LinesIn(put, line.run, line.step, line.kind) =
          LinesIn(file, line.run, line.step, line.kind) \cup {last + 1}
    <3> HIDE DEF ls, put, last, lines
    <3> QED BY <2>2, <2>3 DEF LinesIn, lines
  <2> HIDE DEF put
  <2>6. FileTyped(put)
    BY <2>3 DEF FileTyped
  <2>7. line.kind \in StoryKinds => OneMore(file, put, line.run, line.step, line.kind)
    BY <2>3, <2>4, <2>5 DEF OneMore
  <2>8. line.kind \notin StoryKinds => SameStory(file, put)
    <3>1. \A q, t, k : k \in StoryKinds /\ line.kind \notin StoryKinds =>
            <<q, t, k>> # <<line.run, line.step, line.kind>>
      OBVIOUS
    <3> QED BY <2>3, <2>4, <3>1 DEF SameStory
  <2> QED BY <2>6, <2>7, <2>8 DEF put
<1> QED BY <1>1, <1>3, <1>4

LEMMA PutLineNotEmpty ==
  ASSUME NEW file, FileTyped(file), NEW line
  PROVE  PutLine(file, line).lines # <<>>
<1>1. file.lines \in Seq(Line)
  BY DEF FileTyped, File
<1>2. CASE file.torn
  <2> DEFINE last == Len(file.lines)
             merged == [line EXCEPT !.kind = file.lines[last].kind, !.whole = FALSE]
  <2>1. PutLine(file, line).lines = [file.lines EXCEPT ![last] = merged]
    BY <1>2 DEF PutLine
  <2>2. last \in DOMAIN file.lines
    BY <1>1, <1>2 DEF FileTyped
  <2>3. DOMAIN [file.lines EXCEPT ![last] = merged] # {}
    BY <2>2
  <2>4. DOMAIN <<>> = {}
    OBVIOUS
  <2> HIDE DEF merged, last
  <2> QED BY <2>1, <2>3, <2>4
<1>3. CASE ~file.torn
  <2>1. PutLine(file, line).lines = Append(file.lines, line)
    BY <1>3 DEF PutLine
  <2>2. Len(Append(file.lines, line)) = Len(file.lines) + 1
    BY <1>1
  <2> QED BY <1>1, <2>1, <2>2
<1> QED BY <1>2, <1>3

(* The state a handler works on, and what of the entry it leaves alone.    *)
StateTyped(st) ==
  /\ st \in [log: File, entry: RunLogEntry, feed: Seq(Nat)]
  /\ FileTyped(st.log)

SameRole(before, after) ==
  /\ after.phase = before.phase
  /\ after.cancelled = before.cancelled
  /\ after.closing = before.closing
  /\ after.settledSteps = before.settledSteps

LEMMA WriteEventStory ==
  ASSUME NEW st, StateTyped(st),
         NEW r \in Runs, NEW s \in Steps, NEW kind \in Kind, NEW written \in BOOLEAN
  PROVE  LET next == WriteEvent(st, r, s, kind, written)
         IN  /\ StateTyped(next)
             /\ SameRole(st.entry, next.entry)
             /\ kind \in StoryKinds => OneMore(st.log, next.log, r, s, kind)
             /\ kind \notin StoryKinds => SameStory(st.log, next.log)
<1> DEFINE n == st.entry.seq + 1
           line == [seq |-> n, kind |-> kind, run |-> r, step |-> s, whole |-> TRUE]
           file == IF written THEN PutLine(st.log, line)
                   ELSE [st.log EXCEPT !.spoiled = TRUE]
           entry == [st.entry EXCEPT !.seq = n, !.bytes = @ + Weight(kind)]
           next == WriteEvent(st, r, s, kind, written)
<1>1. /\ FileTyped(st.log) /\ st.log \in File
      /\ st.entry \in RunLogEntry /\ st.feed \in Seq(Nat)
  BY DEF StateTyped
<1>2. n \in Nat
  BY <1>1 DEF RunLogEntry
<1>3. line \in Line /\ line.run = r /\ line.step = s /\ line.kind = kind
  BY <1>2 DEF Line
<1>4. /\ FileTyped(file)
      /\ kind \in StoryKinds => OneMore(st.log, file, r, s, kind)
      /\ kind \notin StoryKinds => SameStory(st.log, file)
  <2>1. CASE written
    <3> HIDE DEF line, n
    <3> QED BY <1>1, <1>3, <2>1, PutLineStory
  <2>2. CASE ~written
    <3>1. /\ file = [st.log EXCEPT !.spoiled = TRUE]
          /\ file \in File /\ file.spoiled
          /\ file.lines = st.log.lines /\ file.torn = st.log.torn
      BY <1>1, <2>2 DEF File
    <3> HIDE DEF file
    <3> QED BY <1>1, <3>1 DEF FileTyped, OneMore, SameStory
  <2> QED BY <2>1, <2>2
<1>5. entry \in RunLogEntry /\ SameRole(st.entry, entry)
  <2>1. st.entry.bytes + Weight(kind) \in Nat
    BY <1>1 DEF Weight, RunLogEntry
  <2>2. entry = [st.entry EXCEPT !.seq = n, !.bytes = st.entry.bytes + Weight(kind)]
    BY <1>1 DEF RunLogEntry
  <2> HIDE DEF n
  <2>3. entry \in RunLogEntry
    BY <1>1, <1>2, <2>1, <2>2 DEF RunLogEntry
  <2>4. SameRole(st.entry, entry)
    BY <1>1, <2>2 DEF RunLogEntry, SameRole
  <2> QED BY <2>3, <2>4
<1>6. next.feed \in Seq(Nat)
  BY <1>1, <1>2 DEF WriteEvent
<1>7. next.log = file /\ next.entry = entry
  BY DEF WriteEvent
<1>8. next \in [log: File, entry: RunLogEntry, feed: Seq(Nat)]
  <2>1. /\ next = [log |-> next.log, entry |-> next.entry, feed |-> next.feed]
        /\ file \in File
    BY <1>4 DEF WriteEvent, FileTyped
  <2> HIDE DEF next, file, entry
  <2> QED BY <1>5, <1>6, <1>7, <2>1
<1> HIDE DEF next, file, entry
<1> QED BY <1>4, <1>5, <1>7, <1>8 DEF StateTyped, next

LEMMA SameStoryThen ==
  ASSUME NEW before, NEW between, NEW after, SameStory(before, between),
         NEW r, NEW s, NEW kind \in StoryKinds
  PROVE  /\ SameStory(between, after) => SameStory(before, after)
         /\ r \in Runs /\ s \in Steps /\ OneMore(between, after, r, s, kind)
              => OneMore(before, after, r, s, kind)
<1>1. CASE between.spoiled
  BY <1>1 DEF SameStory, OneMore
<1>2. CASE ~between.spoiled
  <2>1. /\ ~before.spoiled
        /\ \A q \in Runs, t \in Steps, k \in StoryKinds :
             LinesIn(between, q, t, k) = LinesIn(before, q, t, k)
    BY <1>2 DEF SameStory
  <2>2. SameStory(between, after) => SameStory(before, after)
    BY <2>1 DEF SameStory
  <2>3. ASSUME r \in Runs, s \in Steps, OneMore(between, after, r, s, kind),
               ~after.spoiled
        PROVE  OneMore(before, after, r, s, kind)
    <3>1. PICK i : LinesIn(after, r, s, kind) = LinesIn(between, r, s, kind) \cup {i}
      BY <2>3 DEF OneMore
    <3>2. LinesIn(after, r, s, kind) = LinesIn(before, r, s, kind) \cup {i}
      BY <2>1, <2>3, <3>1
    <3>3. ASSUME NEW q \in Runs, NEW t \in Steps, NEW k \in StoryKinds,
                 <<q, t, k>> # <<r, s, kind>>
          PROVE  LinesIn(after, q, t, k) = LinesIn(before, q, t, k)
      <4>1. LinesIn(after, q, t, k) = LinesIn(between, q, t, k)
        BY <2>3, <3>3 DEF OneMore
      <4> QED BY <2>1, <4>1
    <3> QED BY <2>1, <3>2, <3>3 DEF OneMore
  <2> QED BY <2>2, <2>3 DEF OneMore
<1> QED BY <1>1, <1>2

LEMMA TruncateStory ==
  ASSUME NEW st, StateTyped(st),
         NEW r \in Runs, NEW s \in Steps, NEW written \in BOOLEAN
  PROVE  LET next == Truncate(st, r, s, written)
         IN  /\ StateTyped(next)
             /\ SameRole(st.entry, next.entry)
             /\ SameStory(st.log, next.log)
<1> DEFINE e == [st.entry EXCEPT !.truncated = TRUE]
           marked == [st EXCEPT !.entry = e]
<1>1. SameStory(st.log, st.log)
  BY DEF SameStory
<1>2. CASE st.entry.truncated \/ ~CapReached(st.entry)
  BY <1>1, <1>2 DEF Truncate, SameRole
<1>3. CASE ~(st.entry.truncated \/ ~CapReached(st.entry))
  <2>1. Truncate(st, r, s, written) = WriteEvent(marked, r, s, "log.truncated", written)
    BY <1>3 DEF Truncate
  <2>2. e \in RunLogEntry /\ SameRole(st.entry, e)
    BY DEF StateTyped, RunLogEntry, SameRole
  <2>3. StateTyped(marked) /\ marked.log = st.log /\ marked.entry = e
    <3> HIDE DEF e
    <3> QED BY <2>2 DEF StateTyped
  <2>4. "log.truncated" \in Kind /\ "log.truncated" \notin StoryKinds
    BY DEF Kind, Structure, StoryKinds
  <2> HIDE DEF marked, e
  <2> QED BY <2>1, <2>2, <2>3, <2>4, WriteEventStory DEF SameRole
<1> QED BY <1>2, <1>3

(* The line is taken if the run is registered and, for a terminal line,    *)
(* the step has none; then a line of the story is in the file, caps or not.*)
Taken(entry, s, kind) ==
  entry.phase = "open" /\ ~(kind = "step.result" /\ s \in entry.settledSteps)

SettledAfter(entry, s, kind) ==
  IF kind = "step.result" /\ Taken(entry, s, kind)
    THEN entry.settledSteps \cup {s} ELSE entry.settledSteps

LEMMA AppendStepLogStory ==
  ASSUME NEW st, StateTyped(st),
         NEW r \in Runs, NEW s \in Steps, NEW kind \in Kind, NEW written \in BOOLEAN
  PROVE  LET next == AppendStepLog(st, r, s, kind, written)
         IN  /\ StateTyped(next)
             /\ next.entry.phase = st.entry.phase
             /\ next.entry.cancelled = st.entry.cancelled
             /\ next.entry.closing = st.entry.closing
             /\ next.entry.settledSteps = SettledAfter(st.entry, s, kind)
             /\ Taken(st.entry, s, kind) /\ kind \in StoryKinds =>
                  OneMore(st.log, next.log, r, s, kind)
             /\ ~Taken(st.entry, s, kind) \/ kind \notin StoryKinds =>
                  SameStory(st.log, next.log)
<1> DEFINE next == AppendStepLog(st, r, s, kind, written)
<1>1. CASE ~Taken(st.entry, s, kind)
  <2>1. next = st
    BY <1>1 DEF Taken, AppendStepLog, AlreadySettled
  <2> QED BY <1>1, <2>1 DEF SameStory, SettledAfter
<1>2. CASE Taken(st.entry, s, kind)
  <2> DEFINE e == [st.entry EXCEPT !.settledSteps = @ \cup {s}]
             settled == [st EXCEPT !.entry = e]
             settling == IF kind = "step.result" THEN settled ELSE st
             capped == Truncate(settling, r, s, written)
  <2>1. /\ StateTyped(settling) /\ settling.log = st.log
        /\ settling.entry.phase = st.entry.phase
        /\ settling.entry.cancelled = st.entry.cancelled
        /\ settling.entry.closing = st.entry.closing
        /\ settling.entry.settledSteps = SettledAfter(st.entry, s, kind)
    <3>1. CASE kind = "step.result"
      <4>1. /\ e \in RunLogEntry /\ e.phase = st.entry.phase
            /\ e.cancelled = st.entry.cancelled /\ e.closing = st.entry.closing
            /\ e.settledSteps = st.entry.settledSteps \cup {s}
        BY DEF StateTyped, RunLogEntry
      <4>2. StateTyped(settled) /\ settled.log = st.log /\ settled.entry = e
        <5> HIDE DEF e
        <5> QED BY <4>1 DEF StateTyped
      <4> HIDE DEF settled, e
      <4> QED BY <1>2, <3>1, <4>1, <4>2 DEF SettledAfter
    <3>2. CASE kind # "step.result"
      BY <3>2 DEF SettledAfter
    <3> QED BY <3>1, <3>2
  <2>2. /\ StateTyped(capped) /\ SameRole(settling.entry, capped.entry)
        /\ SameStory(settling.log, capped.log)
    <3> HIDE DEF settling
    <3> QED BY <2>1, TruncateStory
  <2>3. next = IF capped.entry.truncated /\ Dropped(kind) THEN capped
               ELSE WriteEvent(capped, r, s, kind, written)
    BY <1>2 DEF Taken, AppendStepLog, AlreadySettled, AppendOpen
  <2>4. CASE capped.entry.truncated /\ Dropped(kind)
    <3>1. kind \notin StoryKinds
      BY <2>4 DEF Dropped, Bulk, StoryKinds
    <3>2. next = capped
      BY <2>3, <2>4
    <3> HIDE DEF capped, settling, next
    <3>3. SameStory(st.log, next.log)
      BY <2>1, <2>2, <3>2
    <3>4. /\ StateTyped(next) /\ SameRole(settling.entry, next.entry)
      BY <2>2, <3>2
    <3> QED BY <2>1, <3>1, <3>3, <3>4 DEF SameRole, next
  <2>5. CASE ~(capped.entry.truncated /\ Dropped(kind))
    <3>1. next = WriteEvent(capped, r, s, kind, written)
      BY <2>3, <2>5
    <3> HIDE DEF capped, settling, next
    <3>2. /\ StateTyped(next) /\ SameRole(capped.entry, next.entry)
          /\ kind \in StoryKinds => OneMore(capped.log, next.log, r, s, kind)
          /\ kind \notin StoryKinds => SameStory(capped.log, next.log)
      BY <2>2, <3>1, WriteEventStory
    <3>3. SameStory(st.log, capped.log)
      BY <2>1, <2>2
    <3>4. /\ kind \in StoryKinds => OneMore(st.log, next.log, r, s, kind)
          /\ kind \notin StoryKinds => SameStory(st.log, next.log)
      <4>1. "step.start" \in StoryKinds
        BY DEF StoryKinds
      <4> QED BY <3>2, <3>3, <4>1, SameStoryThen
    <3>5. SameRole(settling.entry, next.entry)
      BY <2>2, <3>2 DEF SameRole
    <3> QED BY <1>2, <2>1, <3>2, <3>4, <3>5 DEF SameRole, next
  <2> QED BY <2>4, <2>5
<1> QED BY <1>1, <1>2

(* One past the last line that parses is a number.                         *)
LEMMA NextSeqIsNumber ==
  ASSUME NEW file \in File
  PROVE  NextSeqFromFile(file.lines) \in Nat \ {0}
<1> DEFINE lines == file.lines
           parses == {i \in DOMAIN lines : lines[i].whole}
           last == CHOOSE i \in parses : \A j \in parses : j <= i
<1>1. lines \in Seq(Line)
  BY DEF File
<1>2. CASE parses = {}
  BY <1>2 DEF NextSeqFromFile
<1>3. CASE parses # {}
  <2>1. \E i \in parses : \A j \in parses : j <= i
    <3>1. Len(lines) \in Nat /\ parses \subseteq 1..Len(lines)
      BY <1>1
    <3> HIDE DEF parses
    <3> QED BY <3>1, <1>3, HasGreatest
  <2>2. last \in DOMAIN lines
    BY <2>1
  <2>3. lines[last].seq \in Nat
    <3>1. lines[last] \in Line
      <4> HIDE DEF last, lines
      <4> QED BY <1>1, <2>2
    <3> QED BY <3>1 DEF Line
  <2>4. NextSeqFromFile(lines) = lines[last].seq + 1
    BY <1>3 DEF NextSeqFromFile
  <2> QED BY <2>3, <2>4
<1> QED BY <1>2, <1>3

(* What is known of a run: phase, cancelled, closing and settledSteps are  *)
(* those of its entry, doing is what its builders do.                      *)
RoleOK(phase, cancelled, closing, settled, doing) ==
  /\ phase = "new" =>
       /\ settled = {} /\ closing = {} /\ ~cancelled
       /\ \A s \in Steps : doing[s] = "idle"
  /\ closing # {} => phase = "open" /\ cancelled
  /\ phase = "open" => \A s \in Steps : doing[s] = "done" => s \in settled
  /\ phase = "open" /\ cancelled =>
       \A s \in Steps : doing[s] # "idle" => s \in settled \cup closing
  /\ phase = "closed" => \A s \in Steps : doing[s] # "idle" => s \in settled

EntryOK(entry, doing) ==
  RoleOK(entry.phase, entry.cancelled, entry.closing, entry.settledSteps, doing)

StoryTold(file, r, s, begun, settled) ==
  /\ begun => LinesIn(file, r, s, "step.start") # {}
  /\ settled => \E i : LinesIn(file, r, s, "step.result") = {i}
  /\ ~settled => LinesIn(file, r, s, "step.result") = {}

StoriesTold ==
  ~log.spoiled =>
    \A r \in Runs, s \in Steps :
      sink[r].phase # "dead" =>
        StoryTold(log, r, s, work[r][s] # "idle", s \in sink[r].settledSteps)

StoryInv ==
  /\ LogTypeOK
  /\ FileTyped(log)
  /\ \A r \in Runs : EntryOK(sink[r], work[r])
  /\ StoriesTold

LEMMA StoryInit == Init => StoryInv
<1> SUFFICES ASSUME Init PROVE StoryInv
  OBVIOUS
<1>1. LogTypeOK
  BY LogInvInit DEF LogInv
<1>2. FileTyped(log)
  BY <1>1 DEF LogTypeOK, FileTyped, Init
<1>3. \A r \in Runs : EntryOK(sink[r], work[r])
  BY DEF Init, EntryOK, RoleOK
<1>4. \A r \in Runs, s \in Steps : work[r][s] = "idle" /\ s \notin sink[r].settledSteps
  BY DEF Init
<1>5. \A r, s, kind : LinesIn(log, r, s, kind) = {}
  BY DEF Init, LinesIn
<1>6. StoriesTold
  BY <1>4, <1>5 DEF StoriesTold, StoryTold
<1> QED BY <1>1, <1>2, <1>3, <1>6 DEF StoryInv

(* A handler that writes nothing.                                          *)
LEMMA StoryBeside ==
  ASSUME StoryInv, log' = log, work' = work, feed' \in Seq(Nat),
         sink' \in [Runs -> RunLogEntry],
         \A r \in Runs :
           /\ sink'[r].settledSteps = sink[r].settledSteps
           /\ sink[r].phase = "dead" => sink'[r].phase = "dead"
           /\ EntryOK(sink'[r], work[r])
  PROVE  StoryInv'
<1>1. LogTypeOK'
  BY DEF StoryInv, LogTypeOK
<1>2. FileTyped(log)'
  BY DEF StoryInv, FileTyped, File, Line, Kind, Bulk, Structure
<1>3. StoriesTold'
  <2>1. ASSUME ~log'.spoiled, NEW r \in Runs, NEW s \in Steps,
               sink'[r].phase # "dead"
        PROVE  StoryTold(log', r, s, work'[r][s] # "idle", s \in sink'[r].settledSteps)
    <3>1. StoryTold(log, r, s, work[r][s] # "idle", s \in sink[r].settledSteps)
      BY <2>1 DEF StoryInv, StoriesTold
    <3> QED BY <3>1
  <2> QED BY <2>1 DEF StoriesTold, StoryTold, LinesIn
<1>4. \A r \in Runs : EntryOK(sink'[r], work'[r])
  OBVIOUS
<1>5. (\A r \in Runs : EntryOK(sink[r], work[r]))'
  BY <1>4 DEF EntryOK, RoleOK
<1> QED BY <1>1, <1>2, <1>3, <1>5 DEF StoryInv

(* A handler that appends to the log of r on behalf of s, working on st    *)
(* and leaving w of the builders.                                          *)
Fits(st, r, s, kind, w) ==
  /\ StateTyped(st)
  /\ st.log = log
  /\ st.entry.phase = sink[r].phase
  /\ st.entry.settledSteps = sink[r].settledSteps
  /\ w \in [Steps -> {"idle", "running", "done"}]
  /\ work' = [work EXCEPT ![r] = w]
  /\ \A t \in Steps \ {s} : w[t] = work[r][t]
  /\ w[s] # "idle" =>
       work[r][s] # "idle" \/ (kind = "step.start" /\ sink[r].phase = "open")
  /\ RoleOK(st.entry.phase, st.entry.cancelled, st.entry.closing,
            SettledAfter(st.entry, s, kind), w)

LEMMA StoryAppend ==
  ASSUME StoryInv, NEW r \in Runs, NEW s \in Steps, NEW kind \in Kind,
         NEW written \in BOOLEAN, NEW st, NEW w, Fits(st, r, s, kind, w),
         Commit(r, AppendStepLog(st, r, s, kind, written))
  PROVE  StoryInv'
<1> DEFINE next == AppendStepLog(st, r, s, kind, written)
           e == st.entry
<1>1. /\ StateTyped(st) /\ st.log = log
      /\ e.phase = sink[r].phase /\ e.settledSteps = sink[r].settledSteps
      /\ w \in [Steps -> {"idle", "running", "done"}]
      /\ work' = [work EXCEPT ![r] = w]
      /\ \A t \in Steps \ {s} : w[t] = work[r][t]
      /\ w[s] # "idle" =>
           work[r][s] # "idle" \/ (kind = "step.start" /\ sink[r].phase = "open")
      /\ RoleOK(e.phase, e.cancelled, e.closing, SettledAfter(e, s, kind), w)
  BY DEF Fits
<1>2. /\ StateTyped(next)
      /\ next.entry.phase = e.phase
      /\ next.entry.cancelled = e.cancelled
      /\ next.entry.closing = e.closing
      /\ next.entry.settledSteps = SettledAfter(e, s, kind)
      /\ Taken(e, s, kind) /\ kind \in StoryKinds => OneMore(log, next.log, r, s, kind)
      /\ ~Taken(e, s, kind) \/ kind \notin StoryKinds => SameStory(log, next.log)
  BY <1>1, AppendStepLogStory
<1>3. /\ log' = next.log /\ sink' = [sink EXCEPT ![r] = next.entry]
      /\ feed' = next.feed
  BY DEF Commit
<1> HIDE DEF next
<1>4. /\ sink \in [Runs -> RunLogEntry]
      /\ work \in [Runs -> [Steps -> {"idle", "running", "done"}]]
  BY DEF StoryInv, LogTypeOK
<1>5. /\ sink' \in [Runs -> RunLogEntry] /\ sink'[r] = next.entry
      /\ \A q \in Runs \ {r} : sink'[q] = sink[q]
      /\ work' \in [Runs -> [Steps -> {"idle", "running", "done"}]]
      /\ work'[r] = w /\ \A q \in Runs \ {r} : work'[q] = work[q]
  BY <1>1, <1>2, <1>3, <1>4 DEF StateTyped
<1>6. LogTypeOK' /\ FileTyped(log')
  BY <1>2, <1>3, <1>5 DEF LogTypeOK, StateTyped, FileTyped
<1>7. FileTyped(log)'
  BY <1>6 DEF FileTyped, File, Line, Kind, Bulk, Structure
<1>8. \A q \in Runs : EntryOK(sink'[q], work'[q])
  <2>1. EntryOK(sink'[r], work'[r])
    BY <1>1, <1>2, <1>5 DEF EntryOK
  <2>2. \A q \in Runs \ {r} : EntryOK(sink'[q], work'[q])
    BY <1>5 DEF StoryInv
  <2> QED BY <2>1, <2>2
<1>9. ASSUME ~log'.spoiled, NEW q \in Runs, NEW t \in Steps, sink'[q].phase # "dead"
      PROVE  StoryTold(log', q, t, work'[q][t] # "idle", t \in sink'[q].settledSteps)
  <2> DEFINE begun == work[q][t] # "idle"
             settled == t \in sink[q].settledSteps
  <2>1. "step.start" \in StoryKinds /\ "step.result" \in StoryKinds
        /\ \A k \in StoryKinds : k = "step.start" \/ k = "step.result"
    BY DEF StoryKinds
  <2>2. ~log.spoiled /\ sink[q].phase # "dead"
    BY <1>1, <1>2, <1>3, <1>4, <1>5, <1>9 DEF SameStory, OneMore
  <2>3. StoryTold(log, q, t, begun, settled)
    BY <2>2 DEF StoryInv, StoriesTold
  <2>4. CASE <<q, t>> # <<r, s>>
    <3>1. /\ work'[q][t] # "idle" <=> begun
          /\ t \in sink'[q].settledSteps <=> settled
      BY <1>1, <1>2, <1>5, <2>4 DEF SettledAfter
    <3>2. \A k \in StoryKinds : LinesIn(log', q, t, k) = LinesIn(log, q, t, k)
      <4>1. CASE SameStory(log, log')
        BY <1>9, <4>1 DEF SameStory
      <4>2. CASE OneMore(log, log', r, s, kind)
        <5>1. \A k : <<q, t, k>> # <<r, s, kind>>
          BY <2>4
        <5> QED BY <1>9, <4>2, <5>1 DEF OneMore
      <4> QED BY <1>2, <1>3, <4>1, <4>2
    <3> QED BY <2>1, <2>3, <3>1, <3>2 DEF StoryTold
  <2>5. CASE q = r /\ t = s /\ Taken(e, s, kind) /\ kind \in StoryKinds
    <3>1. OneMore(log, log', r, s, kind)
      BY <1>2, <1>3, <2>5
    <3>2. PICK i : LinesIn(log', r, s, kind) = LinesIn(log, r, s, kind) \cup {i}
      BY <1>9, <3>1 DEF OneMore
    <3>3. \A k \in StoryKinds \ {kind} :
            LinesIn(log', r, s, k) = LinesIn(log, r, s, k)
      <4>1. \A k : k # kind => <<r, s, k>> # <<r, s, kind>>
        OBVIOUS
      <4> QED BY <1>9, <3>1, <4>1 DEF OneMore
    <3>4. CASE kind = "step.start"
      <4>1. t \in sink'[q].settledSteps <=> settled
        BY <1>1, <1>2, <1>5, <2>5, <3>4 DEF SettledAfter
      <4>2. LinesIn(log', q, t, "step.start") # {}
        BY <2>5, <3>2, <3>4
      <4>3. LinesIn(log', q, t, "step.result") = LinesIn(log, q, t, "step.result")
        BY <2>1, <2>5, <3>3, <3>4
      <4> QED BY <2>3, <4>1, <4>2, <4>3 DEF StoryTold
    <3>5. CASE kind = "step.result"
      <4>1. t \in sink'[q].settledSteps /\ ~settled
        BY <1>1, <1>2, <1>5, <2>5, <3>5 DEF SettledAfter, Taken
      <4>2. LinesIn(log', q, t, "step.result") = {i}
        <5>1. LinesIn(log, q, t, "step.result") = {}
          BY <2>3, <4>1 DEF StoryTold
        <5> QED BY <2>5, <3>2, <3>5, <5>1
      <4>3. LinesIn(log', q, t, "step.start") = LinesIn(log, q, t, "step.start")
        BY <2>1, <2>5, <3>3, <3>5
      <4>4. work'[q][t] # "idle" => begun
        BY <1>1, <1>5, <2>5, <3>5
      <4> QED BY <2>3, <4>1, <4>2, <4>3, <4>4 DEF StoryTold
    <3> QED BY <2>1, <2>5, <3>4, <3>5
  <2>6. CASE q = r /\ t = s /\ ~(Taken(e, s, kind) /\ kind \in StoryKinds)
    <3>1. \A k \in StoryKinds : LinesIn(log', q, t, k) = LinesIn(log, q, t, k)
      <4>1. SameStory(log, log')
        BY <1>2, <1>3, <2>6
      <4> QED BY <1>9, <4>1 DEF SameStory
    <3>2. t \in sink'[q].settledSteps <=> settled
      BY <1>1, <1>2, <1>5, <2>1, <2>6 DEF SettledAfter
    <3>3. work'[q][t] # "idle" => begun
      BY <1>1, <1>5, <2>1, <2>6 DEF Taken
    <3> QED BY <2>1, <2>3, <3>1, <3>2, <3>3 DEF StoryTold
  <2> QED BY <2>4, <2>5, <2>6
<1>10. StoriesTold'
  BY <1>9 DEF StoriesTold, StoryTold, LinesIn
<1>11. (\A q \in Runs : EntryOK(sink[q], work[q]))'
  BY <1>8 DEF EntryOK, RoleOK
<1> QED BY <1>6, <1>7, <1>10, <1>11 DEF StoryInv

LEMMA StoryAppendHere ==
  ASSUME StoryInv, NEW r \in Runs, NEW s \in Steps, NEW kind \in Kind,
         NEW written \in BOOLEAN,
         Commit(r, AppendStepLog(State(r), r, s, kind, written)),
         NEW d \in {"idle", "running", "done"}, work' = [work EXCEPT ![r][s] = d],
         d # "idle" =>
           work[r][s] # "idle" \/ (kind = "step.start" /\ sink[r].phase = "open"),
         RoleOK(sink[r].phase, sink[r].cancelled, sink[r].closing,
                SettledAfter(sink[r], s, kind), [work[r] EXCEPT ![s] = d])
  PROVE  StoryInv'
<1> DEFINE w == [work[r] EXCEPT ![s] = d]
           st == State(r)
<1>1. /\ work \in [Runs -> [Steps -> {"idle", "running", "done"}]]
      /\ StateTyped(st) /\ st.log = log /\ st.entry = sink[r]
  BY DEF StoryInv, LogTypeOK, State, StateTyped
<1>2. /\ w \in [Steps -> {"idle", "running", "done"}] /\ w[s] = d
      /\ \A t \in Steps \ {s} : w[t] = work[r][t]
      /\ work' = [work EXCEPT ![r] = w]
  BY <1>1
<1>3. Fits(st, r, s, kind, w)
  BY <1>1, <1>2 DEF Fits
<1> HIDE DEF w
<1> QED BY <1>3, StoryAppend

LEMMA StoryStart ==
  ASSUME StoryInv, NEW r \in Runs, NEW s \in Steps, StartStep(r, s)
  PROVE  StoryInv'
<1>1. PICK written \in Written("step.start") :
        Commit(r, AppendStepLog(State(r), r, s, "step.start", written))
  BY DEF StartStep
<1>2. written \in BOOLEAN /\ "step.start" \in Kind
  BY WrittenLemma, KindLemma
<1>3. /\ work' = [work EXCEPT ![r][s] = "running"]
      /\ sink[r].phase = "open" /\ ~sink[r].cancelled
  BY DEF StartStep
<1>4. EntryOK(sink[r], work[r]) /\ work[r] \in [Steps -> {"idle", "running", "done"}]
  BY DEF StoryInv, LogTypeOK
<1>5. RoleOK(sink[r].phase, sink[r].cancelled, sink[r].closing,
             SettledAfter(sink[r], s, "step.start"), [work[r] EXCEPT ![s] = "running"])
  BY <1>3, <1>4 DEF EntryOK, RoleOK, SettledAfter
<1> QED BY <1>1, <1>2, <1>3, <1>5, StoryAppendHere

LEMMA StoryEmit ==
  ASSUME StoryInv, NEW r \in Runs, NEW s \in Steps, Emit(r, s)
  PROVE  StoryInv'
<1>1. PICK written \in Written("message") :
        Commit(r, AppendStepLog(State(r), r, s, "message", written))
  BY DEF Emit
<1>2. written \in BOOLEAN /\ "message" \in Kind
  BY WrittenLemma, KindLemma
<1>3. /\ work[r] \in [Steps -> {"idle", "running", "done"}]
      /\ work \in [Runs -> [Steps -> {"idle", "running", "done"}]]
      /\ EntryOK(sink[r], work[r])
  BY DEF StoryInv, LogTypeOK
<1>4. work' = [work EXCEPT ![r][s] = work[r][s]] /\ [work[r] EXCEPT ![s] = work[r][s]] = work[r]
  BY <1>3 DEF Emit
<1>5. SettledAfter(sink[r], s, "message") = sink[r].settledSteps
  BY DEF SettledAfter
<1>6. RoleOK(sink[r].phase, sink[r].cancelled, sink[r].closing,
             SettledAfter(sink[r], s, "message"), [work[r] EXCEPT ![s] = work[r][s]])
  BY <1>3, <1>4, <1>5 DEF EntryOK
<1>7. work[r][s] \in {"idle", "running", "done"}
  BY <1>3
<1> QED BY <1>1, <1>2, <1>4, <1>6, <1>7, StoryAppendHere

LEMMA StoryFinish ==
  ASSUME StoryInv, NEW r \in Runs, NEW s \in Steps, FinishStep(r, s)
  PROVE  StoryInv'
<1>1. PICK written \in Written("step.result") :
        Commit(r, AppendStepLog(State(r), r, s, "step.result", written))
  BY DEF FinishStep
<1>2. written \in BOOLEAN /\ "step.result" \in Kind
  BY WrittenLemma, KindLemma
<1>3. work' = [work EXCEPT ![r][s] = "done"] /\ work[r][s] = "running"
  BY DEF FinishStep
<1>4. EntryOK(sink[r], work[r]) /\ work[r] \in [Steps -> {"idle", "running", "done"}]
  BY DEF StoryInv, LogTypeOK
<1>5. RoleOK(sink[r].phase, sink[r].cancelled, sink[r].closing,
             SettledAfter(sink[r], s, "step.result"), [work[r] EXCEPT ![s] = "done"])
  <2>1. sink[r].phase = "open" => s \in SettledAfter(sink[r], s, "step.result")
    BY DEF SettledAfter, Taken
  <2>2. /\ sink[r].settledSteps \subseteq SettledAfter(sink[r], s, "step.result")
        /\ sink[r].phase # "open" =>
             SettledAfter(sink[r], s, "step.result") = sink[r].settledSteps
    BY DEF SettledAfter, Taken
  <2> DEFINE w == [work[r] EXCEPT ![s] = "done"]
  <2>3. w[s] = "done" /\ \A t \in Steps \ {s} : w[t] = work[r][t]
    BY <1>4
  <2> HIDE DEF w
  <2>4. RoleOK(sink[r].phase, sink[r].cancelled, sink[r].closing,
               SettledAfter(sink[r], s, "step.result"), w)
    BY <1>3, <1>4, <2>1, <2>2, <2>3 DEF EntryOK, RoleOK
  <2> QED BY <2>4 DEF w
<1> QED BY <1>1, <1>2, <1>3, <1>5, StoryAppendHere

LEMMA StoryDecide ==
  ASSUME StoryInv, NEW r \in Runs, NEW s \in Steps, Decide(r, s)
  PROVE  StoryInv'
<1>1. PICK written \in Written("decision") :
        \/ /\ sink[r].phase = "open"
           /\ Commit(r, AppendStepLog(State(r), r, s, "decision", written))
        \/ /\ log' = AppendRunLogFileEvent(log, r, s, "decision", written)
           /\ UNCHANGED <<sink, feed>>
  BY DEF Decide
<1>2. written \in BOOLEAN /\ "decision" \in Kind /\ "decision" \notin StoryKinds
  BY WrittenLemma, KindLemma DEF StoryKinds
<1>3. /\ work[r] \in [Steps -> {"idle", "running", "done"}]
      /\ work \in [Runs -> [Steps -> {"idle", "running", "done"}]]
      /\ EntryOK(sink[r], work[r]) /\ FileTyped(log) /\ log \in File
      /\ work' = work
  BY DEF StoryInv, LogTypeOK, Decide
<1>4. CASE Commit(r, AppendStepLog(State(r), r, s, "decision", written))
  <2>1. /\ work' = [work EXCEPT ![r][s] = work[r][s]]
        /\ [work[r] EXCEPT ![s] = work[r][s]] = work[r]
    BY <1>3
  <2>2. SettledAfter(sink[r], s, "decision") = sink[r].settledSteps
    BY DEF SettledAfter
  <2>3. RoleOK(sink[r].phase, sink[r].cancelled, sink[r].closing,
               SettledAfter(sink[r], s, "decision"), [work[r] EXCEPT ![s] = work[r][s]])
    BY <1>3, <2>1, <2>2 DEF EntryOK
  <2>4. work[r][s] \in {"idle", "running", "done"}
    BY <1>3
  <2> QED BY <1>2, <1>4, <2>1, <2>3, <2>4, StoryAppendHere
<1>5. CASE /\ log' = AppendRunLogFileEvent(log, r, s, "decision", written)
           /\ UNCHANGED <<sink, feed>>
  <2> DEFINE n == NextSeqFromFile(log.lines)
             line == [seq |-> n, kind |-> "decision", run |-> r, step |-> s,
                      whole |-> TRUE]
  <2>1. n \in Nat
    BY <1>3, NextSeqIsNumber
  <2>2. line \in Line /\ line.kind = "decision"
    <3> HIDE DEF n
    <3> QED BY <1>2, <2>1 DEF Line
  <2>3. log' = IF written THEN PutLine(log, line) ELSE [log EXCEPT !.spoiled = TRUE]
    BY <1>5 DEF AppendRunLogFileEvent
  <2>4. FileTyped(log') /\ SameStory(log, log')
    <3>1. CASE written
      <4> HIDE DEF line
      <4> QED BY <1>2, <1>3, <2>2, <2>3, <3>1, PutLineStory
    <3>2. CASE ~written
      <4>1. /\ log' \in File /\ log'.spoiled
            /\ log'.lines = log.lines /\ log'.torn = log.torn
        BY <1>3, <2>3, <3>2 DEF File
      <4> QED BY <1>3, <4>1 DEF FileTyped, SameStory
    <3> QED BY <3>1, <3>2
  <2>5. LogTypeOK'
    BY <1>3, <1>5, <2>4 DEF StoryInv, LogTypeOK, FileTyped
  <2>6. FileTyped(log)'
    BY <2>4 DEF FileTyped, File, Line, Kind, Bulk, Structure
  <2>7. (\A q \in Runs : EntryOK(sink[q], work[q]))'
    BY <1>3, <1>5 DEF StoryInv, EntryOK, RoleOK
  <2>8. ASSUME ~log'.spoiled, NEW q \in Runs, NEW t \in Steps, sink'[q].phase # "dead"
        PROVE  StoryTold(log', q, t, work'[q][t] # "idle", t \in sink'[q].settledSteps)
    <3>1. ~log.spoiled /\ sink' = sink
          /\ \A k \in StoryKinds : LinesIn(log', q, t, k) = LinesIn(log, q, t, k)
      BY <1>5, <2>4, <2>8 DEF SameStory
    <3>2. StoryTold(log, q, t, work[q][t] # "idle", t \in sink[q].settledSteps)
      BY <2>8, <3>1 DEF StoryInv, StoriesTold
    <3> QED BY <1>3, <3>1, <3>2 DEF StoryTold, StoryKinds
  <2>9. StoriesTold'
    BY <2>8 DEF StoriesTold, StoryTold, LinesIn
  <2> QED BY <2>5, <2>6, <2>7, <2>9 DEF StoryInv
<1> QED BY <1>1, <1>4, <1>5

LEMMA StoryCancelStep ==
  ASSUME StoryInv, NEW r \in Runs, NEW s \in Steps, CancelStep(r, s)
  PROVE  StoryInv'
<1> DEFINE e == [sink[r] EXCEPT !.closing = @ \ {s}]
<1>1. PICK written \in Written("step.result") :
        Commit(r, AppendStepLog([State(r) EXCEPT !.entry.closing = @ \ {s}],
                                r, s, "step.result", written))
  BY DEF CancelStep
<1>2. [State(r) EXCEPT !.entry.closing = @ \ {s}] = [State(r) EXCEPT !.entry = e]
  BY DEF State
<1>3. written \in BOOLEAN /\ "step.result" \in Kind
  BY WrittenLemma, KindLemma
<1>4. /\ sink[r] \in RunLogEntry /\ EntryOK(sink[r], work[r])
      /\ work \in [Runs -> [Steps -> {"idle", "running", "done"}]]
      /\ s \in sink[r].closing /\ work' = work
  BY DEF StoryInv, LogTypeOK, CancelStep
<1>5. /\ e \in RunLogEntry /\ e.phase = sink[r].phase
      /\ e.settledSteps = sink[r].settledSteps /\ e.cancelled = sink[r].cancelled
      /\ e.closing = sink[r].closing \ {s}
  BY <1>4 DEF RunLogEntry
<1> DEFINE st == [State(r) EXCEPT !.entry = e]
<1> HIDE DEF e
<1>6. RoleOK(e.phase, e.cancelled, e.closing, SettledAfter(e, s, "step.result"), work[r])
  <2>1. /\ sink[r].phase = "open" /\ sink[r].cancelled
        /\ \A t \in Steps : /\ work[r][t] = "done" => t \in sink[r].settledSteps
                            /\ work[r][t] # "idle" =>
                                 t \in sink[r].settledSteps \cup sink[r].closing
    BY <1>4 DEF EntryOK, RoleOK
  <2>2. SettledAfter(e, s, "step.result") = sink[r].settledSteps \cup {s}
    BY <1>5, <2>1 DEF SettledAfter, Taken
  <2> QED BY <1>5, <2>1, <2>2 DEF RoleOK
<1>7. work[r] \in [Steps -> {"idle", "running", "done"}] /\ work' = [work EXCEPT ![r] = work[r]]
  BY <1>4
<1>8. StateTyped(st) /\ st.log = log /\ st.entry = e
  BY <1>5 DEF StoryInv, LogTypeOK, State, StateTyped
<1>9. Commit(r, AppendStepLog(st, r, s, "step.result", written))
  BY <1>1, <1>2
<1> HIDE DEF st
<1>10. Fits(st, r, s, "step.result", work[r])
  BY <1>5, <1>6, <1>7, <1>8 DEF Fits
<1> QED BY <1>3, <1>9, <1>10, StoryAppend

LEMMA StoryCrash ==
  ASSUME StoryInv, Crash
  PROVE  StoryInv'
<1>1. /\ FileTyped(log) /\ log \in File /\ sink \in [Runs -> RunLogEntry]
      /\ work \in [Runs -> [Steps -> {"idle", "running", "done"}]]
  BY DEF StoryInv, LogTypeOK
<1>2. /\ FileTyped(log')
      /\ ~log'.spoiled =>
           /\ ~log.spoiled
           /\ \A q \in Runs, t \in Steps, k \in StoryKinds :
                sink[q].phase = "new" => LinesIn(log', q, t, k) = LinesIn(log, q, t, k)
  <2>1. CASE UNCHANGED log
    BY <1>1, <2>1
  <2>2. ASSUME NEW r \in Runs, NEW s \in Steps, NEW all \in BOOLEAN,
               sink[r].phase = "open",
               log' = CutLine(log, [seq |-> sink[r].seq + 1, kind |-> "step.result",
                                    run |-> r, step |-> s, whole |-> TRUE], all)
        PROVE  /\ FileTyped(log')
               /\ ~log'.spoiled =>
                    /\ ~log.spoiled
                    /\ \A q \in Runs, t \in Steps, k \in StoryKinds :
                         sink[q].phase = "new" =>
                           LinesIn(log', q, t, k) = LinesIn(log, q, t, k)
    <3> DEFINE n == sink[r].seq + 1
               full == [seq |-> n, kind |-> "step.result", run |-> r,
                        step |-> s, whole |-> TRUE]
               line == [seq |-> n, kind |-> "step.result", run |-> r,
                        step |-> s, whole |-> all]
               put == PutLine(log, line)
    <3>1. n \in Nat
      BY <1>1 DEF RunLogEntry
    <3>2. line \in Line /\ line.run = r /\ line.kind = "step.result"
      <4> HIDE DEF n
      <4> QED BY <3>1, KindLemma DEF Line
    <3>3. [full EXCEPT !.whole = all] = line
      OBVIOUS
    <3>4. log' = [put EXCEPT !.torn = TRUE]
      <4>1. log' = CutLine(log, full, all)
        BY <2>2
      <4> HIDE DEF full, line
      <4> QED BY <3>3, <4>1 DEF CutLine
    <3>5. "step.result" \in StoryKinds
      BY DEF StoryKinds
    <3>6. FileTyped(put) /\ OneMore(log, put, r, line.step, "step.result")
      <4> HIDE DEF line
      <4> QED BY <1>1, <3>2, <3>5, PutLineStory
    <3>7. put.lines # <<>>
      <4> HIDE DEF line
      <4> QED BY <1>1, PutLineNotEmpty
    <3>8. /\ log' \in File /\ log'.lines = put.lines /\ log'.spoiled = put.spoiled
      <4> HIDE DEF put
      <4> QED BY <3>4, <3>6 DEF FileTyped, File
    <3>9. \A q, t, k : LinesIn(log', q, t, k) = LinesIn(put, q, t, k)
      <4> HIDE DEF put
      <4> QED BY <3>8 DEF LinesIn
    <3>10. ASSUME ~put.spoiled, NEW q \in Runs, NEW t \in Steps, NEW k \in StoryKinds,
                  sink[q].phase = "new"
           PROVE  LinesIn(put, q, t, k) = LinesIn(log, q, t, k)
      <4>1. q # r
        BY <2>2, <3>10
      <4>2. <<q, t, k>> # <<r, line.step, "step.result">>
        BY <4>1
      <4> HIDE DEF put, line
      <4> QED BY <3>6, <3>10, <4>2 DEF OneMore
    <3>11. ~put.spoiled => ~log.spoiled
      <4> HIDE DEF put, line
      <4> QED BY <3>6 DEF OneMore
    <3> HIDE DEF put
    <3> QED BY <3>7, <3>8, <3>9, <3>10, <3>11 DEF FileTyped
  <2> QED BY <2>1, <2>2 DEF Crash
<1>3. /\ sink' \in [Runs -> RunLogEntry]
      /\ \A r \in Runs :
           IF sink[r].phase = "new" THEN sink'[r] = sink[r]
           ELSE /\ sink'[r].phase = "dead" /\ sink'[r].closing = sink[r].closing
  <2>1. \A r \in Runs :
          /\ [sink[r] EXCEPT !.phase = "dead", !.listening = FALSE] \in RunLogEntry
          /\ [sink[r] EXCEPT !.phase = "dead", !.listening = FALSE].phase = "dead"
          /\ [sink[r] EXCEPT !.phase = "dead", !.listening = FALSE].closing
               = sink[r].closing
    BY <1>1 DEF RunLogEntry, Phase
  <2> QED BY <1>1, <2>1 DEF Crash
<1>4. /\ work' \in [Runs -> [Steps -> {"idle", "running", "done"}]]
      /\ \A r \in Runs, s \in Steps : work[r][s] = "idle" => work'[r][s] = "idle"
  BY <1>1 DEF Crash
<1>5. feed' \in Seq(Nat)
  <2>1. feed' = <<>>
    BY DEF Crash
  <2> QED BY <2>1
<1>6. LogTypeOK'
  BY <1>2, <1>3, <1>4, <1>5 DEF LogTypeOK, FileTyped
<1>7. FileTyped(log)'
  BY <1>2 DEF FileTyped, File, Line, Kind, Bulk, Structure
<1>8. \A r \in Runs : EntryOK(sink'[r], work'[r])
  <2>1. ASSUME NEW r \in Runs PROVE EntryOK(sink'[r], work'[r])
    <3>1. EntryOK(sink[r], work[r]) /\ sink[r].closing = {}
      BY DEF StoryInv, Crash, Free
    <3>2. CASE sink[r].phase = "new"
      BY <1>3, <1>4, <3>1, <3>2 DEF EntryOK, RoleOK
    <3>3. CASE sink[r].phase # "new"
      BY <1>3, <3>1, <3>3 DEF EntryOK, RoleOK
    <3> QED BY <3>2, <3>3
  <2> QED BY <2>1
<1>9. (\A r \in Runs : EntryOK(sink[r], work[r]))'
  BY <1>8 DEF EntryOK, RoleOK
<1>10. ASSUME ~log'.spoiled, NEW q \in Runs, NEW t \in Steps, sink'[q].phase # "dead"
       PROVE  StoryTold(log', q, t, work'[q][t] # "idle", t \in sink'[q].settledSteps)
  <2>1. sink[q].phase = "new" /\ sink'[q] = sink[q]
    BY <1>3, <1>10
  <2>2. work[q][t] = "idle" /\ work'[q][t] = "idle"
    BY <1>4, <2>1 DEF StoryInv, EntryOK, RoleOK
  <2>3. /\ ~log.spoiled
        /\ \A k \in StoryKinds : LinesIn(log', q, t, k) = LinesIn(log, q, t, k)
    BY <1>2, <1>10, <2>1
  <2>4. StoryTold(log, q, t, work[q][t] # "idle", t \in sink[q].settledSteps)
    BY <2>1, <2>3 DEF StoryInv, StoriesTold
  <2> QED BY <2>1, <2>2, <2>3, <2>4 DEF StoryTold, StoryKinds
<1>11. StoriesTold'
  BY <1>10 DEF StoriesTold, StoryTold, LinesIn
<1> QED BY <1>6, <1>7, <1>9, <1>11 DEF StoryInv

LEMMA StoryNext ==
  ASSUME StoryInv, [LogNext]_logVars
  PROVE  StoryInv'
<1>0. /\ log \in File /\ sink \in [Runs -> RunLogEntry] /\ feed \in Seq(Nat)
      /\ work \in [Runs -> [Steps -> {"idle", "running", "done"}]]
      /\ \A r \in Runs : EntryOK(sink[r], work[r])
  BY DEF StoryInv, LogTypeOK
<1>1. CASE UNCHANGED logVars
  BY <1>0, <1>1, StoryBeside DEF logVars
<1>2. CASE Crash
  BY <1>2, StoryCrash
<1>3. CASE Deliver
  <2>1. /\ log' = log /\ sink' = sink /\ work' = work
        /\ feed # <<>> /\ feed' = Tail(feed)
    BY <1>3 DEF Deliver
  <2>2. feed' \in Seq(Nat)
    BY <1>0, <2>1
  <2> QED BY <1>0, <2>1, <2>2, StoryBeside
<1>4. ASSUME NEW r \in Runs, Subscribe(r)
      PROVE  StoryInv'
  <2> DEFINE e == [sink[r] EXCEPT !.listening = sink[r].phase = "open"]
  <2>1. log' = log /\ feed' = feed /\ work' = work /\ sink' = [sink EXCEPT ![r] = e]
    BY <1>4 DEF Subscribe
  <2>2. e \in RunLogEntry /\ SameRole(sink[r], e)
    BY <1>0 DEF RunLogEntry, SameRole
  <2> HIDE DEF e
  <2>3. EntryOK(e, work[r])
    BY <1>0, <2>2 DEF EntryOK, SameRole
  <2> QED BY <1>0, <2>1, <2>2, <2>3, StoryBeside DEF SameRole
<1>5. ASSUME NEW r \in Runs, Open(r)
      PROVE  StoryInv'
  <2> DEFINE n == NextSeqFromFile(log.lines) - 1
             e == [sink[r] EXCEPT !.phase = "open", !.seq = n, !.bytes = log.bytes]
  <2>1. /\ log' = log /\ feed' = feed /\ work' = work /\ sink' = [sink EXCEPT ![r] = e]
        /\ sink[r].phase = "new"
    BY <1>5 DEF Open
  <2>2. n \in Nat /\ log.bytes \in Nat
    BY <1>0, NextSeqIsNumber DEF File
  <2>3. /\ e \in RunLogEntry /\ e.phase = "open"
        /\ e.cancelled = sink[r].cancelled /\ e.closing = sink[r].closing
        /\ e.settledSteps = sink[r].settledSteps
    <3> HIDE DEF n
    <3> QED BY <1>0, <2>2 DEF RunLogEntry, Phase
  <2> HIDE DEF e
  <2>4. EntryOK(e, work[r])
    BY <1>0, <2>1, <2>3 DEF EntryOK, RoleOK
  <2> QED BY <1>0, <2>1, <2>3, <2>4, StoryBeside
<1>6. ASSUME NEW r \in Runs, Cancel(r)
      PROVE  StoryInv'
  <2>1. PICK inFlight \in InFlight(r) :
          sink' = [sink EXCEPT ![r].cancelled = TRUE, ![r].closing = inFlight]
    BY <1>6 DEF Cancel
  <2> DEFINE e == [sink[r] EXCEPT !.cancelled = TRUE, !.closing = inFlight]
  <2>2. log' = log /\ feed' = feed /\ work' = work /\ sink[r].phase = "open"
    BY <1>6 DEF Cancel
  <2>3. sink' = [sink EXCEPT ![r] = e]
    BY <1>0, <2>1
  <2>4. /\ inFlight \subseteq Steps
        /\ \A s \in Steps : work[r][s] = "running" => s \in inFlight
    BY <2>1 DEF InFlight
  <2>5. /\ e \in RunLogEntry /\ e.phase = "open" /\ e.cancelled
        /\ e.closing = inFlight /\ e.settledSteps = sink[r].settledSteps
    BY <1>0, <2>2, <2>4 DEF RunLogEntry
  <2> HIDE DEF e
  <2>6. EntryOK(e, work[r])
    BY <1>0, <2>2, <2>4, <2>5 DEF EntryOK, RoleOK
  <2> QED BY <1>0, <2>2, <2>3, <2>5, <2>6, StoryBeside
<1>7. ASSUME NEW r \in Runs, Close(r)
      PROVE  StoryInv'
  <2> DEFINE e == [sink[r] EXCEPT !.phase = "closed", !.listening = FALSE]
  <2>1. /\ log' = log /\ feed' = feed /\ work' = work /\ sink' = [sink EXCEPT ![r] = e]
        /\ sink[r].phase = "open" /\ sink[r].closing = {}
        /\ sink[r].cancelled \/ \A s \in Steps : work[r][s] # "running"
    BY <1>7 DEF Close, Free
  <2>2. /\ e \in RunLogEntry /\ e.phase = "closed" /\ e.closing = {}
        /\ e.settledSteps = sink[r].settledSteps
    BY <1>0, <2>1 DEF RunLogEntry, Phase
  <2> HIDE DEF e
  <2>3. EntryOK(e, work[r])
    BY <1>0, <2>1, <2>2 DEF EntryOK, RoleOK
  <2> QED BY <1>0, <2>1, <2>2, <2>3, StoryBeside
<1> QED BY <1>1, <1>2, <1>3, <1>4, <1>5, <1>6, <1>7, StoryStart, StoryEmit,
           StoryFinish, StoryDecide, StoryCancelStep DEF LogNext, RunNext

(* Whatever crashes, caps, cancellations, late answers and number of runs  *)
(* at work on the file: unless an append failed or was merged, every step  *)
(* that ran in a run whose log was closed has a start and exactly one      *)
(* terminal line.                                                          *)
THEOREM ClosedLogsAreComplete == Spec => []ClosedLogIsComplete
<1>1. ReadersInit => StoryInv /\ PageHasRun
  BY StoryInit DEF ReadersInit, PageHasRun
<1>2. StoryInv /\ PageHasRun /\ [Next]_vars => (StoryInv /\ PageHasRun)'
  BY ReadersStepsAreLogSteps, StoryNext, PageKeepsRun
<1>3. StoryInv => ClosedLogIsComplete
  <2> SUFFICES ASSUME StoryInv, NEW r \in Runs, NEW s \in Steps,
                      sink[r].phase = "closed", work[r][s] # "idle", ~log.spoiled
               PROVE  /\ LinesOf(r, s, "step.start") # {}
                      /\ Cardinality(LinesOf(r, s, "step.result")) = 1
    BY DEF ClosedLogIsComplete
  <2>1. s \in sink[r].settledSteps
    BY DEF StoryInv, EntryOK, RoleOK
  <2>2. StoryTold(log, r, s, TRUE, TRUE)
    BY <2>1 DEF StoryInv, StoriesTold, StoryTold
  <2>3. \A kind : LinesOf(r, s, kind) = LinesIn(log, r, s, kind)
    BY DEF LinesOf, LinesIn
  <2>4. PICK i : LinesOf(r, s, "step.result") = {i}
    BY <2>2, <2>3 DEF StoryTold
  <2>5. Cardinality({i}) = 1
    BY FS_Singleton
  <2> QED BY <2>2, <2>3, <2>4, <2>5 DEF StoryTold
<1> QED BY <1>1, <1>2, <1>3, PTL DEF Spec
-----------------------------------------------------------------------------
(* The readers.  What a file holds for them: the complete lines and, of    *)
(* these, the lines that can be read.                                      *)

CompleteIn(file) == {i \in DOMAIN file.lines : file.torn => i < Len(file.lines)}

ReadableIn(file) == {i \in CompleteIn(file) : file.lines[i].whole}

(* A complete line stays what it is.                                       *)
Grows(before, after) ==
  \A i \in CompleteIn(before) :
    i \in CompleteIn(after) /\ after.lines[i] = before.lines[i]

Reached(file, n) ==
  n <= 1 \/ \E i \in CompleteIn(file) : n <= file.lines[i].seq + 1

PollOK ==
  /\ poll \in Poll
  /\ (\A i \in CompleteIn(log) : log.lines[i].whole) => Reached(log, poll.since)
  /\ poll.maxSeq = 0 \/ \E i \in CompleteIn(log) : poll.maxSeq <= log.lines[i].seq


LEMMA GrowsThen ==
  ASSUME NEW f, NEW g, NEW h, Grows(f, g), Grows(g, h)
  PROVE  Grows(f, h)
BY DEF Grows

LEMMA GrowsPutLine ==
  ASSUME NEW file, FileTyped(file), NEW line
  PROVE  Grows(file, PutLine(file, line))
<1> DEFINE lines == file.lines
           last == Len(lines)
           put == PutLine(file, line)
<1>1. lines \in Seq(Line) /\ DOMAIN lines = 1..last /\ last \in Nat
  BY DEF FileTyped, File
<1>2. CASE file.torn
  <2> DEFINE merged == [line EXCEPT !.kind = lines[last].kind, !.whole = FALSE]
  <2>1. put.lines = [lines EXCEPT ![last] = merged] /\ ~put.torn
    BY <1>2 DEF PutLine
  <2> HIDE DEF merged, put
  <2>2. \A i \in CompleteIn(file) : i \in DOMAIN lines /\ i < last
    BY <1>2 DEF CompleteIn
  <2>3. \A i \in CompleteIn(file) : i \in DOMAIN put.lines /\ put.lines[i] = lines[i]
    BY <1>1, <2>1, <2>2
  <2> QED BY <2>1, <2>3 DEF Grows, CompleteIn, put
<1>3. CASE ~file.torn
  <2>1. put.lines = Append(lines, line) /\ ~put.torn
    BY <1>3 DEF PutLine
  <2> HIDE DEF put
  <2>2. \A i \in DOMAIN lines : i \in DOMAIN put.lines /\ put.lines[i] = lines[i]
    BY <1>1, <2>1
  <2> QED BY <2>1, <2>2 DEF Grows, CompleteIn, put
<1> QED BY <1>2, <1>3

LEMMA GrowsWriteEvent ==
  ASSUME NEW st, StateTyped(st), NEW r, NEW s, NEW kind, NEW written
  PROVE  Grows(st.log, WriteEvent(st, r, s, kind, written).log)
<1> DEFINE line == [seq |-> st.entry.seq + 1, kind |-> kind, run |-> r, step |-> s,
                    whole |-> TRUE]
<1>1. WriteEvent(st, r, s, kind, written).log =
        IF written THEN PutLine(st.log, line) ELSE [st.log EXCEPT !.spoiled = TRUE]
  BY DEF WriteEvent
<1>2. Grows(st.log, PutLine(st.log, line))
  BY GrowsPutLine DEF StateTyped
<1>3. Grows(st.log, [st.log EXCEPT !.spoiled = TRUE])
  BY DEF Grows, CompleteIn, StateTyped, File
<1> QED BY <1>1, <1>2, <1>3

LEMMA GrowsAppendStepLog ==
  ASSUME NEW st, StateTyped(st),
         NEW r \in Runs, NEW s \in Steps, NEW kind \in Kind, NEW written \in BOOLEAN
  PROVE  Grows(st.log, AppendStepLog(st, r, s, kind, written).log)
<1> DEFINE settled == [st EXCEPT !.entry.settledSteps = @ \cup {s}]
           settling == IF kind = "step.result" THEN settled ELSE st
           marked == [settling EXCEPT !.entry.truncated = TRUE]
           capped == Truncate(settling, r, s, written)
           next == AppendStepLog(st, r, s, kind, written)
<1>0. \A f : Grows(f, f)
  BY DEF Grows
<1>1. StateTyped(settling) /\ settling.log = st.log
  <2> DEFINE e == [st.entry EXCEPT !.settledSteps = @ \cup {s}]
  <2>1. settled = [st EXCEPT !.entry = e] /\ e \in RunLogEntry
    BY DEF StateTyped, RunLogEntry
  <2> HIDE DEF e
  <2>2. StateTyped(settled) /\ settled.log = st.log
    BY <2>1 DEF StateTyped
  <2> QED BY <2>2
<1>2. StateTyped(marked) /\ marked.log = settling.log
  <2> HIDE DEF settling
  <2> DEFINE e == [settling.entry EXCEPT !.truncated = TRUE]
  <2>1. marked = [settling EXCEPT !.entry = e] /\ e \in RunLogEntry
    BY <1>1 DEF StateTyped, RunLogEntry
  <2> HIDE DEF e
  <2> QED BY <1>1, <2>1 DEF StateTyped
<1>3. StateTyped(capped) /\ Grows(settling.log, capped.log)
  <2> HIDE DEF settling
  <2>1. StateTyped(capped)
    BY <1>1, TruncateStory
  <2>2. capped = settling \/ capped = WriteEvent(marked, r, s, "log.truncated", written)
    BY DEF Truncate
  <2> HIDE DEF marked, capped
  <2> QED BY <1>0, <1>2, <2>1, <2>2, GrowsWriteEvent
<1>4. next = st \/ next = capped \/ next = WriteEvent(capped, r, s, kind, written)
  BY DEF AppendStepLog, AppendOpen
<1>5. Grows(capped.log, WriteEvent(capped, r, s, kind, written).log)
  <2> HIDE DEF capped
  <2> QED BY <1>3, GrowsWriteEvent
<1>6. Grows(st.log, capped.log)
  BY <1>1, <1>3
<1>7. Grows(st.log, WriteEvent(capped, r, s, kind, written).log)
  <2> HIDE DEF capped
  <2> QED BY <1>5, <1>6, GrowsThen
<1> HIDE DEF next, capped
<1> QED BY <1>0, <1>4, <1>6, <1>7 DEF next

(* No handler takes back what a reader may have read.                      *)
LEMMA LogGrows ==
  ASSUME StoryInv, [LogNext]_logVars
  PROVE  Grows(log, log')
<1>1. FileTyped(log) /\ log \in File
  BY DEF StoryInv, FileTyped
<1>2. ASSUME log' = log PROVE Grows(log, log')
  BY <1>2 DEF Grows
<1>3. \A r \in Runs : StateTyped(State(r)) /\ State(r).log = log
  BY DEF StoryInv, LogTypeOK, State, StateTyped
<1>4. ASSUME NEW r \in Runs, NEW s \in Steps,
             \E kind \in Kind, written \in BOOLEAN :
               Commit(r, AppendStepLog(State(r), r, s, kind, written))
      PROVE  Grows(log, log')
  <2>1. PICK kind \in Kind, written \in BOOLEAN :
               Commit(r, AppendStepLog(State(r), r, s, kind, written))
    BY <1>4
  <2>2. log' = AppendStepLog(State(r), r, s, kind, written).log
    BY <2>1 DEF Commit
  <2> QED BY <1>3, <2>2, GrowsAppendStepLog
<1>5. CASE UNCHANGED logVars \/ Deliver
  BY <1>2, <1>5 DEF logVars, Deliver
<1>6. CASE Crash
  <2>1. ASSUME NEW line, NEW all, log' = CutLine(log, line, all)
        PROVE  Grows(log, log')
    <3> DEFINE cut == [line EXCEPT !.whole = all]
               put == PutLine(log, cut)
               last == Len(log.lines)
    <3>1. log'.lines = put.lines /\ log'.torn
      BY <2>1 DEF CutLine, PutLine
    <3>2. log.lines \in Seq(Line)
      BY <1>1 DEF File
    <3> HIDE DEF cut
    <3>3. CASE log.torn
      <4> DEFINE merged == [cut EXCEPT !.kind = log.lines[last].kind, !.whole = FALSE]
      <4>1. log'.lines = [log.lines EXCEPT ![last] = merged]
        BY <3>1, <3>3 DEF PutLine
      <4> HIDE DEF merged
      <4>2. /\ DOMAIN log'.lines = DOMAIN log.lines /\ Len(log'.lines) = last
            /\ \A i \in DOMAIN log.lines : i # last => log'.lines[i] = log.lines[i]
        BY <3>2, <4>1
      <4>3. \A i \in CompleteIn(log) : i \in DOMAIN log.lines /\ i < last
        BY <3>3 DEF CompleteIn
      <4>4. \A i \in CompleteIn(log) : i # last
        BY <3>2, <4>3
      <4> QED BY <4>2, <4>3, <4>4 DEF Grows, CompleteIn
    <3>4. CASE ~log.torn
      <4>1. log'.lines = Append(log.lines, cut)
        BY <3>1, <3>4 DEF PutLine
      <4>2. \A i \in DOMAIN log.lines :
              /\ i \in DOMAIN log'.lines /\ i < Len(log'.lines)
              /\ log'.lines[i] = log.lines[i]
        BY <3>2, <4>1
      <4> QED BY <4>2 DEF Grows, CompleteIn
    <3> QED BY <3>3, <3>4
  <2> QED BY <1>2, <1>6, <2>1 DEF Crash
<1>7. ASSUME NEW r \in Runs, Subscribe(r) \/ Open(r) \/ Cancel(r) \/ Close(r)
      PROVE  Grows(log, log')
  BY <1>2, <1>7 DEF Subscribe, Open, Cancel, Close
<1>8. ASSUME NEW r \in Runs, NEW s \in Steps,
             StartStep(r, s) \/ Emit(r, s) \/ FinishStep(r, s)
      PROVE  Grows(log, log')
  <2>1. \E kind \in Kind, written \in BOOLEAN :
          Commit(r, AppendStepLog(State(r), r, s, kind, written))
    BY <1>8, WrittenLemma, KindLemma DEF StartStep, Emit, FinishStep
  <2> QED BY <1>4, <2>1
<1>9. ASSUME NEW r \in Runs, NEW s \in Steps, Decide(r, s)
      PROVE  Grows(log, log')
  <2>1. PICK written \in Written("decision") :
          \/ Commit(r, AppendStepLog(State(r), r, s, "decision", written))
          \/ log' = AppendRunLogFileEvent(log, r, s, "decision", written)
    BY <1>9 DEF Decide
  <2>2. written \in BOOLEAN /\ "decision" \in Kind
    BY WrittenLemma, KindLemma
  <2>3. CASE log' = AppendRunLogFileEvent(log, r, s, "decision", written)
    <3>1. Grows(log, [log EXCEPT !.spoiled = TRUE])
      BY <1>1 DEF Grows, CompleteIn, File
    <3>2. \A line : Grows(log, PutLine(log, line))
      BY <1>1, GrowsPutLine
    <3> QED BY <2>3, <3>1, <3>2 DEF AppendRunLogFileEvent
  <2> QED BY <1>4, <2>1, <2>2, <2>3
<1>10. ASSUME NEW r \in Runs, NEW s \in Steps, CancelStep(r, s)
       PROVE  Grows(log, log')
  <2> DEFINE e == [sink[r] EXCEPT !.closing = @ \ {s}]
             st == [State(r) EXCEPT !.entry = e]
  <2>1. PICK written \in Written("step.result") :
          Commit(r, AppendStepLog([State(r) EXCEPT !.entry.closing = @ \ {s}],
                                  r, s, "step.result", written))
    BY <1>10 DEF CancelStep
  <2>2. [State(r) EXCEPT !.entry.closing = @ \ {s}] = st
    BY DEF State
  <2>3. written \in BOOLEAN /\ "step.result" \in Kind
    BY WrittenLemma, KindLemma
  <2>4. e \in RunLogEntry
    BY ZenonT(40) DEF StoryInv, LogTypeOK, RunLogEntry
  <2> HIDE DEF e
  <2>5. StateTyped(st) /\ st.log = log
    BY <1>3, <2>4 DEF StateTyped
  <2>6. log' = AppendStepLog(st, r, s, "step.result", written).log
    BY <2>1, <2>2 DEF Commit
  <2> HIDE DEF st
  <2> QED BY <2>3, <2>5, <2>6, GrowsAppendStepLog
<1> QED BY <1>5, <1>6, <1>7, <1>8, <1>9, <1>10 DEF LogNext, RunNext

LEMMA PollBeside ==
  ASSUME PollOK, Grows(log, log'), poll' \in Poll,
         poll'.since = poll.since, poll'.maxSeq \in {0, poll.maxSeq}
  PROVE  PollOK'
<1>1. (\A i \in CompleteIn(log') : log'.lines[i].whole) => Reached(log', poll'.since)
  <2> SUFFICES ASSUME \A i \in CompleteIn(log') : log'.lines[i].whole,
                      ~(poll.since <= 1)
               PROVE  \E i \in CompleteIn(log') : poll.since <= log'.lines[i].seq + 1
    BY DEF Reached
  <2>1. \A i \in CompleteIn(log) : log.lines[i].whole
    BY DEF Grows
  <2>2. PICK i \in CompleteIn(log) : poll.since <= log.lines[i].seq + 1
    BY <2>1 DEF PollOK, Reached
  <2> QED BY <2>2 DEF Grows
<1>2. poll'.maxSeq = 0 \/ \E i \in CompleteIn(log') : poll'.maxSeq <= log'.lines[i].seq
  <2> SUFFICES ASSUME poll'.maxSeq # 0
               PROVE  \E i \in CompleteIn(log') : poll'.maxSeq <= log'.lines[i].seq
    OBVIOUS
  <2>1. PICK i \in CompleteIn(log) : poll.maxSeq <= log.lines[i].seq
    BY DEF PollOK
  <2> QED BY <2>1 DEF Grows
<1>3. poll \in Poll /\ poll' \in Poll
  BY DEF PollOK
<1> QED BY <1>1, <1>2, <1>3 DEF PollOK, CompleteIn, Reached, Poll

LEMMA CompleteIsComplete ==
  /\ Complete = CompleteIn(log)
  /\ Readable = ReadableIn(log)
BY DEF Complete, CompleteIn, Readable, ReadableIn

LEMMA SeqsAreNumbers ==
  ASSUME LogTypeOK
  PROVE  \A i \in DOMAIN log.lines : log.lines[i].seq \in Nat
<1>1. \A i \in DOMAIN log.lines : log.lines[i] \in Line
  BY DEF LogTypeOK, File
<1> QED BY <1>1 DEF Line

(* What lastSeqOfFile answers is the number of a complete line.            *)
LEMMA LastSeqLemma ==
  ASSUME LogTypeOK
  PROVE  /\ LastSeqOfFile \in Nat
         /\ LastSeqOfFile = 0 \/ \E i \in CompleteIn(log) : LastSeqOfFile <= log.lines[i].seq
<1> DEFINE C == CompleteIn(log)
           last == CHOOSE i \in C : \A j \in C : j <= i
<1>1. CASE C = {}
  BY <1>1, CompleteIsComplete DEF LastSeqOfFile
<1>2. CASE C # {}
  <2>1. Len(log.lines) \in Nat /\ DOMAIN log.lines = 1..Len(log.lines)
    BY DEF LogTypeOK, File
  <2>2. C \subseteq 1..Len(log.lines)
    BY <2>1 DEF CompleteIn
  <2>3. \E i \in C : \A j \in C : j <= i
    <3> HIDE DEF C
    <3> QED BY <1>2, <2>1, <2>2, HasGreatest
  <2>4. last \in C
    <3> HIDE DEF C
    <3> QED BY <2>3
  <2>5. LastSeqOfFile = log.lines[last].seq
    BY <1>2, CompleteIsComplete DEF LastSeqOfFile
  <2>6. log.lines[last].seq \in Nat
    <3> HIDE DEF C, last
    <3> QED BY <2>1, <2>2, <2>4, SeqsAreNumbers
  <2> HIDE DEF C, last
  <2> QED BY <2>4, <2>5, <2>6 DEF C
<1> QED BY <1>1, <1>2

(* The largest number among lines that can be read.                        *)
LEMMA GreatestSeq ==
  ASSUME LogTypeOK, FileOK(log), NEW T, T \subseteq ReadableIn(log), T # {}, 
         \A i \in T : log.lines[i].seq > 0
  PROVE  LET n == CHOOSE n \in Seqs(T) : \A m \in Seqs(T) : m <= n
         IN  n \in Seqs(T)
<1> DEFINE top == NextSeqFromFile(log.lines) - 1
<1>1. top \in Nat /\ Bounded(log.lines, top)
  BY NextSeqLemma
<1>2. Seqs(T) \subseteq 1..top
  <2> SUFFICES ASSUME NEW i \in T PROVE log.lines[i].seq \in 1..top
    BY DEF Seqs
  <2>1. i \in DOMAIN log.lines /\ log.lines[i].whole
    BY DEF ReadableIn, CompleteIn
  <2>2. log.lines[i].seq \in Nat /\ log.lines[i].seq > 0
    BY <2>1, SeqsAreNumbers
  <2>3. log.lines[i].seq <= top
    <3> HIDE DEF top
    <3> QED BY <1>1, <2>1 DEF Bounded
  <2> HIDE DEF top
  <2> QED BY <1>1, <2>2, <2>3
<1>3. Seqs(T) # {}
  BY DEF Seqs
<1>4. \E n \in Seqs(T) : \A m \in Seqs(T) : m <= n
  <2> HIDE DEF top
  <2> QED BY <1>1, <1>2, <1>3, HasGreatest
<1> QED BY <1>4

LEMMA PollStep ==
  ASSUME LogInv, StoryInv, PollOK, PageHasRun, [Next]_vars
  PROVE  PollOK'
<1>0. /\ LogTypeOK /\ FileOK(log) /\ poll \in Poll
  BY DEF LogInv, PollOK
<1>1. Grows(log, log')
  BY ReadersStepsAreLogSteps, LogGrows
<1>2. CASE poll' = poll
  <2>1. poll' \in Poll
    BY <1>0, <1>2
  <2> QED BY <1>1, <1>2, <2>1, PollBeside
<1>3. CASE DaemonDies
  <2>1. poll' = [poll EXCEPT !.asked = FALSE, !.maxSeq = 0]
    BY <1>3 DEF DaemonDies
  <2>2. poll' \in Poll /\ poll'.since = poll.since /\ poll'.maxSeq = 0
    BY <1>0, <2>1 DEF Poll
  <2> QED BY <1>1, <2>2, PollBeside
<1>4. CASE PollHeaders
  <2>1. /\ poll' = [poll EXCEPT !.asked = TRUE, !.maxSeq = LastSeqOfFile]
        /\ log' = log
    BY <1>4 DEF PollHeaders, logVars
  <2>2. /\ LastSeqOfFile \in Nat
        /\ LastSeqOfFile = 0 \/ \E i \in CompleteIn(log) : LastSeqOfFile <= log.lines[i].seq
    BY <1>0, LastSeqLemma
  <2>3. /\ poll' \in Poll /\ poll'.since = poll.since
        /\ poll'.maxSeq = LastSeqOfFile
    BY <1>0, <2>1, <2>2 DEF Poll
  <2> QED BY <2>1, <2>2, <2>3 DEF PollOK, CompleteIn, Reached, Poll
<1>5. CASE PollBody
  <2> DEFINE lines == PipeRunLog(poll.since, Lifecycle)
             next == NextSeqOf(poll.maxSeq, poll.since)
  <2>1. log' = log
    BY <1>5 DEF PollBody, logVars
  <2>2. \A i \in lines : i \in DOMAIN log.lines
    BY CompleteIsComplete DEF PipeRunLog, CompleteIn
  <2>3. Seqs(lines) \subseteq Nat
    <3> HIDE DEF lines
    <3> QED BY <1>0, <2>2, SeqsAreNumbers DEF Seqs
  <2>4. CASE poll' = [poll EXCEPT !.asked = FALSE, !.maxSeq = 0]
    <3>1. poll' \in Poll /\ poll'.since = poll.since /\ poll'.maxSeq = 0
      BY <1>0, <2>4 DEF Poll
    <3> QED BY <1>1, <3>1, PollBeside
  <2>5. CASE poll' = [since |-> next, asked |-> FALSE, maxSeq |-> 0,
                      seen |-> poll.seen \cup Seqs(lines)]
    <3>1. next \in Nat
      BY <1>0 DEF NextSeqOf, Poll
    <3>2. poll' \in Poll /\ poll'.since = next /\ poll'.maxSeq = 0
      <4> HIDE DEF next, lines
      <4> QED BY <1>0, <2>3, <2>5, <3>1 DEF Poll
    <3>3. (\A i \in CompleteIn(log) : log.lines[i].whole) => Reached(log, next)
      <4>1. CASE poll.maxSeq < poll.since
        BY <4>1 DEF NextSeqOf, PollOK
      <4>2. CASE ~(poll.maxSeq < poll.since)
        <5>1. next = poll.maxSeq + 1
          BY <4>2 DEF NextSeqOf
        <5>2. CASE poll.maxSeq = 0
          BY <5>1, <5>2 DEF Reached
        <5>3. CASE poll.maxSeq # 0
          <6>1. PICK i \in CompleteIn(log) : poll.maxSeq <= log.lines[i].seq
            BY <5>3 DEF PollOK
          <6>2. log.lines[i].seq \in Nat /\ poll.maxSeq \in Nat
            BY <1>0, <6>1, SeqsAreNumbers DEF CompleteIn, Poll
          <6>3. next <= log.lines[i].seq + 1
            <7> HIDE DEF next
            <7> QED BY <5>1, <6>1, <6>2
          <6> QED BY <6>3 DEF Reached
        <5> QED BY <5>2, <5>3
      <4> QED BY <4>1, <4>2
    <3> HIDE DEF next
    <3> QED BY <2>1, <3>2, <3>3 DEF PollOK, CompleteIn, Reached, Poll
  <2> QED BY <1>5, <2>4, <2>5 DEF PollBody
<1>6. CASE PollDisk
  <2> DEFINE all == ReadRunLog(poll.since)
             lifecycle == {i \in all : log.lines[i].kind \in Lifecycle}
             top == CHOOSE n \in Seqs(all) : \A m \in Seqs(all) : m <= n
             next == NextSeqOf(top, poll.since)
  <2>1. log' = log /\ all # {}
    BY <1>6 DEF PollDisk, logVars
  <2>2. poll' = [poll EXCEPT !.since = next, !.seen = @ \cup Seqs(lifecycle)]
    BY <1>0, <1>6 DEF PollDisk, Poll
  <2>3. /\ all \subseteq ReadableIn(log)
        /\ \A i \in all : i \in DOMAIN log.lines /\ log.lines[i].seq > poll.since
    BY CompleteIsComplete DEF ReadRunLog, ReadableIn, CompleteIn
  <2>4. poll.since \in Nat /\ \A i \in all : log.lines[i].seq \in Nat
    BY <1>0, <2>3, SeqsAreNumbers DEF Poll
  <2>5. \A i \in all : log.lines[i].seq > 0
    <3> HIDE DEF all
    <3> QED BY <2>3, <2>4
  <2>6. top \in Seqs(all)
    <3> HIDE DEF all
    <3> QED BY <1>0, <2>1, <2>3, <2>5, GreatestSeq
  <2>7. PICK i \in all : top = log.lines[i].seq
    BY <2>6 DEF Seqs
  <2>8. next = top + 1 /\ top \in Nat
    <3>1. top \in Nat /\ ~(top < poll.since)
      <4> HIDE DEF all, top
      <4> QED BY <2>3, <2>4, <2>7
    <3> HIDE DEF top
    <3> QED BY <3>1 DEF NextSeqOf
  <2>9. Reached(log, next)
    <3>1. i \in CompleteIn(log) /\ log.lines[i].seq \in Nat
      BY <2>3, <2>4 DEF ReadableIn
    <3> HIDE DEF all, top, next
    <3> QED BY <2>7, <2>8, <3>1 DEF Reached
  <2>10. Seqs(lifecycle) \subseteq Nat
    <3>1. lifecycle \subseteq all
      OBVIOUS
    <3> HIDE DEF lifecycle, all
    <3> QED BY <2>4, <3>1 DEF Seqs
  <2>11. poll' \in Poll /\ poll'.since = next /\ poll'.maxSeq = poll.maxSeq
    <3>1. next \in Nat
      <4> HIDE DEF next, top
      <4> QED BY <2>8
    <3>2. poll.seen \cup Seqs(lifecycle) \in SUBSET Nat
      <4> HIDE DEF lifecycle
      <4> QED BY <1>0, <2>10 DEF Poll
    <3> HIDE DEF next, lifecycle
    <3> QED BY <1>0, <2>2, <3>1, <3>2 DEF Poll
  <2> HIDE DEF next, all, top, lifecycle
  <2> QED BY <2>1, <2>9, <2>11 DEF PollOK, CompleteIn, Reached, Poll
<1> QED BY <1>2, <1>3, <1>4, <1>5, <1>6
        DEF Next, PageNext, PollNext, PageOpens, StreamConnects, LogServed,
            LogArrives, StreamDelivers, vars

(* The cursor a poller is given is at most one beyond a complete line, as  *)
(* long as no line was merged into a torn one, and one run at a time holds *)
(* the file.                                                               *)
THEOREM CursorsStayWithinTheLog ==
  ASSUME ~Shared
  PROVE  Spec => []CursorWithinLog
<1> DEFINE Inv == LogInv /\ StoryInv /\ PageHasRun /\ PollOK
<1>1. ReadersInit => Inv
  <2> SUFFICES ASSUME ReadersInit PROVE Inv
    OBVIOUS
  <2>1. PollOK
    BY DEF ReadersInit, PollOK, Poll, Reached
  <2> QED BY <2>1, LogInvInit, StoryInit DEF ReadersInit, PageHasRun
<1>2. Inv /\ [Next]_vars => Inv'
  BY ReadersStepsAreLogSteps, LogInvNext, StoryNext, PageKeepsRun, PollStep
<1>3. Inv => CursorWithinLog
  BY CompleteIsComplete DEF PollOK, Reached, CursorWithinLog, Seqs
<1> HIDE DEF Inv
<1> QED BY <1>1, <1>2, <1>3, PTL DEF Spec
-----------------------------------------------------------------------------
(* The run page.  The numbers it knows of or is about to be told of, and   *)
(* the lines it is to show.                                                *)

Queued(told) == {told[i] : i \in DOMAIN told}

Known(p, told) == p.shown \cup p.served \cup p.buffer \cup Queued(told)

FollowedIn(p, file, line) ==
  ~file.spoiled \/ (line.run = p.run /\ line.kind # "decision")

FollowedLines(p, file) ==
  {i \in ReadableIn(file) : FollowedIn(p, file, file.lines[i])}

(* What a page that was connected before its log was read can rely on.     *)
(* Open and seq are of the sink of its run, told is the feed.  The last    *)
(* conjunct is the property; the others say why the numbers still under    *)
(* way leave no hole below the last one shown.                             *)
Follows(p, file, open, seq, told) ==
  /\ \A i, j \in DOMAIN told : i < j => told[i] < told[j]
  /\ \A i \in DOMAIN told, b \in p.buffer : b < told[i]
  /\ open => \A k \in Known(p, told) : k <= seq
  /\ ~file.spoiled =>
       \A k \in Known(p, told) : \E i \in DOMAIN file.lines :
         file.lines[i].whole /\ k <= file.lines[i].seq
  /\ p.log \in {"served", "applied"} =>
       \A i \in FollowedLines(p, file) :
         \/ file.lines[i].seq \in Known(p, told)
         \/ ~open /\ \A k \in Known(p, told) : k < file.lines[i].seq
  /\ p.log = "served" =>
       \A i \in FollowedLines(p, file) :
         \/ file.lines[i].seq \in p.served
         \/ \A k \in p.served : k < file.lines[i].seq
  /\ p.log = "applied" =>
       \A i \in FollowedLines(p, file) :
         file.lines[i].seq <= p.lastSeq => file.lines[i].seq \in p.shown

Limited(p, told) ==
  \E n \in Nat : \A k \in Known(p, told) : 0 < k /\ k <= n

PageShape(p, sk, told) ==
  /\ p \in Page /\ told \in Seq(Nat)
  /\ Limited(p, told)
  /\ p.log = "none" => p.stream = "none"
  /\ p.log # "none" => sk[p.run].phase # "new"
  /\ p.log # "applied" => p.shown = {} /\ p.lastSeq = 0
  /\ p.log # "served" => p.served = {}
  /\ p.log = "applied" =>
       /\ p.buffer = {}
       /\ \A k \in p.shown : k <= p.lastSeq
       /\ p.lastSeq = 0 \/ p.lastSeq \in p.shown
  /\ p.stream \in {"none", "requested"} =>
       /\ p.buffer = {} /\ told = <<>>
       /\ ~p.streamFirst /\ ~sk[p.run].listening
  /\ p.streamFirst /\ sk[p.run].phase = "open" => sk[p.run].listening
  /\ \A r \in Runs : sk[r].listening => r = p.run /\ sk[r].phase = "open"

PageOK(p, file, sk, told) ==
  /\ PageShape(p, sk, told)
  /\ p.streamFirst =>
       Follows(p, file, sk[p.run].phase = "open", sk[p.run].seq, told)

(* One line, numbered n, is new in g.                                      *)
NewLine(f, g, n, r, kind) ==
  /\ \A i \in ReadableIn(g) :
       \/ i \in ReadableIn(f) /\ g.lines[i] = f.lines[i]
       \/ g.lines[i].seq = n /\ g.lines[i].run = r /\ g.lines[i].kind = kind
  /\ ~g.spoiled =>
       /\ ~f.spoiled
       /\ \A i \in DOMAIN f.lines : i \in DOMAIN g.lines /\ g.lines[i] = f.lines[i]
       /\ \E i \in DOMAIN g.lines : g.lines[i].whole /\ g.lines[i].seq = n

LEMMA NewLinePut ==
  ASSUME NEW file, FileTyped(file), NEW line \in Line, line.whole
  PROVE  NewLine(file, PutLine(file, line), line.seq, line.run, line.kind)
<1> DEFINE lines == file.lines
           last == Len(lines)
           put == PutLine(file, line)
<1>1. lines \in Seq(Line) /\ DOMAIN lines = 1..last /\ last \in Nat
  BY DEF FileTyped, File
<1>2. CASE file.torn
  <2> DEFINE merged == [line EXCEPT !.kind = lines[last].kind, !.whole = FALSE]
  <2>1. /\ put.lines = [lines EXCEPT ![last] = merged] /\ ~put.torn
        /\ put.spoiled
    BY <1>2 DEF PutLine
  <2>2. ~merged.whole
    BY DEF Line
  <2> HIDE DEF merged, put
  <2>3. ASSUME NEW i \in ReadableIn(put)
        PROVE  i \in ReadableIn(file) /\ put.lines[i] = lines[i]
    <3>1. i \in DOMAIN lines /\ put.lines[i].whole
      BY <1>1, <2>1 DEF ReadableIn, CompleteIn
    <3>2. i # last
      BY <1>1, <2>1, <2>2, <3>1
    <3>3. i < last /\ put.lines[i] = lines[i]
      BY <1>1, <2>1, <3>1, <3>2
    <3> QED BY <3>1, <3>3 DEF ReadableIn, CompleteIn
  <2> QED BY <2>1, <2>3 DEF NewLine, put
<1>3. CASE ~file.torn
  <2>1. /\ put.lines = Append(lines, line) /\ ~put.torn
        /\ put.spoiled = file.spoiled
    BY <1>3 DEF PutLine, FileTyped, File
  <2> HIDE DEF put
  <2>2. /\ \A i \in DOMAIN lines : i \in DOMAIN put.lines /\ put.lines[i] = lines[i]
        /\ \A i \in DOMAIN put.lines : i \in DOMAIN lines \/ put.lines[i] = line
        /\ last + 1 \in DOMAIN put.lines /\ put.lines[last + 1] = line
    BY <1>1, <2>1
  <2>3. ASSUME NEW i \in ReadableIn(put)
        PROVE  \/ i \in ReadableIn(file) /\ put.lines[i] = lines[i]
               \/ put.lines[i] = line
    <3>1. i \in DOMAIN put.lines /\ put.lines[i].whole
      BY DEF ReadableIn, CompleteIn
    <3>2. CASE i \in DOMAIN lines
      BY <1>3, <2>2, <3>1, <3>2 DEF ReadableIn, CompleteIn
    <3> QED BY <2>2, <3>1, <3>2
  <2>4. \A i \in ReadableIn(put) :
       \/ i \in ReadableIn(file) /\ put.lines[i] = lines[i]
       \/ /\ put.lines[i].seq = line.seq /\ put.lines[i].run = line.run
          /\ put.lines[i].kind = line.kind
    BY <2>3
  <2> QED BY <2>1, <2>2, <2>4 DEF NewLine, put
<1> QED BY <1>2, <1>3

LEMMA NewLineFails ==
  ASSUME NEW file, FileTyped(file), NEW n, NEW r, NEW kind
  PROVE  NewLine(file, [file EXCEPT !.spoiled = TRUE], n, r, kind)
BY DEF NewLine, ReadableIn, CompleteIn, FileTyped, File

(* The numbers are numbers.                                                *)
LEMMA KnownNumbers ==
  ASSUME NEW p \in Page, NEW told \in Seq(Nat)
  PROVE  Known(p, told) \subseteq Nat
<1>1. \A i \in DOMAIN told : told[i] \in Nat
  OBVIOUS
<1> QED BY <1>1 DEF Known, Queued, Page

LEMMA AboveAll ==
  ASSUME NEW K, K \subseteq Nat, NEW n \in Nat, \A k \in K : k < n, NEW x \in K
  PROVE  ~(n <= x)
<1>1. x \in Nat /\ x < n
  OBVIOUS
<1> QED BY <1>1

LEMMA QueuedAppend ==
  ASSUME NEW told \in Seq(Nat), NEW n \in Nat
  PROVE  /\ Append(told, n) \in Seq(Nat)
         /\ Queued(Append(told, n)) = Queued(told) \cup {n}
<1> DEFINE more == Append(told, n)
<1>1. /\ more \in Seq(Nat) /\ Len(told) \in Nat
      /\ DOMAIN told = 1..Len(told) /\ DOMAIN more = 1..(Len(told) + 1)
      /\ \A i \in DOMAIN told : more[i] = told[i]
      /\ more[Len(told) + 1] = n
  OBVIOUS
<1>2. Queued(more) = Queued(told) \cup {n}
  <2>1. Queued(more) \subseteq Queued(told) \cup {n}
    <3> SUFFICES ASSUME NEW i \in DOMAIN more
                 PROVE  more[i] \in Queued(told) \cup {n}
      BY DEF Queued
    <3>1. i \in DOMAIN told \/ i = Len(told) + 1
      <4> HIDE DEF more
      <4> QED BY <1>1
    <3> HIDE DEF more
    <3> QED BY <1>1, <3>1 DEF Queued
  <2>2. Queued(told) \cup {n} \subseteq Queued(more)
    <3>1. Len(told) + 1 \in DOMAIN more /\ DOMAIN told \subseteq DOMAIN more
      <4> HIDE DEF more
      <4> QED BY <1>1
    <3> HIDE DEF more
    <3> QED BY <1>1, <3>1 DEF Queued
  <2> HIDE DEF more
  <2> QED BY <2>1, <2>2
<1> HIDE DEF more
<1> QED BY <1>1, <1>2 DEF more

(* The run of the page writes a line: it is told of it.                    *)
LEMMA FollowsOwnLine ==
  ASSUME NEW p \in Page, NEW f \in File, NEW g, NEW seq \in Nat, NEW n \in Nat, n = seq + 1,
         NEW r, NEW kind, NewLine(f, g, n, r, kind),
         NEW told \in Seq(Nat), Follows(p, f, TRUE, seq, told),
         p.lastSeq = 0 \/ p.lastSeq \in p.shown
  PROVE  Follows(p, g, TRUE, n, Append(told, n))
<1> DEFINE more == Append(told, n)
           K == Known(p, told)
<1>1. n \in Nat /\ seq < n /\ n # 0
  OBVIOUS
<1>2. Known(p, more) = K \cup {n}
  <2>1. Queued(Append(told, n)) = Queued(told) \cup {n}
    BY QueuedAppend
  <2> QED BY <2>1 DEF Known
<1>3. K \subseteq Nat
  BY KnownNumbers
<1>4. \A k \in K : k <= seq
  BY DEF Follows
<1>5. \A k \in K : k < n
  <2> HIDE DEF K
  <2> QED BY <1>1, <1>3, <1>4
<1>6. /\ Queued(told) \subseteq K /\ p.buffer \subseteq K
      /\ p.served \subseteq K /\ p.shown \subseteq K
  BY DEF Known
<1>7. /\ Len(told) \in Nat
      /\ DOMAIN told = 1..Len(told) /\ DOMAIN more = 1..(Len(told) + 1)
      /\ \A i \in DOMAIN told : more[i] = told[i] /\ told[i] \in K
      /\ more[Len(told) + 1] = n
  BY <1>1 DEF Known, Queued
<1> HIDE DEF K, more
<1>8. \A i, j \in DOMAIN more : i < j => more[i] < more[j]
  <2> SUFFICES ASSUME NEW i \in DOMAIN more, NEW j \in DOMAIN more, i < j
               PROVE  more[i] < more[j]
    OBVIOUS
  <2>1. i \in DOMAIN told
    BY <1>7
  <2>2. CASE j \in DOMAIN told
    BY <1>7, <2>1, <2>2 DEF Follows
  <2>3. CASE j = Len(told) + 1
    BY <1>5, <1>7, <2>1, <2>3
  <2> QED BY <1>7, <2>2, <2>3
<1>9. \A i \in DOMAIN more, b \in p.buffer : b < more[i]
  <2> SUFFICES ASSUME NEW i \in DOMAIN more, NEW b \in p.buffer
               PROVE  b < more[i]
    OBVIOUS
  <2>1. CASE i \in DOMAIN told
    BY <1>7, <2>1 DEF Follows
  <2>2. CASE i = Len(told) + 1
    BY <1>5, <1>6, <1>7, <2>2
  <2> QED BY <1>7, <2>1, <2>2
<1>10. \A k \in K \cup {n} : k <= n
  BY <1>1, <1>3, <1>5
<1>11. ASSUME ~g.spoiled, NEW k \in K \cup {n}
       PROVE  \E i \in DOMAIN g.lines : g.lines[i].whole /\ k <= g.lines[i].seq
  <2>1. CASE k = n
    <3>1. PICK i \in DOMAIN g.lines : g.lines[i].whole /\ g.lines[i].seq = n
      BY <1>11 DEF NewLine
    <3> QED BY <1>1, <2>1, <3>1
  <2>2. CASE k \in K
    <3>1. PICK i \in DOMAIN f.lines : f.lines[i].whole /\ k <= f.lines[i].seq
      BY <1>11, <2>2 DEF NewLine, Follows, K
    <3> QED BY <1>11, <3>1 DEF NewLine
  <2> QED BY <2>1, <2>2
<1>12. ASSUME NEW i \in FollowedLines(p, g)
       PROVE  \/ i \in FollowedLines(p, f) /\ g.lines[i] = f.lines[i]
              \/ g.lines[i].seq = n
  BY DEF FollowedLines, FollowedIn, NewLine
<1>13. p.log \in {"served", "applied"} =>
         \A i \in FollowedLines(p, g) : g.lines[i].seq \in K \cup {n}
  BY <1>12 DEF Follows, K
<1>14. p.log = "served" =>
         \A i \in FollowedLines(p, g) :
           \/ g.lines[i].seq \in p.served
           \/ \A k \in p.served : k < g.lines[i].seq
  BY <1>5, <1>6, <1>12 DEF Follows
<1>15. p.log = "applied" =>
         \A i \in FollowedLines(p, g) :
           g.lines[i].seq <= p.lastSeq => g.lines[i].seq \in p.shown
  <2>1. ~(n <= p.lastSeq)
    <3>1. CASE p.lastSeq = 0
      BY <1>1, <3>1
    <3>2. CASE p.lastSeq \in K
      BY <1>3, <1>5, <3>2, AboveAll
    <3> QED BY <1>6, <3>1, <3>2
  <2> QED BY <1>12, <2>1 DEF Follows
<1> QED BY <1>2, <1>8, <1>9, <1>10, <1>11, <1>13, <1>14, <1>15 DEF Follows, more

(* Somebody else writes a line, or the run of the page a decision past its *)
(* sink: if the line is to be shown, its number is above all others.       *)
LEMMA FollowsOtherLine ==
  ASSUME NEW p \in Page, NEW f \in File, NEW g, NEW n \in Nat, NEW m \in Nat, m < n,
         NEW r, NEW kind, NewLine(f, g, n, r, kind), Bounded(f.lines, m),
         r # p.run \/ kind = "decision",
         NEW told \in Seq(Nat), NEW seq, Follows(p, f, FALSE, seq, told),
         p.lastSeq = 0 \/ p.lastSeq \in p.shown, 0 < n
  PROVE  Follows(p, g, FALSE, seq, told)
<1> DEFINE K == Known(p, told)
<1>1. K \subseteq Nat
  BY KnownNumbers
<1>2. p.served \subseteq K /\ p.shown \subseteq K
  BY DEF Known
<1>3. \A i \in DOMAIN f.lines : f.lines[i].seq \in Nat
  <2>1. \A i \in DOMAIN f.lines : f.lines[i] \in Line
    BY DEF File
  <2> QED BY <2>1 DEF Line
<1> HIDE DEF K
<1>4. ASSUME ~g.spoiled, NEW k \in K
      PROVE  k < n /\ \E i \in DOMAIN g.lines : g.lines[i].whole /\ k <= g.lines[i].seq
  <2>1. PICK i \in DOMAIN f.lines : f.lines[i].whole /\ k <= f.lines[i].seq
    BY <1>4 DEF NewLine, Follows, K
  <2>2. f.lines[i].seq <= m
    BY <2>1 DEF Bounded
  <2>3. k < n
    BY <1>1, <1>3, <2>1, <2>2
  <2> QED BY <1>4, <2>1, <2>3 DEF NewLine
<1>5. ASSUME NEW i \in FollowedLines(p, g)
      PROVE  \/ i \in FollowedLines(p, f) /\ g.lines[i] = f.lines[i]
             \/ g.lines[i].seq = n /\ \A k \in K : k < n
  <2>1. CASE i \in ReadableIn(f) /\ g.lines[i] = f.lines[i]
    BY <2>1 DEF FollowedLines, FollowedIn, NewLine
  <2>2. CASE g.lines[i].seq = n /\ g.lines[i].run = r /\ g.lines[i].kind = kind
    BY <1>4, <2>2 DEF FollowedLines, FollowedIn
  <2> QED BY <2>1, <2>2 DEF FollowedLines, NewLine
<1>6. p.log \in {"served", "applied"} =>
         \A i \in FollowedLines(p, g) :
           g.lines[i].seq \in K \/ \A k \in K : k < g.lines[i].seq
  BY <1>5 DEF Follows, K
<1>7. p.log = "served" =>
         \A i \in FollowedLines(p, g) :
           \/ g.lines[i].seq \in p.served
           \/ \A k \in p.served : k < g.lines[i].seq
  BY <1>2, <1>5 DEF Follows
<1>8. p.log = "applied" =>
         \A i \in FollowedLines(p, g) :
           g.lines[i].seq <= p.lastSeq => g.lines[i].seq \in p.shown
  <2>1. (\A k \in K : k < n) => ~(n <= p.lastSeq)
    <3>1. CASE p.lastSeq = 0
      BY <3>1
    <3>2. CASE p.lastSeq \in K
      BY <1>1, <3>2, AboveAll
    <3> QED BY <1>2, <3>1, <3>2
  <2> QED BY <1>5, <2>1 DEF Follows
<1> QED BY <1>4, <1>6, <1>7, <1>8 DEF Follows, K
-----------------------------------------------------------------------------
(* What a run that writes finds and leaves behind for the page.            *)

PageBasic(p) ==
  /\ p \in Page
  /\ p.lastSeq = 0 \/ p.lastSeq \in p.shown

Heard(p, st, r) ==
  /\ StateOK(st)
  /\ st.entry.phase = "open"
  /\ Limited(p, st.feed)
  /\ st.entry.listening => r = p.run
  /\ p.stream \in {"none", "requested"} => st.feed = <<>> /\ ~st.entry.listening
  /\ p.streamFirst /\ r = p.run =>
       st.entry.listening /\ Follows(p, st.log, TRUE, st.entry.seq, st.feed)
  /\ p.streamFirst /\ r # p.run => Follows(p, st.log, FALSE, 0, st.feed)

LEMMA LimitedAppend ==
  ASSUME NEW p \in Page, NEW told \in Seq(Nat), NEW n \in Nat, 0 < n, Limited(p, told)
  PROVE  Limited(p, Append(told, n))
<1> DEFINE K == Known(p, told)
<1>1. Known(p, Append(told, n)) = K \cup {n}
  <2>1. Queued(Append(told, n)) = Queued(told) \cup {n}
    BY QueuedAppend
  <2> QED BY <2>1 DEF Known
<1>2. K \subseteq Nat
  BY KnownNumbers
<1>3. PICK m \in Nat : \A k \in K : 0 < k /\ k <= m
  BY DEF Limited
<1> HIDE DEF K
<1>4. m + n \in Nat /\ \A k \in K \cup {n} : 0 < k /\ k <= m + n
  BY <1>2, <1>3
<1> QED BY <1>1, <1>4 DEF Limited

LEMMA HeardWriteEvent ==
  ASSUME NEW p, PageBasic(p), NEW r \in Runs, NEW st, Heard(p, st, r),
         NEW s \in Steps, NEW kind \in Kind, NEW written \in BOOLEAN
  PROVE  Heard(p, WriteEvent(st, r, s, kind, written), r)
<1> DEFINE n == st.entry.seq + 1
           line == [seq |-> n, kind |-> kind, run |-> r, step |-> s, whole |-> TRUE]
           next == WriteEvent(st, r, s, kind, written)
<1>1. /\ StateOK(st) /\ FileOK(st.log) /\ st.log \in File /\ FileTyped(st.log)
      /\ st.entry \in RunLogEntry /\ st.feed \in Seq(Nat)
      /\ Bounded(st.log.lines, st.entry.seq)
      /\ st.entry.seq \in Nat /\ p \in Page
  BY DEF Heard, StateOK, FileOK, FileTyped, RunLogEntry, PageBasic
<1>2. n \in Nat /\ st.entry.seq < n /\ 0 < n
  BY <1>1
<1>3. StateOK(next) /\ next.entry.phase = "open"
  BY <1>1, WriteEventLemma DEF Heard
<1>4. /\ next.log = IF written THEN PutLine(st.log, line)
                    ELSE [st.log EXCEPT !.spoiled = TRUE]
      /\ next.entry.seq = n /\ next.entry.listening = st.entry.listening
      /\ next.feed = IF st.entry.listening THEN Append(st.feed, n) ELSE st.feed
  BY <1>1 DEF WriteEvent, RunLogEntry
<1>5. NewLine(st.log, next.log, n, r, kind)
  <2>1. /\ line \in Line /\ line.seq = n /\ line.run = r /\ line.kind = kind
        /\ line.whole
    <3> HIDE DEF n
    <3> QED BY <1>2 DEF Line
  <2> HIDE DEF line, n, next
  <2> QED BY <1>1, <1>4, <2>1, NewLinePut, NewLineFails
<1> HIDE DEF next, n
<1>6. Limited(p, next.feed)
  BY <1>1, <1>2, <1>4, LimitedAppend DEF Heard
<1>7. p.streamFirst /\ r = p.run =>
        next.entry.listening /\ Follows(p, next.log, TRUE, next.entry.seq, next.feed)
  <2> SUFFICES ASSUME p.streamFirst, r = p.run
               PROVE  next.entry.listening
                      /\ Follows(p, next.log, TRUE, next.entry.seq, next.feed)
    OBVIOUS
  <2>1. st.entry.listening /\ Follows(p, st.log, TRUE, st.entry.seq, st.feed)
    BY DEF Heard
  <2>2. Follows(p, next.log, TRUE, n, Append(st.feed, n))
    BY <1>1, <1>2, <1>5, <2>1, FollowsOwnLine DEF n, PageBasic
  <2> QED BY <1>4, <2>1, <2>2
<1>8. p.streamFirst /\ r # p.run => Follows(p, next.log, FALSE, 0, next.feed)
  <2> SUFFICES ASSUME p.streamFirst, r # p.run
               PROVE  Follows(p, next.log, FALSE, 0, next.feed)
    OBVIOUS
  <2>1. ~st.entry.listening /\ Follows(p, st.log, FALSE, 0, st.feed)
    BY DEF Heard
  <2>2. Follows(p, next.log, FALSE, 0, st.feed)
    BY <1>1, <1>2, <1>5, <2>1, FollowsOtherLine DEF PageBasic
  <2> QED BY <1>4, <2>1, <2>2
<1>9. /\ next.entry.listening => r = p.run
      /\ p.stream \in {"none", "requested"} => next.feed = <<>> /\ ~next.entry.listening
  BY <1>4 DEF Heard
<1> QED BY <1>3, <1>6, <1>7, <1>8, <1>9 DEF Heard, next

LEMMA HeardEntry ==
  ASSUME NEW p, NEW r, NEW st, Heard(p, st, r),
         NEW e \in RunLogEntry, e.seq = st.entry.seq, e.phase = st.entry.phase,
         e.listening = st.entry.listening
  PROVE  Heard(p, [st EXCEPT !.entry = e], r)
<1> DEFINE next == [st EXCEPT !.entry = e]
<1>1. StateOK(next) /\ next.entry = e
  BY EntryLemma DEF Heard
<1>2. next.log = st.log /\ next.feed = st.feed
  BY DEF Heard, StateOK
<1> HIDE DEF next
<1> QED BY <1>1, <1>2 DEF Heard, next

LEMMA HeardAppend ==
  ASSUME NEW p, PageBasic(p), NEW r \in Runs, NEW st, Heard(p, st, r),
         NEW s \in Steps, NEW kind \in Kind, NEW written \in BOOLEAN
  PROVE  Heard(p, AppendStepLog(st, r, s, kind, written), r)
<1> DEFINE settled == [st EXCEPT !.entry.settledSteps = @ \cup {s}]
           settling == IF kind = "step.result" THEN settled ELSE st
           marked == [settling EXCEPT !.entry.truncated = TRUE]
           capped == Truncate(settling, r, s, written)
           next == AppendStepLog(st, r, s, kind, written)
<1>1. Heard(p, settling, r)
  <2> DEFINE e == [st.entry EXCEPT !.settledSteps = @ \cup {s}]
  <2>1. settled = [st EXCEPT !.entry = e]
    OBVIOUS
  <2>2. /\ e \in RunLogEntry /\ e.seq = st.entry.seq /\ e.phase = st.entry.phase
        /\ e.listening = st.entry.listening
    BY DEF Heard, StateOK, RunLogEntry
  <2> HIDE DEF e
  <2>3. Heard(p, settled, r)
    BY <2>1, <2>2, HeardEntry
  <2> QED BY <2>3
<1> HIDE DEF settling
<1>2. Heard(p, marked, r)
  <2> DEFINE e == [settling.entry EXCEPT !.truncated = TRUE]
  <2>1. marked = [settling EXCEPT !.entry = e]
    OBVIOUS
  <2>2. /\ e \in RunLogEntry /\ e.seq = settling.entry.seq
        /\ e.phase = settling.entry.phase /\ e.listening = settling.entry.listening
    BY <1>1 DEF Heard, StateOK, RunLogEntry
  <2> HIDE DEF e
  <2> QED BY <1>1, <2>1, <2>2, HeardEntry
<1>3. Heard(p, capped, r)
  <2>1. capped = settling \/ capped = WriteEvent(marked, r, s, "log.truncated", written)
    BY DEF Truncate
  <2> HIDE DEF marked, capped
  <2>2. Heard(p, WriteEvent(marked, r, s, "log.truncated", written), r)
    BY <1>2, KindLemma, HeardWriteEvent
  <2> QED BY <1>1, <2>1, <2>2
<1>4. next = st \/ next = capped \/ next = WriteEvent(capped, r, s, kind, written)
  BY DEF AppendStepLog, AppendOpen, settling
<1> HIDE DEF next, capped
<1>5. Heard(p, WriteEvent(capped, r, s, kind, written), r)
  BY <1>3, HeardWriteEvent
<1> QED BY <1>3, <1>4, <1>5 DEF next

-----------------------------------------------------------------------------
PageInv == PageOK(page, log, sink, feed)

LEMMA FollowsClosed ==
  ASSUME NEW p, NEW f, NEW told, NEW a, NEW b, NEW open,
         Follows(p, f, open, a, told)
  PROVE  Follows(p, f, FALSE, b, told)
BY DEF Follows

LEMMA PageIsBasic ==
  ASSUME PageInv
  PROVE  PageBasic(page) /\ page.run \in Runs
BY DEF PageInv, PageOK, PageShape, PageBasic, Page

LEMMA HeardHere ==
  ASSUME LogInv, PageInv, NEW r \in Runs, sink[r].phase = "open"
  PROVE  Heard(page, State(r), r)
<1>1. /\ StateOK(State(r)) /\ State(r).log = log /\ State(r).entry = sink[r]
      /\ State(r).feed = feed
  BY StateLemma DEF State
<1>2. PageShape(page, sink, feed) /\ page.run \in Runs
  BY PageIsBasic DEF PageInv, PageOK
<1>3. page.streamFirst /\ r # page.run => Follows(page, log, FALSE, 0, feed)
  BY FollowsClosed DEF PageInv, PageOK
<1>4. page.streamFirst /\ r = page.run =>
        sink[r].listening /\ Follows(page, log, TRUE, sink[r].seq, feed)
  BY <1>2 DEF PageInv, PageOK, PageShape
<1> QED BY <1>1, <1>2, <1>3, <1>4 DEF Heard, PageShape

LEMMA PageCommit ==
  ASSUME LogInv, PageInv, NEW r \in Runs, NEW st, sink[r].phase = "open",
         Heard(page, st, r), Commit(r, st), page' = page
  PROVE  PageInv'
<1>1. /\ log' = st.log /\ sink' = [sink EXCEPT ![r] = st.entry] /\ feed' = st.feed
      /\ st.entry \in RunLogEntry /\ st.entry.phase = "open"
      /\ st.feed \in Seq(Nat)
  BY DEF Commit, Heard, StateOK
<1>2. /\ sink \in [Runs -> RunLogEntry]
      /\ sink'[r] = st.entry
      /\ \A q \in Runs \ {r} : sink'[q] = sink[q] /\ sink[q].phase # "open"
  BY <1>1 DEF LogInv, LogTypeOK
<1>3. PageShape(page, sink, feed) /\ page.run \in Runs
  BY PageIsBasic DEF PageInv, PageOK
<1>4. PageShape(page, sink', feed')
  <2>1. \A q \in Runs : sink'[q].listening => q = page.run /\ sink'[q].phase = "open"
    BY <1>1, <1>2, <1>3 DEF Heard, PageShape
  <2>2. page.log # "none" => sink'[page.run].phase # "new"
    BY <1>1, <1>2, <1>3 DEF PageShape
  <2>3. page.stream \in {"none", "requested"} =>
          feed' = <<>> /\ ~sink'[page.run].listening
    BY <1>1, <1>2, <1>3 DEF Heard, PageShape
  <2>4. page.streamFirst /\ sink'[page.run].phase = "open" => sink'[page.run].listening
    BY <1>1, <1>2, <1>3 DEF Heard, PageShape
  <2>5. feed' \in Seq(Nat) /\ Limited(page, feed')
    BY <1>1 DEF Heard
  <2> QED BY <1>3, <2>1, <2>2, <2>3, <2>4, <2>5 DEF PageShape
<1>5. page.streamFirst => 
        Follows(page, log', sink'[page.run].phase = "open", sink'[page.run].seq, feed')
  <2>1. CASE r = page.run
    BY <1>1, <1>2, <2>1 DEF Heard
  <2>2. CASE r # page.run
    <3>1. sink'[page.run].phase # "open"
      BY <1>2, <1>3, <2>2
    <3>2. page.streamFirst => Follows(page, log', FALSE, 0, feed')
      BY <1>1, <2>2 DEF Heard
    <3> QED BY <3>1, <3>2, FollowsClosed
  <2> QED BY <2>1, <2>2
<1>6. PageOK(page, log', sink', feed')
  BY <1>4, <1>5 DEF PageOK
<1> QED BY <1>6 DEF PageInv

(* Nothing but the phases of the runs and their marks changes.             *)
LEMMA PageBeside ==
  ASSUME LogInv, PageInv, page' = page, log' = log, feed' = feed,
         \A q \in Runs :
           /\ sink'[q].listening => sink[q].listening /\ sink'[q].phase = "open"
           /\ sink[q].phase # "new" => sink'[q].phase # "new"
           /\ sink'[q].phase = "open" => sink[q].phase \in {"new", "open"}
           /\ sink'[q].phase = "open" /\ sink[q].phase = "open" =>
                sink'[q].listening = sink[q].listening /\ sink'[q].seq = sink[q].seq
  PROVE  PageInv'
<1>1. PageShape(page, sink, feed) /\ page.run \in Runs
  BY PageIsBasic DEF PageInv, PageOK
<1>2. page.streamFirst => sink[page.run].phase # "new"
  BY <1>1 DEF PageShape
<1>3. PageShape(page, sink', feed)
  BY <1>1, <1>2 DEF PageShape
<1>4. page.streamFirst => 
        Follows(page, log, sink'[page.run].phase = "open", sink'[page.run].seq, feed)
  <2>1. CASE sink'[page.run].phase = "open"
    BY <1>1, <1>2, <2>1 DEF PageInv, PageOK
  <2>2. CASE sink'[page.run].phase # "open"
    BY <2>2, FollowsClosed DEF PageInv, PageOK
  <2> QED BY <2>1, <2>2
<1>5. PageOK(page, log, sink', feed)
  BY <1>3, <1>4 DEF PageOK
<1> QED BY <1>5 DEF PageInv

LEMMA PageAppend ==
  ASSUME LogInv, PageInv, page' = page, NEW r \in Runs, NEW s \in Steps,
         NEW kind \in Kind, NEW written \in BOOLEAN,
         Commit(r, AppendStepLog(State(r), r, s, kind, written))
  PROVE  PageInv'
<1> DEFINE st == AppendStepLog(State(r), r, s, kind, written)
<1>1. CASE sink[r].phase = "open"
  <2>1. Heard(page, st, r)
    BY <1>1, HeardHere, PageIsBasic, HeardAppend
  <2> HIDE DEF st
  <2> QED BY <1>1, <2>1, PageCommit DEF st
<1>2. CASE sink[r].phase # "open"
  <2>1. st = State(r)
    BY <1>2, StateLemma DEF AppendStepLog
  <2>2. /\ log' = log /\ feed' = feed
        /\ sink \in [Runs -> RunLogEntry] /\ sink' = [sink EXCEPT ![r] = sink[r]]
    <3>1. Commit(r, State(r))
      BY <2>1
    <3> QED BY <3>1 DEF Commit, State, LogInv, LogTypeOK
  <2>3. \A q \in Runs : sink'[q] = sink[q]
    BY <2>2
  <2>4. PageShape(page, sink, feed)
    BY DEF PageInv, PageOK
  <2> QED BY <2>2, <2>3, <2>4, PageBeside DEF PageShape
<1> QED BY <1>1, <1>2

LEMMA PageOpenStep ==
  ASSUME LogInv, PageInv, page' = page, NEW r \in Runs, 
         Open(r) \/ Cancel(r) \/ Close(r)
  PROVE  PageInv'
<1>1. sink \in [Runs -> RunLogEntry] /\ log' = log /\ feed' = feed
  BY DEF LogInv, LogTypeOK, Open, Cancel, Close
<1>2. PageShape(page, sink, feed)
  BY DEF PageInv, PageOK
<1>3. CASE Open(r)
  <2> DEFINE n == NextSeqFromFile(log.lines) - 1
             e == [sink[r] EXCEPT !.phase = "open", !.seq = n, !.bytes = log.bytes]
  <2>1. sink' = [sink EXCEPT ![r] = e] /\ sink[r].phase = "new"
    BY <1>3 DEF Open
  <2>2. e.phase = "open" /\ e.listening = sink[r].listening
    BY <1>1 DEF RunLogEntry
  <2> HIDE DEF e
  <2>3. sink'[r] = e /\ \A q \in Runs \ {r} : sink'[q] = sink[q]
    BY <1>1, <2>1
  <2> QED BY <1>1, <1>2, <2>1, <2>2, <2>3, PageBeside DEF PageShape
<1>4. CASE Cancel(r)
  <2>1. PICK inFlight \in InFlight(r) :
          sink' = [sink EXCEPT ![r].cancelled = TRUE, ![r].closing = inFlight]
    BY <1>4 DEF Cancel
  <2> DEFINE e == [sink[r] EXCEPT !.cancelled = TRUE, !.closing = inFlight]
  <2>2. sink' = [sink EXCEPT ![r] = e]
    BY <1>1, <2>1
  <2>3. /\ e.phase = sink[r].phase /\ e.listening = sink[r].listening
        /\ e.seq = sink[r].seq
    BY <1>1 DEF RunLogEntry
  <2> HIDE DEF e
  <2>4. sink'[r] = e /\ \A q \in Runs \ {r} : sink'[q] = sink[q]
    BY <1>1, <2>2
  <2> QED BY <1>1, <1>2, <2>3, <2>4, PageBeside DEF PageShape
<1>5. CASE Close(r)
  <2> DEFINE e == [sink[r] EXCEPT !.phase = "closed", !.listening = FALSE]
  <2>1. sink' = [sink EXCEPT ![r] = e]
    BY <1>5 DEF Close
  <2>2. e.phase = "closed" /\ ~e.listening
    BY <1>1 DEF RunLogEntry
  <2> HIDE DEF e
  <2>3. sink'[r] = e /\ \A q \in Runs \ {r} : sink'[q] = sink[q]
    BY <1>1, <2>1
  <2> QED BY <1>1, <1>2, <2>2, <2>3, PageBeside DEF PageShape
<1> QED BY <1>3, <1>4, <1>5

LEMMA PageDecideStep ==
  ASSUME LogInv, ~Shared, PageInv, page' = page, NEW r \in Runs, NEW s \in Steps,
         Decide(r, s)
  PROVE  PageInv'
<1>1. PICK written \in Written("decision") :
        \/ Commit(r, AppendStepLog(State(r), r, s, "decision", written))
        \/ /\ sink[r].phase = "closed" /\ HasFile(r)
           /\ log' = AppendRunLogFileEvent(log, r, s, "decision", written)
           /\ UNCHANGED <<sink, feed>>
  BY DEF Decide
<1>2. written \in BOOLEAN /\ "decision" \in Kind
  BY WrittenLemma, KindLemma
<1>3. CASE Commit(r, AppendStepLog(State(r), r, s, "decision", written))
  BY <1>2, <1>3, PageAppend
<1>4. CASE /\ sink[r].phase = "closed" /\ HasFile(r)
           /\ log' = AppendRunLogFileEvent(log, r, s, "decision", written)
           /\ UNCHANGED <<sink, feed>>
  <2> DEFINE n == NextSeqFromFile(log.lines)
             line == [seq |-> n, kind |-> "decision", run |-> r, step |-> s,
                      whole |-> TRUE]
  <2>1. FileOK(log) /\ log \in File /\ FileTyped(log)
    BY DEF LogInv, FileOK, FileTyped
  <2>2. n \in Nat \ {0} /\ Bounded(log.lines, n - 1)
    BY <2>1, NextSeqLemma
  <2>3. log' = IF written THEN PutLine(log, line) ELSE [log EXCEPT !.spoiled = TRUE]
    BY <1>4 DEF AppendRunLogFileEvent
  <2> HIDE DEF n
  <2>4. /\ line \in Line /\ line.whole /\ line.seq = n /\ line.run = r
        /\ line.kind = "decision"
    BY <1>2, <2>2 DEF Line
  <2>5. NewLine(log, log', n, r, "decision")
    <3> HIDE DEF line
    <3> QED BY <2>1, <2>3, <2>4, NewLinePut, NewLineFails
  <2>6. sink[page.run].phase # "open"
    BY <1>4, PageIsBasic DEF HasFile
  <2>7. PageShape(page, sink, feed) /\ feed \in Seq(Nat)
    BY DEF PageInv, PageOK, PageShape
  <2>8. ASSUME page.streamFirst
        PROVE  Follows(page, log', FALSE, sink[page.run].seq, feed)
    <3>1. Follows(page, log, FALSE, sink[page.run].seq, feed)
      BY <2>6, <2>8 DEF PageInv, PageOK
    <3>2. n \in Nat /\ n - 1 \in Nat /\ n - 1 < n /\ 0 < n
      BY <2>2
    <3> DEFINE m == n - 1
               seq == sink[page.run].seq
    <3>3. m \in Nat /\ m < n /\ Bounded(log.lines, m)
      BY <2>2, <3>2
    <3>4. page \in Page /\ (page.lastSeq = 0 \/ page.lastSeq \in page.shown)
      BY PageIsBasic DEF PageBasic
    <3> HIDE DEF m, seq
    <3>5. Follows(page, log, FALSE, seq, feed)
      BY <3>1 DEF seq
    <3>6. Follows(page, log', FALSE, seq, feed)
      BY <2>1, <2>5, <2>7, <3>2, <3>3, <3>4, <3>5, FollowsOtherLine
    <3> QED BY <3>6 DEF seq
  <2>9. PageOK(page, log', sink, feed)
    BY <2>6, <2>7, <2>8 DEF PageOK
  <2> QED BY <1>4, <2>9 DEF PageInv
<1> QED BY <1>1, <1>3, <1>4

LEMMA PageCancelStep ==
  ASSUME LogInv, PageInv, page' = page, NEW r \in Runs, NEW s \in Steps,
         CancelStep(r, s)
  PROVE  PageInv'
<1> DEFINE e == [sink[r] EXCEPT !.closing = @ \ {s}]
           st == [State(r) EXCEPT !.entry = e]
<1>1. PICK written \in Written("step.result") :
        Commit(r, AppendStepLog([State(r) EXCEPT !.entry.closing = @ \ {s}],
                                r, s, "step.result", written))
  BY DEF CancelStep
<1>2. [State(r) EXCEPT !.entry.closing = @ \ {s}] = st
  BY DEF State
<1>3. written \in BOOLEAN /\ "step.result" \in Kind
  BY WrittenLemma, KindLemma
<1>4. sink \in [Runs -> RunLogEntry] /\ sink[r] \in RunLogEntry
  BY DEF LogInv, LogTypeOK
<1>5. /\ e \in RunLogEntry /\ e.seq = sink[r].seq /\ e.phase = sink[r].phase
      /\ e.listening = sink[r].listening
  BY <1>4 DEF RunLogEntry
<1>6. st.log = log /\ st.entry = e /\ st.feed = feed /\ State(r).entry = sink[r]
  BY DEF State
<1> HIDE DEF e
<1>7. CASE sink[r].phase = "open"
  <2>1. Heard(page, st, r)
    BY <1>5, <1>6, <1>7, HeardHere, HeardEntry
  <2> HIDE DEF st
  <2>2. Heard(page, AppendStepLog(st, r, s, "step.result", written), r)
    BY <1>3, <2>1, PageIsBasic, HeardAppend
  <2> QED BY <1>1, <1>2, <1>7, <2>2, PageCommit
<1>8. CASE sink[r].phase # "open"
  <2>1. AppendStepLog(st, r, s, "step.result", written) = st
    BY <1>5, <1>6, <1>8 DEF AppendStepLog
  <2>2. log' = log /\ feed' = feed /\ sink' = [sink EXCEPT ![r] = e]
    BY <1>1, <1>2, <1>6, <2>1 DEF Commit
  <2>3. sink'[r] = e /\ \A q \in Runs \ {r} : sink'[q] = sink[q]
    BY <1>4, <2>2
  <2>4. PageShape(page, sink, feed)
    BY DEF PageInv, PageOK
  <2> QED BY <1>5, <2>2, <2>3, <2>4, PageBeside DEF PageShape
<1> QED BY <1>7, <1>8

-----------------------------------------------------------------------------
(* Applying numbers adds those above the last one applied.                 *)
LEMMA MergeAdds ==
  ASSUME NEW p \in Page, NEW T \in SUBSET Nat, NEW n \in Nat, \A k \in T : 0 < k /\ k <= n,
         \A k \in p.shown : k <= p.lastSeq,
         p.lastSeq = 0 \/ p.lastSeq \in p.shown
  PROVE  LET q == Merge(p, T) IN
           /\ q \in Page
           /\ q.shown = p.shown \cup Fresh(p, T)
           /\ q.run = p.run /\ q.stream = p.stream /\ q.log = p.log
           /\ q.served = p.served /\ q.buffer = p.buffer
           /\ q.streamFirst = p.streamFirst
           /\ \A k \in q.shown : k <= q.lastSeq
           /\ q.lastSeq = 0 \/ q.lastSeq \in q.shown
           /\ q.lastSeq = p.lastSeq \/ q.lastSeq \in Fresh(p, T)
<1> DEFINE F == Fresh(p, T)
           top == CHOOSE m \in F : \A k \in F : k <= m
           q == Merge(p, T)
<1>0. /\ p.lastSeq \in Nat /\ p.shown \subseteq Nat
  BY DEF Page
<1>1. F \subseteq T /\ \A k \in F : k > p.lastSeq
  BY DEF Fresh
<1>2. q = [p EXCEPT !.shown = p.shown \cup F, !.lastSeq = IF F = {} THEN p.lastSeq ELSE top]
  BY DEF Merge, Page
<1>3. CASE F = {}
  <2>1. q = [p EXCEPT !.shown = p.shown, !.lastSeq = p.lastSeq]
    BY <1>2, <1>3
  <2> HIDE DEF F, q
  <2>2. q = p
    BY <2>1 DEF Page
  <2> QED BY <1>3, <2>2 DEF F, q
<1>4. CASE F # {}
  <2>1. F \subseteq 1..n
    <3> HIDE DEF F
    <3>1. \A k \in F : k \in Nat /\ 0 < k /\ k <= n
      BY <1>1
    <3> QED BY <3>1
  <2>2. \E m \in F : \A k \in F : k <= m
    <3> HIDE DEF F
    <3> QED BY <1>4, <2>1, HasGreatest
  <2>3. top \in F /\ \A k \in F : k <= top
    <3> HIDE DEF F
    <3> QED BY <2>2
  <2>4. q = [p EXCEPT !.shown = p.shown \cup F, !.lastSeq = top]
    BY <1>2, <1>4
  <2> HIDE DEF F, q, top
  <2>5. F \subseteq Nat
    BY <1>1
  <2>6. /\ q \in Page /\ q.shown = p.shown \cup F /\ q.lastSeq = top
        /\ q.run = p.run /\ q.stream = p.stream /\ q.log = p.log
        /\ q.served = p.served /\ q.buffer = p.buffer
        /\ q.streamFirst = p.streamFirst
    BY <1>0, <2>3, <2>4, <2>5 DEF Page
  <2>7. \A k \in q.shown : k <= top
    <3>1. top \in Nat /\ p.lastSeq < top
      BY <1>0, <1>1, <2>3, <2>5
    <3>2. \A k \in p.shown : k <= top
      BY <1>0, <3>1
    <3> QED BY <2>3, <2>6, <3>2
  <2> QED BY <2>3, <2>6, <2>7 DEF F, q
<1> QED BY <1>3, <1>4

LEMMA PageOpensStep ==
  ASSUME LogInv, PageInv, PageOpens
  PROVE  PageInv'
<1>1. PageShape(page, sink, feed)
  BY DEF PageInv, PageOK
<1>2. /\ page.log = "none" /\ sink[page.run].phase # "new"
      /\ page' = [page EXCEPT !.log = "requested",
           !.stream = IF sink[page.run].phase = "dead" THEN "none" ELSE "requested"]
      /\ sink' = sink /\ feed' = feed /\ log' = log
  BY DEF PageOpens, logVars
<1>3. /\ page' \in Page /\ page'.log = "requested"
      /\ page'.stream \in {"none", "requested"}
      /\ page'.run = page.run /\ page'.served = page.served
      /\ page'.buffer = page.buffer /\ page'.shown = page.shown
      /\ page'.lastSeq = page.lastSeq /\ page'.streamFirst = page.streamFirst
  BY <1>1, <1>2 DEF PageShape, Page
<1>4. Known(page', feed) = Known(page, feed)
  BY <1>3 DEF Known
<1>5. PageShape(page', sink, feed) /\ ~page'.streamFirst
  BY <1>1, <1>2, <1>3, <1>4 DEF PageShape, Limited
<1>6. PageOK(page', log', sink', feed')
  BY <1>2, <1>5 DEF PageOK
<1> QED BY <1>6 DEF PageInv

LEMMA StreamConnectsStep ==
  ASSUME LogInv, PageInv, StreamConnects
  PROVE  PageInv'
<1>1. PageShape(page, sink, feed) /\ page.run \in Runs
  BY PageIsBasic DEF PageInv, PageOK
<1> DEFINE e == [sink[page.run] EXCEPT !.listening = sink[page.run].phase = "open"]
<1>2. /\ page.stream = "requested"
      /\ page' = [page EXCEPT !.stream = "up",
                              !.streamFirst = (page.log = "requested")]
      /\ sink' = [sink EXCEPT ![page.run] = e] /\ feed' = feed /\ log' = log
  BY DEF StreamConnects, Subscribe
<1>3. sink \in [Runs -> RunLogEntry] /\ sink[page.run] \in RunLogEntry
  BY <1>1 DEF LogInv, LogTypeOK
<1>4. e.phase = sink[page.run].phase /\ (e.listening <=> e.phase = "open")
  BY <1>3 DEF RunLogEntry
<1> HIDE DEF e
<1>5. sink'[page.run] = e /\ \A q \in Runs \ {page.run} : sink'[q] = sink[q]
  BY <1>1, <1>2, <1>3
<1>6. /\ page' \in Page /\ page'.stream = "up"
      /\ page'.log = page.log /\ (page'.streamFirst <=> page.log = "requested")
      /\ page'.run = page.run /\ page'.served = page.served
      /\ page'.buffer = page.buffer /\ page'.shown = page.shown
      /\ page'.lastSeq = page.lastSeq
  BY <1>1, <1>2 DEF PageShape, Page
<1>7. Known(page', feed) = Known(page, feed)
  BY <1>6 DEF Known
<1>8. page.log # "none" /\ page.buffer = {} /\ feed = <<>>
  BY <1>1, <1>2 DEF PageShape
<1>9. \A q \in Runs : sink'[q].listening => q = page.run /\ sink'[q].phase = "open"
  BY <1>1, <1>4, <1>5 DEF PageShape
<1>10. PageShape(page', sink', feed)
  BY <1>1, <1>4, <1>5, <1>6, <1>7, <1>8, <1>9 DEF PageShape, Limited
<1>11. ASSUME page'.streamFirst, NEW open, NEW seq
       PROVE  Follows(page', log, open, seq, feed)
  <2>1. page'.log = "requested" /\ page.shown = {} /\ page.served = {}
    BY <1>1, <1>6, <1>11 DEF PageShape
  <2>2. DOMAIN feed = {}
    BY <1>8
  <2>3. Known(page', feed) = {}
    BY <1>6, <1>8, <2>1, <2>2 DEF Known, Queued
  <2> QED BY <2>1, <2>2, <2>3 DEF Follows
<1>12. PageOK(page', log', sink', feed')
  BY <1>2, <1>10, <1>11 DEF PageOK
<1> QED BY <1>12 DEF PageInv

LEMMA LogServedStep ==
  ASSUME LogInv, PageInv, LogServed
  PROVE  PageInv'
<1> DEFINE T == {i \in PipeRunLog(0, Kind) : log.lines[i].whole}
           S == Seqs(T)
           top == NextSeqFromFile(log.lines) - 1
<1>1. PageShape(page, sink, feed) /\ page.run \in Runs /\ FileOK(log)
      /\ feed \in Seq(Nat)
  BY PageIsBasic DEF PageInv, PageOK, PageShape, LogInv
<1>2. /\ page.log = "requested"
      /\ page' = [page EXCEPT !.log = "served", !.served = S]
      /\ sink' = sink /\ feed' = feed /\ log' = log
  BY DEF LogServed, logVars
<1>3. \A i \in DOMAIN log.lines :
        /\ log.lines[i].seq \in Nat /\ 0 < log.lines[i].seq
        /\ log.lines[i].kind \in Kind
  <2>1. \A i \in DOMAIN log.lines : log.lines[i] \in Line
    BY <1>1 DEF FileOK, File
  <2> QED BY <1>1, <2>1 DEF FileOK, Positive, Line
<1>4. T = ReadableIn(log)
  <2>1. \A i \in CompleteIn(log) : i \in DOMAIN log.lines
    BY DEF CompleteIn
  <2>2. \A i \in CompleteIn(log) : log.lines[i].seq > 0 /\ log.lines[i].kind \in Kind
    BY <1>3, <2>1
  <2> QED BY <2>2, CompleteIsComplete DEF PipeRunLog, ReadableIn
<1>5. \A k \in S : \E i \in DOMAIN log.lines :
        log.lines[i].whole /\ log.lines[i].seq = k
  BY <1>4 DEF Seqs, ReadableIn, CompleteIn
<1>6. \A i \in ReadableIn(log) : log.lines[i].seq \in S
  BY <1>4 DEF Seqs
<1>7. top \in Nat /\ \A k \in S : k \in Nat /\ 0 < k /\ k <= top
  <2>1. top \in Nat /\ Bounded(log.lines, top)
    BY <1>1, NextSeqLemma
  <2> HIDE DEF top, S
  <2> QED BY <1>3, <1>5, <2>1 DEF Bounded
<1>8. S \subseteq Nat
  <2> HIDE DEF S
  <2> QED BY <1>7
<1> HIDE DEF S, T, top
<1>9. /\ page' \in Page /\ page'.log = "served"
      /\ page'.run = page.run /\ page'.served = S
      /\ page'.buffer = page.buffer /\ page'.shown = page.shown
      /\ page'.lastSeq = page.lastSeq /\ page'.streamFirst = page.streamFirst
      /\ page'.stream = page.stream
  BY <1>1, <1>2, <1>8 DEF PageShape, Page
<1>10. page.shown = {} /\ page.served = {} /\ page.lastSeq = 0
  BY <1>1, <1>2 DEF PageShape
<1>11. Known(page', feed) = Known(page, feed) \cup S
  BY <1>9, <1>10 DEF Known
<1>12. Limited(page', feed)
  <2>1. PICK n \in Nat : \A k \in Known(page, feed) : 0 < k /\ k <= n
    BY <1>1 DEF PageShape, Limited
  <2>2. Known(page, feed) \subseteq Nat
    BY <1>1, KnownNumbers DEF PageShape
  <2> DEFINE K == Known(page, feed)
  <2> HIDE DEF K
  <2>3. n + top \in Nat /\ \A k \in K \cup S : 0 < k /\ k <= n + top
    BY <1>7, <2>1, <2>2 DEF K
  <2> QED BY <1>11, <2>3 DEF Limited, K
<1>13. PageShape(page', sink, feed)
  BY <1>1, <1>2, <1>9, <1>10, <1>12 DEF PageShape
<1>14. ASSUME page'.streamFirst
       PROVE  Follows(page', log, sink[page.run].phase = "open", sink[page.run].seq, feed)
  <2> DEFINE open == sink[page.run].phase = "open"
             seq == sink[page.run].seq
  <2>1. Follows(page, log, open, seq, feed)
    BY <1>9, <1>14 DEF PageInv, PageOK
  <2>2. open => \A k \in S : k <= seq
    BY <1>1, <1>5 DEF LogInv, Bounded
  <2> HIDE DEF open, seq
  <2>3. open => \A k \in Known(page', feed) : k <= seq
    BY <1>11, <2>1, <2>2 DEF Follows
  <2>4. ~log.spoiled =>
          \A k \in Known(page', feed) : \E i \in DOMAIN log.lines :
            log.lines[i].whole /\ k <= log.lines[i].seq
    <3> SUFFICES ASSUME ~log.spoiled, NEW k \in Known(page, feed) \cup S
                 PROVE  \E i \in DOMAIN log.lines :
                          log.lines[i].whole /\ k <= log.lines[i].seq
      BY <1>11
    <3>1. CASE k \in S
      <4>1. PICK i \in DOMAIN log.lines : log.lines[i].whole /\ log.lines[i].seq = k
        BY <1>5, <3>1
      <4> QED BY <1>3, <4>1
    <3>2. CASE k \in Known(page, feed)
      BY <2>1, <3>2 DEF Follows
    <3> QED BY <3>1, <3>2
  <2>5. \A i \in FollowedLines(page', log) : log.lines[i].seq \in S
    BY <1>6 DEF FollowedLines
  <2>6. /\ \A i, j \in DOMAIN feed : i < j => feed[i] < feed[j]
        /\ \A i \in DOMAIN feed, b \in page'.buffer : b < feed[i]
    BY <1>9, <2>1 DEF Follows
  <2> QED BY <1>9, <1>11, <2>3, <2>4, <2>5, <2>6 DEF Follows, open, seq
<1>15. PageOK(page', log', sink', feed')
  BY <1>2, <1>9, <1>13, <1>14 DEF PageOK
<1> QED BY <1>15 DEF PageInv

-----------------------------------------------------------------------------
LEMMA LineNumbers ==
  ASSUME FileOK(log)
  PROVE  \A i \in DOMAIN log.lines : log.lines[i].seq \in Nat /\ 0 < log.lines[i].seq
<1>1. \A i \in DOMAIN log.lines : log.lines[i] \in Line
  BY DEF FileOK, File
<1> QED BY <1>1 DEF FileOK, Positive, Line

LEMMA FollowedIsLine ==
  ASSUME NEW p, NEW file
  PROVE  FollowedLines(p, file) \subseteq DOMAIN file.lines
BY DEF FollowedLines, ReadableIn, CompleteIn

LEMMA LogArrivesStep ==
  ASSUME LogInv, PageInv, LogArrives
  PROVE  PageInv'
<1> DEFINE once == Merge(page, page.served)
           both == Merge(once, page.buffer)
           open == sink[page.run].phase = "open"
           seq == sink[page.run].seq
<1>1. /\ PageShape(page, sink, feed) /\ page \in Page /\ page.run \in Runs
      /\ FileOK(log) /\ feed \in Seq(Nat)
  BY PageIsBasic DEF PageInv, PageOK, PageShape, LogInv
<1>2. /\ page.log = "served" /\ page.shown = {} /\ page.lastSeq = 0
      /\ page' = [both EXCEPT !.log = "applied", !.buffer = {}, !.served = {}]
      /\ sink' = sink /\ feed' = feed /\ log' = log
  BY <1>1 DEF LogArrives, logVars, PageShape
<1>3. PICK n \in Nat : \A k \in Known(page, feed) : 0 < k /\ k <= n
  BY <1>1 DEF PageShape, Limited
<1>4. /\ page.served \in SUBSET Nat /\ page.buffer \in SUBSET Nat
      /\ \A k \in page.served \cup page.buffer : 0 < k /\ k <= n
  BY <1>1, <1>3 DEF Page, Known
<1>5. /\ once \in Page /\ once.shown = page.served
      /\ once.run = page.run /\ once.stream = page.stream
      /\ once.streamFirst = page.streamFirst
      /\ \A k \in once.shown : k <= once.lastSeq
      /\ once.lastSeq = 0 \/ once.lastSeq \in page.served
  <2>1. Fresh(page, page.served) = page.served
    BY <1>2, <1>4 DEF Fresh
  <2>2. /\ \A k \in page.served : 0 < k /\ k <= n
        /\ \A k \in page.shown : k <= page.lastSeq
        /\ page.lastSeq = 0 \/ page.lastSeq \in page.shown
    BY <1>2, <1>4
  <2>3. /\ once \in Page /\ once.shown = page.shown \cup Fresh(page, page.served)
        /\ once.run = page.run /\ once.stream = page.stream
        /\ once.streamFirst = page.streamFirst
        /\ \A k \in once.shown : k <= once.lastSeq
        /\ once.lastSeq = page.lastSeq \/ once.lastSeq \in Fresh(page, page.served)
    BY <1>1, <1>4, <2>2, MergeAdds
  <2> HIDE DEF once
  <2> QED BY <1>2, <2>1, <2>3
<1> HIDE DEF once
<1>6. /\ both \in Page /\ both.shown = page.served \cup Fresh(once, page.buffer)
      /\ both.run = page.run /\ both.stream = page.stream
      /\ both.streamFirst = page.streamFirst
      /\ \A k \in both.shown : k <= both.lastSeq
      /\ both.lastSeq = 0 \/ both.lastSeq \in both.shown
  BY <1>4, <1>5, MergeAdds, ZenonT(40)
<1> HIDE DEF both
<1>7. /\ page' \in Page /\ page'.log = "applied"
      /\ page'.buffer = {} /\ page'.served = {}
      /\ page'.shown = both.shown /\ page'.lastSeq = both.lastSeq
      /\ page'.run = page.run /\ page'.stream = page.stream
      /\ page'.streamFirst = page.streamFirst
  BY <1>2, <1>6 DEF Page
<1>8. /\ Known(page', feed) \subseteq Known(page, feed)
      /\ page.served \subseteq page'.shown
      /\ page'.shown \subseteq page.served \cup page.buffer
      /\ \A b \in page.buffer : b > once.lastSeq => b \in page'.shown
      /\ Queued(feed) \subseteq Known(page', feed)
      /\ page'.shown \subseteq Known(page', feed)
  BY <1>6, <1>7 DEF Known, Fresh
<1>9. Known(page, feed) \subseteq Nat
  BY <1>1, KnownNumbers
<1>10. Limited(page', feed)
  BY <1>3, <1>8 DEF Limited
<1>11. PageShape(page', sink, feed)
  BY <1>1, <1>2, <1>6, <1>7, <1>10 DEF PageShape
<1>12. ASSUME page'.streamFirst
       PROVE  Follows(page', log, open, seq, feed)
  <2>1. Follows(page, log, open, seq, feed)
    BY <1>7, <1>12 DEF PageInv, PageOK
  <2> HIDE DEF open, seq
  <2> DEFINE line(i) == log.lines[i].seq
  <2>2. /\ \A i, j \in DOMAIN feed : i < j => feed[i] < feed[j]
        /\ \A i \in DOMAIN feed, b \in page'.buffer : b < feed[i]
        /\ open => \A k \in Known(page', feed) : k <= seq
        /\ ~log.spoiled =>
             \A k \in Known(page', feed) : \E i \in DOMAIN log.lines :
               log.lines[i].whole /\ k <= log.lines[i].seq
    BY <1>7, <1>8, <2>1 DEF Follows
  <2>3. ASSUME NEW i \in FollowedLines(page, log)
        PROVE  \/ line(i) \in page'.shown
               \/ /\ line(i) \in Queued(feed) /\ \A k \in page'.shown : k < line(i)
               \/ ~open /\ \A k \in Known(page, feed) : k < line(i)
    <3>1. line(i) \in Nat /\ 0 < line(i)
      BY <1>1, LineNumbers, FollowedIsLine
    <3>2. \/ line(i) \in Known(page, feed)
          \/ ~open /\ \A k \in Known(page, feed) : k < line(i)
      BY <1>2, <2>1 DEF Follows
    <3>3. line(i) \in page.served \/ \A k \in page.served : k < line(i)
      BY <1>2, <2>1 DEF Follows
    <3>4. CASE line(i) \in page.served
      BY <1>8, <3>4
    <3>5. CASE line(i) \in page.buffer /\ \A k \in page.served : k < line(i)
      <4>1. line(i) > once.lastSeq
        BY <1>4, <1>5, <3>1, <3>5
      <4> HIDE DEF line
      <4> QED BY <1>8, <3>5, <4>1
    <3>6. CASE line(i) \in Queued(feed) /\ \A k \in page.served : k < line(i)
      <4>1. PICK x \in DOMAIN feed : feed[x] = line(i)
        BY <3>6 DEF Queued
      <4>2. \A b \in page.buffer : b < line(i)
        BY <2>1, <4>1 DEF Follows
      <4> HIDE DEF line
      <4> QED BY <1>8, <3>6, <4>2
    <3> HIDE DEF line
    <3> QED BY <1>2, <3>2, <3>3, <3>4, <3>5, <3>6 DEF Known
  <2>4. FollowedLines(page', log) = FollowedLines(page, log)
    BY <1>7 DEF FollowedLines, FollowedIn
  <2>5. \A i \in FollowedLines(page', log) :
          \/ log.lines[i].seq \in Known(page', feed)
          \/ ~open /\ \A k \in Known(page', feed) : k < log.lines[i].seq
    BY <1>8, <2>3, <2>4
  <2>6. ASSUME NEW i \in FollowedLines(page', log), line(i) <= page'.lastSeq
        PROVE  line(i) \in page'.shown
    <3>1. line(i) \in Nat /\ 0 < line(i)
      BY <1>1, LineNumbers, FollowedIsLine
    <3>2. CASE \A k \in page'.shown : k < line(i)
      <4>1. page'.lastSeq = 0 \/ page'.lastSeq < line(i)
        BY <1>6, <1>7, <3>2
      <4>2. page'.lastSeq \in Nat
        BY <1>7 DEF Page
      <4> HIDE DEF line
      <4> QED BY <2>6, <3>1, <4>1, <4>2
    <3>3. page'.shown \subseteq Known(page, feed)
      BY <1>8
    <3> HIDE DEF line
    <3> QED BY <2>3, <2>4, <3>2, <3>3
  <2> QED BY <1>7, <2>2, <2>5, <2>6 DEF Follows
<1>13. PageOK(page', log', sink', feed')
  BY <1>2, <1>7, <1>11, <1>12 DEF PageOK, open, seq
<1> QED BY <1>13 DEF PageInv

(* The feed without its head.                                              *)
LEMMA QueuedTail ==
  ASSUME NEW told \in Seq(Nat), told # <<>>
  PROVE  /\ Tail(told) \in Seq(Nat) /\ Head(told) \in Nat
         /\ Queued(told) = {Head(told)} \cup Queued(Tail(told))
         /\ \A i \in DOMAIN Tail(told) :
              i + 1 \in DOMAIN told /\ Tail(told)[i] = told[i + 1] /\ 1 < i + 1
         /\ 1 \in DOMAIN told /\ told[1] = Head(told)
<1>1. /\ Tail(told) \in Seq(Nat) /\ Head(told) \in Nat /\ Head(told) = told[1]
      /\ Len(told) \in Nat /\ Len(told) # 0 /\ DOMAIN told = 1..Len(told)
      /\ DOMAIN Tail(told) = 1..(Len(told) - 1)
      /\ \A i \in 1..(Len(told) - 1) : Tail(told)[i] = told[i + 1]
  OBVIOUS
<1>2. /\ \A i \in DOMAIN Tail(told) :
           i + 1 \in DOMAIN told /\ Tail(told)[i] = told[i + 1] /\ 1 < i + 1
      /\ 1 \in DOMAIN told
  BY <1>1
<1>3. Queued(told) \subseteq {Head(told)} \cup Queued(Tail(told))
  <2> SUFFICES ASSUME NEW i \in DOMAIN told, i # 1
               PROVE  told[i] \in Queued(Tail(told))
    BY <1>1 DEF Queued
  <2>1. i - 1 \in 1..(Len(told) - 1) /\ (i - 1) + 1 = i
    BY <1>1
  <2>2. Tail(told)[i - 1] = told[i]
    BY <1>1, <2>1
  <2> QED BY <1>1, <2>1, <2>2 DEF Queued
<1>4. {Head(told)} \cup Queued(Tail(told)) \subseteq Queued(told)
  BY <1>1, <1>2 DEF Queued
<1> QED BY <1>1, <1>2, <1>3, <1>4

LEMMA StreamDeliversStep ==
  ASSUME LogInv, PageInv, StreamDelivers
  PROVE  PageInv'
<1> DEFINE h == Head(feed)
           rest == Tail(feed)
           open == sink[page.run].phase = "open"
           seq == sink[page.run].seq
           line(i) == log.lines[i].seq
<1>1. /\ PageShape(page, sink, feed) /\ page \in Page /\ page.run \in Runs
      /\ FileOK(log) /\ feed \in Seq(Nat)
  BY PageIsBasic DEF PageInv, PageOK, PageShape, LogInv
<1>2. /\ page.stream = "up" /\ feed # <<>> /\ feed' = rest
      /\ sink' = sink /\ log' = log
  BY DEF StreamDelivers, Deliver
<1>3. /\ rest \in Seq(Nat) /\ h \in Nat
      /\ Queued(feed) = {h} \cup Queued(rest)
      /\ \A i \in DOMAIN rest : i + 1 \in DOMAIN feed /\ rest[i] = feed[i + 1] /\ 1 < i + 1
      /\ 1 \in DOMAIN feed /\ feed[1] = h
  BY <1>1, <1>2, QueuedTail
<1>4. PICK n \in Nat : \A k \in Known(page, feed) : 0 < k /\ k <= n
  BY <1>1 DEF PageShape, Limited
<1>5. 0 < h /\ h <= n
  BY <1>3, <1>4 DEF Known
<1> HIDE DEF h, rest
<1>6. /\ Follows(page, log, open, seq, feed) =>
           /\ \A i, j \in DOMAIN rest : i < j => rest[i] < rest[j]
           /\ \A i \in DOMAIN rest : h < rest[i]
           /\ \A i \in DOMAIN rest, b \in page.buffer : b < rest[i]
           /\ \A k \in Queued(rest) : h < k
  <2> SUFFICES ASSUME Follows(page, log, open, seq, feed)
               PROVE  /\ \A i, j \in DOMAIN rest : i < j => rest[i] < rest[j]
                      /\ \A i \in DOMAIN rest : h < rest[i]
                      /\ \A i \in DOMAIN rest, b \in page.buffer : b < rest[i]
                      /\ \A k \in Queued(rest) : h < k
    OBVIOUS
  <2>1. /\ \A i, j \in DOMAIN feed : i < j => feed[i] < feed[j]
        /\ \A i \in DOMAIN feed, b \in page.buffer : b < feed[i]
    BY DEF Follows
  <2>2. \A i, j \in DOMAIN rest : i < j => i + 1 < j + 1
    BY <1>3
  <2>3. \A i, j \in DOMAIN rest : i < j => rest[i] < rest[j]
    BY <1>3, <2>1, <2>2
  <2>4. \A i \in DOMAIN rest : h < rest[i]
    BY <1>3, <2>1
  <2> QED BY <1>3, <2>1, <2>3, <2>4 DEF Queued
<1>7. CASE page.log # "applied"
  <2>1. page' = [page EXCEPT !.buffer = page.buffer \cup {h}]
    BY <1>7 DEF StreamDelivers, Flushed, h
  <2>2. /\ page' \in Page /\ page'.log = page.log
        /\ page'.buffer = page.buffer \cup {h} /\ page'.served = page.served
        /\ page'.shown = page.shown /\ page'.lastSeq = page.lastSeq
        /\ page'.run = page.run /\ page'.stream = page.stream
        /\ page'.streamFirst = page.streamFirst
    BY <1>1, <1>3, <2>1 DEF Page
  <2>3. Known(page', rest) = Known(page, feed)
    BY <1>3, <2>2 DEF Known
  <2>4. PageShape(page', sink, rest)
    BY <1>1, <1>2, <1>3, <1>7, <2>2, <2>3 DEF PageShape, Limited
  <2>5. ASSUME page'.streamFirst
        PROVE  Follows(page', log, open, seq, rest)
    <3>1. Follows(page, log, open, seq, feed)
      BY <2>2, <2>5 DEF PageInv, PageOK
    <3>2. FollowedLines(page', log) = FollowedLines(page, log)
      BY <2>2 DEF FollowedLines, FollowedIn
    <3>3. \A i \in DOMAIN rest, b \in page'.buffer : b < rest[i]
      BY <1>6, <2>2, <3>1
    <3> HIDE DEF open, seq
    <3> QED BY <1>6, <1>7, <2>2, <2>3, <3>1, <3>2, <3>3 DEF Follows, open, seq
  <2>6. PageOK(page', log', sink', feed')
    BY <1>2, <2>2, <2>4, <2>5 DEF PageOK
  <2> QED BY <2>6 DEF PageInv
<1>8. CASE page.log = "applied"
  <2>1. /\ page.buffer = {} /\ page.served = {}
        /\ \A k \in page.shown : k <= page.lastSeq
        /\ page.lastSeq = 0 \/ page.lastSeq \in page.shown
        /\ page.lastSeq \in Nat
    BY <1>1, <1>8 DEF PageShape, Page
  <2> DEFINE T == {h}
             F == Fresh(page, T)
  <2>2. page' = Merge(page, T)
    BY <1>8 DEF StreamDelivers, Flushed, h
  <2>3. /\ T \in SUBSET Nat /\ \A k \in T : 0 < k /\ k <= n
        /\ F \subseteq {h} /\ (h > page.lastSeq => h \in F)
        /\ h \in F => h > page.lastSeq
    BY <1>3, <1>5 DEF Fresh
  <2> HIDE DEF T
  <2>4. /\ page' \in Page /\ page'.shown = page.shown \cup F
        /\ page'.log = page.log /\ page'.buffer = page.buffer
        /\ page'.served = page.served
        /\ page'.run = page.run /\ page'.stream = page.stream
        /\ page'.streamFirst = page.streamFirst
        /\ \A k \in page'.shown : k <= page'.lastSeq
        /\ page'.lastSeq = 0 \/ page'.lastSeq \in page'.shown
        /\ page'.lastSeq = page.lastSeq \/ page'.lastSeq \in F
    BY <1>1, <2>1, <2>2, <2>3, MergeAdds
  <2> HIDE DEF F
  <2>5. /\ Known(page', rest) \subseteq Known(page, feed)
        /\ page.shown \subseteq page'.shown
        /\ page'.shown \subseteq Known(page', rest)
        /\ Queued(rest) \subseteq Known(page', rest)
        /\ Known(page, feed) \subseteq page.shown \cup {h} \cup Queued(rest)
    BY <1>3, <2>1, <2>3, <2>4 DEF Known
  <2>6. Limited(page', rest)
    BY <1>4, <2>5 DEF Limited
  <2>7. PageShape(page', sink, rest)
    BY <1>1, <1>2, <1>3, <1>8, <2>1, <2>4, <2>6 DEF PageShape
  <2>8. ASSUME page'.streamFirst
        PROVE  Follows(page', log, open, seq, rest)
    <3>1. Follows(page, log, open, seq, feed)
      BY <2>4, <2>8 DEF PageInv, PageOK
    <3>2. FollowedLines(page', log) = FollowedLines(page, log)
      BY <2>4 DEF FollowedLines, FollowedIn
    <3>3. \A i \in FollowedLines(page, log) : line(i) \in Nat /\ 0 < line(i)
      BY <1>1, LineNumbers, FollowedIsLine
    <3>4. ASSUME NEW i \in FollowedLines(page, log)
          PROVE  \/ line(i) \in page'.shown
                 \/ line(i) \in Queued(rest) /\ line(i) > page'.lastSeq
                 \/ /\ ~open /\ \A k \in Known(page, feed) : k < line(i)
                    /\ line(i) > page'.lastSeq
      <4>1. line(i) <= page.lastSeq => line(i) \in page.shown
        BY <1>8, <3>1 DEF Follows
      <4>2. \/ line(i) \in Known(page, feed)
            \/ ~open /\ \A k \in Known(page, feed) : k < line(i)
        BY <1>8, <3>1 DEF Follows
      <4>3. line(i) \in Nat /\ 0 < line(i)
        BY <3>3
      <4>4. h \in Known(page, feed) /\ page.shown \subseteq Known(page, feed)
        BY <1>3 DEF Known
      <4> HIDE DEF line
      <4>5. line(i) <= page.lastSeq \/ line(i) > page.lastSeq
        BY <2>1, <4>3
      <4>6. CASE line(i) <= page.lastSeq
        BY <2>5, <4>1, <4>6
      <4>7. CASE line(i) > page.lastSeq /\ line(i) = h
        BY <2>3, <2>4, <4>7
      <4>8. CASE line(i) > page.lastSeq /\ line(i) \in Queued(rest)
        <5>1. h < line(i)
          BY <1>6, <3>1, <4>8
        <5>2. line(i) > page'.lastSeq
          BY <1>3, <2>3, <2>4, <4>3, <4>8, <5>1
        <5> QED BY <4>8, <5>2
      <4>9. CASE line(i) > page.lastSeq /\ line(i) \in page.shown
        BY <2>5, <4>9
      <4>10. CASE /\ line(i) > page.lastSeq
                  /\ ~open /\ \A k \in Known(page, feed) : k < line(i)
        <5>1. h < line(i)
          BY <4>4, <4>10
        <5>2. line(i) > page'.lastSeq
          BY <1>3, <2>3, <2>4, <4>3, <4>10, <5>1
        <5> QED BY <4>10, <5>2
      <4> QED BY <2>5, <4>2, <4>5, <4>6, <4>7, <4>8, <4>9, <4>10
    <3>5. /\ open => \A k \in Known(page', rest) : k <= seq
          /\ ~log.spoiled =>
               \A k \in Known(page', rest) : \E i \in DOMAIN log.lines :
                 log.lines[i].whole /\ k <= log.lines[i].seq
      BY <2>5, <3>1 DEF Follows
    <3>6. \A i \in DOMAIN rest, b \in page'.buffer : b < rest[i]
      BY <2>1, <2>4
    <3>7. \A i \in FollowedLines(page', log) :
            \/ log.lines[i].seq \in Known(page', rest)
            \/ ~open /\ \A k \in Known(page', rest) : k < log.lines[i].seq
      BY <2>5, <3>2, <3>4
    <3>8. page'.lastSeq \in Nat
      BY <2>4 DEF Page
    <3>9. \A i \in FollowedLines(page', log) :
            log.lines[i].seq <= page'.lastSeq => log.lines[i].seq \in page'.shown
      BY <3>2, <3>3, <3>4, <3>8
    <3> HIDE DEF open, seq
    <3> QED BY <1>6, <1>8, <2>4, <3>1, <3>5, <3>6, <3>7, <3>9 DEF Follows, open, seq
  <2>9. PageOK(page', log', sink', feed')
    BY <1>2, <2>4, <2>7, <2>8 DEF PageOK
  <2> QED BY <2>9 DEF PageInv
<1> QED BY <1>7, <1>8


(* A page that loses its stream, and what was under way to it, still shows *)
(* every line up to the last one on screen; a line cut short is none.      *)
LEMMA CutReadable ==
  ASSUME NEW file, FileTyped(file), NEW line, NEW all
  PROVE  LET cut == CutLine(file, line, all) IN
           /\ \A i \in ReadableIn(cut) :
                i \in ReadableIn(file) /\ cut.lines[i] = file.lines[i]
           /\ ~cut.spoiled =>
                /\ ~file.spoiled
                /\ \A i \in DOMAIN file.lines :
                     i \in DOMAIN cut.lines /\ cut.lines[i] = file.lines[i]
<1> DEFINE part == [line EXCEPT !.whole = all]
           cut == CutLine(file, line, all)
           last == Len(file.lines)
<1>1. file.lines \in Seq(Line) /\ DOMAIN file.lines = 1..last /\ last \in Nat
  BY DEF FileTyped, File
<1>2. /\ cut.lines = PutLine(file, part).lines /\ cut.torn
      /\ cut.spoiled = (file.spoiled \/ file.torn)
  BY DEF CutLine, PutLine
<1> HIDE DEF part, cut
<1>3. CASE file.torn
  <2> DEFINE merged == [part EXCEPT !.kind = file.lines[last].kind, !.whole = FALSE]
  <2>1. cut.lines = [file.lines EXCEPT ![last] = merged]
    BY <1>2, <1>3 DEF PutLine
  <2> HIDE DEF merged
  <2>2. /\ DOMAIN cut.lines = DOMAIN file.lines /\ Len(cut.lines) = last
        /\ \A i \in DOMAIN file.lines : i # last => cut.lines[i] = file.lines[i]
    BY <1>1, <2>1
  <2>3. \A i \in ReadableIn(cut) :
          i \in DOMAIN file.lines /\ i < last /\ i # last /\ cut.lines[i].whole
    BY <1>1, <1>2, <2>2 DEF ReadableIn, CompleteIn
  <2>4. \A i \in ReadableIn(cut) :
          i \in ReadableIn(file) /\ cut.lines[i] = file.lines[i]
    BY <2>2, <2>3 DEF ReadableIn, CompleteIn
  <2> QED BY <1>2, <1>3, <2>4 DEF cut
<1>4. CASE ~file.torn
  <2>1. cut.lines = Append(file.lines, part)
    BY <1>2, <1>4 DEF PutLine
  <2>2. /\ \A i \in DOMAIN file.lines :
             i \in DOMAIN cut.lines /\ cut.lines[i] = file.lines[i]
        /\ \A i \in DOMAIN cut.lines : i < Len(cut.lines) => i \in DOMAIN file.lines
    BY <1>1, <2>1
  <2>3. \A i \in ReadableIn(cut) :
          i \in DOMAIN file.lines /\ cut.lines[i].whole
    BY <1>2, <2>2 DEF ReadableIn, CompleteIn
  <2>4. \A i \in ReadableIn(cut) :
          i \in ReadableIn(file) /\ cut.lines[i] = file.lines[i]
    BY <1>4, <2>2, <2>3 DEF ReadableIn, CompleteIn
  <2> QED BY <1>2, <2>2, <2>4 DEF cut
<1> QED BY <1>3, <1>4

LEMMA DaemonDiesStep ==
  ASSUME LogInv, PageInv, DaemonDies
  PROVE  PageInv'
<1> DEFINE open == sink[page.run].phase = "open"
           seq == sink[page.run].seq
<1>1. /\ PageShape(page, sink, feed) /\ page \in Page /\ page.run \in Runs
      /\ FileTyped(log) /\ feed \in Seq(Nat)
  BY PageIsBasic DEF PageInv, PageOK, PageShape, LogInv, FileOK, FileTyped
<1>2. /\ feed' = <<>>
      /\ sink' = [r \in Runs |->
           IF sink[r].phase = "new" THEN sink[r]
           ELSE [sink[r] EXCEPT !.phase = "dead", !.listening = FALSE]]
      /\ sink \in [Runs -> RunLogEntry]
  BY DEF DaemonDies, Crash, LogInv, LogTypeOK
<1>3. /\ \A i \in ReadableIn(log') :
           i \in ReadableIn(log) /\ log'.lines[i] = log.lines[i]
      /\ ~log'.spoiled =>
           /\ ~log.spoiled
           /\ \A i \in DOMAIN log.lines :
                i \in DOMAIN log'.lines /\ log'.lines[i] = log.lines[i]
  <2>1. CASE UNCHANGED log
    BY <2>1
  <2>2. ASSUME NEW line, NEW all, log' = CutLine(log, line, all)
        PROVE  <1>3!:
    BY <1>1, <2>2, CutReadable
  <2> QED BY <2>1, <2>2 DEF DaemonDies, Crash
<1>4. \A r \in Runs :
        /\ ~sink'[r].listening /\ sink'[r].phase # "open"
        /\ sink[r].phase # "new" => sink'[r].phase # "new"
  <2>1. \A r \in Runs : sink[r].phase = "new" => ~sink[r].listening
    BY <1>1 DEF PageShape
  <2>2. \A r \in Runs :
          /\ [sink[r] EXCEPT !.phase = "dead", !.listening = FALSE].phase = "dead"
          /\ ~[sink[r] EXCEPT !.phase = "dead", !.listening = FALSE].listening
    BY <1>2 DEF RunLogEntry
  <2> QED BY <1>2, <2>1, <2>2
<1>5. page' = [page EXCEPT
        !.stream = IF page.stream = "none" THEN page.stream ELSE "down",
        !.log = IF page.log = "requested" THEN "served" ELSE page.log,
        !.streamFirst = page.streamFirst /\ page.log # "requested"]
  BY <1>1 DEF DaemonDies, Page
<1>6. /\ page' \in Page
      /\ page'.stream = IF page.stream = "none" THEN page.stream ELSE "down"
      /\ page'.log = IF page.log = "requested" THEN "served" ELSE page.log
      /\ page'.streamFirst <=> page.streamFirst /\ page.log # "requested"
      /\ page'.run = page.run /\ page'.served = page.served
      /\ page'.buffer = page.buffer /\ page'.shown = page.shown
      /\ page'.lastSeq = page.lastSeq
  BY <1>1, <1>5 DEF Page
<1>7. DOMAIN feed' = {} /\ feed' \in Seq(Nat) /\ Queued(feed') = {}
  <2>1. feed' = <<>>
    BY <1>2
  <2>2. feed' \in Seq(Nat) /\ DOMAIN feed' = {}
    BY <2>1
  <2> QED BY <2>2 DEF Queued
<1>8. Known(page', feed') = page.shown \cup page.served \cup page.buffer
  BY <1>6, <1>7 DEF Known
<1>9. Known(page', feed') \subseteq Known(page, feed)
  BY <1>8 DEF Known
<1>10. Limited(page', feed')
  BY <1>1, <1>9 DEF Limited, PageShape
<1>11. PageShape(page', sink', feed')
  BY <1>1, <1>2, <1>4, <1>6, <1>7, <1>10 DEF PageShape
<1>12. ASSUME page'.streamFirst
       PROVE  Follows(page', log', FALSE, 0, feed')
  <2>1. Follows(page, log, open, seq, feed)
    BY <1>6, <1>12 DEF PageInv, PageOK
  <2> HIDE DEF open, seq
  <2>2. page'.log = page.log
    BY <1>6, <1>12
  <2>3. \A i \in FollowedLines(page', log') :
          i \in FollowedLines(page, log) /\ log'.lines[i] = log.lines[i]
    BY <1>3, <1>6 DEF FollowedLines, FollowedIn
  <2>4. ~log'.spoiled =>
          \A k \in Known(page', feed') : \E i \in DOMAIN log'.lines :
            log'.lines[i].whole /\ k <= log'.lines[i].seq
    <3> SUFFICES ASSUME ~log'.spoiled, NEW k \in Known(page, feed)
                 PROVE  \E i \in DOMAIN log'.lines :
                          log'.lines[i].whole /\ k <= log'.lines[i].seq
      BY <1>9
    <3>1. PICK i \in DOMAIN log.lines : log.lines[i].whole /\ k <= log.lines[i].seq
      BY <1>3, <2>1 DEF Follows
    <3> QED BY <1>3, <3>1
  <2>5. page'.log \in {"served", "applied"} =>
          \A i \in FollowedLines(page', log') :
            \/ log'.lines[i].seq \in Known(page', feed')
            \/ \A k \in Known(page', feed') : k < log'.lines[i].seq
    <3>1. ASSUME page.log = "served", NEW i \in FollowedLines(page, log)
          PROVE  \/ log.lines[i].seq \in Known(page', feed')
                 \/ \A k \in Known(page', feed') : k < log.lines[i].seq
      <4>1. page.shown = {}
        BY <1>1, <3>1 DEF PageShape
      <4>2. \/ log.lines[i].seq \in page.served
            \/ \A k \in page.served : k < log.lines[i].seq
        BY <2>1, <3>1 DEF Follows
      <4>3. \/ log.lines[i].seq \in Known(page, feed)
            \/ \A k \in Known(page, feed) : k < log.lines[i].seq
        BY <2>1, <3>1 DEF Follows
      <4>4. log.lines[i].seq \in Queued(feed) =>
              \A b \in page.buffer : b < log.lines[i].seq
        BY <2>1 DEF Follows, Queued
      <4> QED BY <1>8, <1>9, <4>1, <4>2, <4>3, <4>4 DEF Known
    <3>2. ASSUME page.log = "applied", NEW i \in FollowedLines(page, log)
          PROVE  \/ log.lines[i].seq \in Known(page', feed')
                 \/ \A k \in Known(page', feed') : k < log.lines[i].seq
      <4>1. /\ page.served = {} /\ page.buffer = {}
            /\ \A k \in page.shown : k <= page.lastSeq
            /\ page.lastSeq \in Nat /\ page.shown \subseteq Nat
        BY <1>1, <3>2 DEF PageShape, Page
      <4>2. log.lines[i].seq <= page.lastSeq => log.lines[i].seq \in page.shown
        BY <2>1, <3>2 DEF Follows
      <4>3. log.lines[i].seq \in Nat
        BY LineNumbers, FollowedIsLine DEF LogInv
      <4>4. CASE log.lines[i].seq <= page.lastSeq
        BY <1>8, <4>2, <4>4
      <4>5. CASE page.lastSeq < log.lines[i].seq
        <5>1. \A k \in page.shown : k < log.lines[i].seq
          BY <4>1, <4>3, <4>5
        <5> QED BY <1>8, <4>1, <5>1
      <4> QED BY <4>1, <4>3, <4>4, <4>5
    <3> QED BY <2>2, <2>3, <3>1, <3>2
  <2>6. page'.log = "served" =>
          \A i \in FollowedLines(page', log') :
            \/ log'.lines[i].seq \in page'.served
            \/ \A k \in page'.served : k < log'.lines[i].seq
    BY <1>6, <2>1, <2>2, <2>3 DEF Follows
  <2>7. page'.log = "applied" =>
          \A i \in FollowedLines(page', log') :
            log'.lines[i].seq <= page'.lastSeq => log'.lines[i].seq \in page'.shown
    BY <1>6, <2>1, <2>2, <2>3 DEF Follows
  <2> QED BY <1>7, <2>4, <2>5, <2>6, <2>7 DEF Follows
<1>13. PageOK(page', log', sink', feed')
  <2>1. page'.streamFirst =>
          Follows(page', log', sink'[page'.run].phase = "open",
                  sink'[page'.run].seq, feed')
    BY <1>1, <1>4, <1>6, <1>12, FollowsClosed
  <2> QED BY <1>11, <2>1 DEF PageOK
<1> QED BY <1>13 DEF PageInv

LEMMA PageStep ==
  ASSUME LogInv, ~Shared, PageInv, [Next]_vars
  PROVE  PageInv'
<1>1. CASE UNCHANGED vars \/ PollNext
  BY <1>1 DEF vars, logVars, PollNext, PollHeaders, PollBody, PollDisk, PageInv
<1>2. ASSUME NEW r \in Runs, RunNext(r), page' = page
      PROVE  PageInv'
  <2>1. ASSUME NEW s \in Steps, StartStep(r, s) \/ Emit(r, s) \/ FinishStep(r, s)
        PROVE  PageInv'
    <3>1. \E kind \in Kind, written \in BOOLEAN :
            Commit(r, AppendStepLog(State(r), r, s, kind, written))
      BY <2>1, WrittenLemma, KindLemma DEF StartStep, Emit, FinishStep
    <3> QED BY <1>2, <3>1, PageAppend
  <2> QED BY <1>2, <2>1, PageOpenStep, PageDecideStep, PageCancelStep DEF RunNext
<1> QED BY <1>1, <1>2, DaemonDiesStep, PageOpensStep, StreamConnectsStep,
           LogServedStep, LogArrivesStep, StreamDeliversStep DEF Next, PageNext

(* A page that connected before its log was read shows every line of its   *)
(* run up to the last one on screen, whatever the order in which log,      *)
(* buffer and live events reach it, and although appends fail, lines are   *)
(* torn and other runs write to the file, as long as one run at a time     *)
(* holds it.                                                               *)
THEOREM PagesKeepUp ==
  ASSUME ~Shared
  PROVE  Spec => []PageKeepsUp
<1> DEFINE Inv == LogInv /\ PageHasRun /\ PageInv
<1>1. ReadersInit => Inv
  <2> SUFFICES ASSUME ReadersInit PROVE Inv
    OBVIOUS
  <2>1. PICK r \in Runs :
          page = [run |-> r, stream |-> "none", log |-> "none", served |-> {},
                  buffer |-> {}, shown |-> {}, lastSeq |-> 0, streamFirst |-> FALSE]
    BY DEF ReadersInit
  <2>2. page \in Page /\ page.run = r
    BY <2>1 DEF Page
  <2>3. /\ feed = <<>> /\ DOMAIN feed = {} /\ feed \in Seq(Nat)
        /\ \A q \in Runs : ~sink[q].listening
    BY DEF ReadersInit, Init
  <2>4. Known(page, feed) = {}
    BY <2>1, <2>3 DEF Known, Queued
  <2>5. PageShape(page, sink, feed)
    BY <2>1, <2>2, <2>3, <2>4 DEF PageShape, Limited
  <2>6. PageInv
    BY <2>1, <2>5 DEF PageInv, PageOK
  <2> QED BY <2>2, <2>6, LogInvInit DEF ReadersInit, PageHasRun
<1>2. Inv /\ [Next]_vars => Inv'
  BY ReadersStepsAreLogSteps, LogInvNext, PageKeepsRun, PageStep
<1>3. Inv => PageKeepsUp
  <2> SUFFICES ASSUME PageInv, page.streamFirst, NEW i \in ReadableIn(log),
                      Followed(log.lines[i]), log.lines[i].seq <= page.lastSeq,
                      FileOK(log)
               PROVE  log.lines[i].seq \in page.shown
    BY CompleteIsComplete DEF PageKeepsUp, LogInv
  <2>1. /\ PageShape(page, sink, feed) /\ page \in Page
        /\ i \in FollowedLines(page, log)
        /\ Follows(page, log, sink[page.run].phase = "open", sink[page.run].seq, feed)
    BY DEF PageInv, PageOK, PageShape, FollowedLines, FollowedIn, Followed
  <2>2. CASE page.log = "applied"
    BY <2>1, <2>2 DEF Follows
  <2>3. CASE page.log # "applied"
    <3>1. page.lastSeq = 0 /\ log.lines[i].seq \in Nat /\ 0 < log.lines[i].seq
      BY <2>1, <2>3, LineNumbers, FollowedIsLine DEF PageShape
    <3> QED BY <3>1
  <2> QED BY <2>2, <2>3
<1> HIDE DEF Inv
<1> QED BY <1>1, <1>2, <1>3, PTL DEF Spec
=============================================================================
