------------------------- MODULE StepExecutionProofs -------------------------
(***************************************************************************)
(* What holds of the capture of review material for every request, every   *)
(* repository, every cap and whatever call fails: the material never says  *)
(* that it has read what it has not.  And of the execution of a step for   *)
(* every set of model entries, every fallback chain, every declaration and *)
(* every loop detector: its types, that it implements the contract of a    *)
(* step (StepContract), also with the capture inside it, and that a        *)
(* cancellation ends the chain.                                            *)
(***************************************************************************)
EXTENDS ReviewMaterial, TLAPS

(***************************************************************************)
(* Review material.                                                        *)
(***************************************************************************)
Reference == [label: Label, kind: {"pull", "issues", "unknown", "bare"}]

Tickets ==
  [text: {"none", "literal", "fetched"}, words: Seq(Token), links: Seq(Label),
   queue: Seq(Reference), seen: SUBSET Label, fetches: Nat, read: SUBSET Label,
   notes: SUBSET {"refused", "not fetched", "stopped"}]

(* The labels that were looked at or will be.                              *)
Taken == tickets.seen \cup {tickets.queue[i].label : i \in DOMAIN tickets.queue}

(* No word is lost: it is still to be parsed, or it is taken, or something *)
(* has been said.                                                          *)
WordsKept ==
  tickets.text = "fetched" =>
    \A i \in DOMAIN subject.sources :
      \/ \E j \in DOMAIN tickets.words : tickets.words[j] = subject.sources[i]
      \/ tickets.notes # {}
      \/ subject.sources[i].kind # "refused" /\ subject.sources[i].label \in Taken

(* Nor is an issue that a pull request names.                              *)
LinksKept ==
  \A r \in tickets.read : Hub[r] = "pull" =>
    \A i \in DOMAIN Links[r] :
      \/ \E j \in DOMAIN tickets.links : tickets.links[j] = Links[r][i]
      \/ tickets.notes # {}
      \/ Links[r][i] \in Taken

(* What was looked at was read, or something has been said.                *)
SeenIsRead == tickets.notes = {} => tickets.seen \subseteq tickets.read

(* Nothing is left over once the change is looked at.                      *)
DoneReading ==
  at # "tickets" => tickets.words = <<>> /\ tickets.links = <<>> /\ tickets.queue = <<>>

TicketsInv ==
  /\ tickets \in Tickets
  /\ WordsKept /\ LinksKept /\ SeenIsRead /\ DoneReading

(* What is withheld belongs to the change, and every rename of a denied    *)
(* path that git could tell is withheld as a whole.                        *)
Paired ==
  /\ change.withheld \subseteq Ends(subject.changes)
  /\ change.paired =>
       \A ch \in subject.changes :
         {ch.from, ch.to} \cap Denied # {} => {ch.from, ch.to} \subseteq change.withheld

IsChange(c) ==
  /\ c = [available |-> c.available, baseline |-> c.baseline, withheld |-> c.withheld,
          paired |-> c.paired, shown |-> c.shown]
  /\ c.available \in BOOLEAN /\ c.paired \in BOOLEAN

(* A step captures once: until then nothing is known of the change.        *)
ChangeInv ==
  /\ IsChange(change)
  /\ at \in {"idle", "tickets", "withheld", "renames", "diff", "done"}
  /\ at # "idle" => pc = "queued"
  /\ at \notin {"idle", "done"} => subject \in Subjects
  /\ at \in {"idle", "tickets"} /\ pc = "queued" => change = NoChange
  /\ at \notin {"idle", "done"} => ~change.available
  /\ at = "renames" => change.withheld = Ends(subject.changes) \cap Denied
  /\ at = "diff" => Paired
  /\ WithheldIsNamed

HonestInv == TicketsInv /\ ChangeInv

(***************************************************************************)
(* Sequences.                                                              *)
(***************************************************************************)
LEMMA TailLemma ==
  ASSUME NEW S, NEW s \in Seq(S), s # <<>>
  PROVE  /\ Head(s) \in S /\ Tail(s) \in Seq(S)
         /\ \A i \in DOMAIN s : s[i] = Head(s) \/ \E j \in DOMAIN Tail(s) : Tail(s)[j] = s[i]
<1>1. ASSUME NEW i \in DOMAIN s, s[i] # Head(s)
      PROVE  \E j \in DOMAIN Tail(s) : Tail(s)[j] = s[i]
  <2>1. i - 1 \in DOMAIN Tail(s) /\ Tail(s)[i - 1] = s[i]
    BY <1>1
  <2>. QED BY <2>1
<1>. QED BY <1>1

LEMMA AppendLemma ==
  ASSUME NEW S, NEW s \in Seq(S), NEW x \in S
  PROVE  /\ Append(s, x) \in Seq(S)
         /\ \A i \in DOMAIN s : i \in DOMAIN Append(s, x) /\ Append(s, x)[i] = s[i]
         /\ \E i \in DOMAIN Append(s, x) : Append(s, x)[i] = x
<1>1. Append(s, x) \in Seq(S)
  OBVIOUS
<1>2. ASSUME NEW i \in DOMAIN s PROVE i \in DOMAIN Append(s, x) /\ Append(s, x)[i] = s[i]
  OBVIOUS
<1>3. Len(s) + 1 \in DOMAIN Append(s, x) /\ Append(s, x)[Len(s) + 1] = x
  OBVIOUS
<1>4. \E i \in DOMAIN Append(s, x) : Append(s, x)[i] = x
  BY <1>3
<1>. QED BY <1>1, <1>2, <1>4

(***************************************************************************)
(* The tickets.                                                            *)
(***************************************************************************)
LEMMA TokenIsReference ==
  ASSUME NEW t \in Token, NEW o \in BOOLEAN, Valid(t, o)
  PROVE  t \in Reference
BY DEF Token, Valid, Reference

LEMMA NoTicketsInv == NoTickets \in Tickets
<1>1. <<>> \in Seq(Token) /\ <<>> \in Seq(Label) /\ <<>> \in Seq(Reference)
  OBVIOUS
<1>. QED BY <1>1 DEF NoTickets, Tickets

LEMMA StartKeeps ==
  ASSUME TicketsInv, Start PROVE TicketsInv'
<1>1. PICK s \in Subjects :
        /\ subject' = s
        /\ \/ tickets' = NoTickets
           \/ tickets' = [NoTickets EXCEPT !.text = "literal"]
           \/ tickets' = [NoTickets EXCEPT !.text = "fetched", !.words = s.sources]
  BY DEF Start
<1>2. at' = "tickets" /\ s.sources \in Seq(Token)
  BY SubjectsAssumption DEF Start
<1>3. CASE tickets' = NoTickets
  BY <1>2, <1>3, NoTicketsInv DEF NoTickets, TicketsInv, WordsKept, LinksKept, SeenIsRead, DoneReading
<1>4. CASE tickets' = [NoTickets EXCEPT !.text = "literal"]
  <2>1. tickets' \in Tickets
    BY <1>4, NoTicketsInv DEF Tickets
  <2>2. tickets'.text # "fetched" /\ tickets'.read = {} /\ tickets'.seen = {}
    BY <1>4 DEF NoTickets
  <2>. QED BY <1>2, <2>1, <2>2 DEF TicketsInv, WordsKept, LinksKept, SeenIsRead, DoneReading
<1>5. CASE tickets' = [NoTickets EXCEPT !.text = "fetched", !.words = s.sources]
  <2>1. tickets' \in Tickets
    BY <1>2, <1>5, NoTicketsInv DEF Tickets
  <2>2. tickets'.words = subject'.sources /\ tickets'.read = {} /\ tickets'.seen = {}
    BY <1>1, <1>5 DEF NoTickets
  <2>. QED BY <1>2, <2>1, <2>2 DEF TicketsInv, WordsKept, LinksKept, SeenIsRead, DoneReading
<1>. QED BY <1>1, <1>3, <1>4, <1>5

LEMMA ParseKeeps ==
  ASSUME TicketsInv, ParseWord, subject \in Subjects PROVE TicketsInv'
<1>. DEFINE t == Head(tickets.words)
<1>1. /\ tickets \in Tickets /\ at = "tickets" /\ tickets.words # <<>>
      /\ at' = at /\ subject' = subject
  BY DEF TicketsInv, ParseWord
<1>2. /\ t \in Token /\ Tail(tickets.words) \in Seq(Token)
      /\ \A i \in DOMAIN tickets.words :
           tickets.words[i] = t \/ \E j \in DOMAIN Tail(tickets.words) : Tail(tickets.words)[j] = tickets.words[i]
  <2>1. tickets.words \in Seq(Token)
    BY <1>1 DEF Tickets
  <2>. QED BY <2>1, <1>1, TailLemma
<1>3. CASE /\ Valid(t, subject.origin)
           /\ tickets' = [tickets EXCEPT !.words = Tail(@), !.queue = Append(@, t)]
  <2>1. t \in Reference
    BY <1>2, <1>3, SubjectsAssumption, TokenIsReference
  <2>2. /\ Append(tickets.queue, t) \in Seq(Reference)
        /\ \A i \in DOMAIN tickets.queue :
             /\ i \in DOMAIN Append(tickets.queue, t)
             /\ Append(tickets.queue, t)[i] = tickets.queue[i]
        /\ \E i \in DOMAIN Append(tickets.queue, t) : Append(tickets.queue, t)[i] = t
    <3>1. tickets.queue \in Seq(Reference)
      BY <1>1 DEF Tickets
    <3>. QED BY <3>1, <2>1, AppendLemma, SMTT(40)
  <2>3. /\ tickets'.words = Tail(tickets.words) /\ tickets'.queue = Append(tickets.queue, t)
        /\ tickets'.text = tickets.text /\ tickets'.links = tickets.links
        /\ tickets'.seen = tickets.seen /\ tickets'.read = tickets.read
        /\ tickets'.notes = tickets.notes
    BY <1>1, <1>3 DEF Tickets
  <2>4. tickets' \in Tickets
    BY <1>1, <1>2, <1>3, <2>2 DEF Tickets
  <2>5. Taken \subseteq Taken' /\ t.label \in Taken'
    BY <2>2, <2>3 DEF Taken
  <2>6. WordsKept'
    <3>1. t.kind # "refused"
      BY <1>3 DEF Valid
    <3>. QED BY <1>1, <1>2, <2>3, <2>5, <3>1 DEF TicketsInv, WordsKept
  <2>7. LinksKept'
    BY <2>3, <2>5 DEF TicketsInv, LinksKept
  <2>. QED BY <1>1, <2>3, <2>4, <2>6, <2>7 DEF TicketsInv, SeenIsRead, DoneReading
<1>4. CASE tickets' = [tickets EXCEPT !.words = Tail(@), !.notes = @ \cup {"refused"}]
  <2>1. tickets' \in Tickets /\ tickets'.notes # {}
    BY <1>1, <1>2, <1>4 DEF Tickets
  <2>. QED BY <1>1, <2>1 DEF TicketsInv, WordsKept, LinksKept, SeenIsRead, DoneReading
<1>. QED BY <1>3, <1>4 DEF ParseWord

LEMMA FollowKeeps ==
  ASSUME TicketsInv, FollowLink PROVE TicketsInv'
<1>. DEFINE l == Head(tickets.links)
            ref == [label |-> l, kind |-> "issues"]
<1>1. /\ tickets \in Tickets /\ at = "tickets" /\ tickets.links # <<>>
      /\ at' = at /\ subject' = subject
  BY DEF TicketsInv, FollowLink
<1>2. /\ l \in Label /\ Tail(tickets.links) \in Seq(Label)
      /\ \A i \in DOMAIN tickets.links :
           tickets.links[i] = l \/ \E j \in DOMAIN Tail(tickets.links) : Tail(tickets.links)[j] = tickets.links[i]
  <2>1. tickets.links \in Seq(Label)
    BY <1>1 DEF Tickets
  <2>. QED BY <2>1, <1>1, TailLemma
<1>3. /\ Append(tickets.queue, ref) \in Seq(Reference)
      /\ \A i \in DOMAIN tickets.queue :
           /\ i \in DOMAIN Append(tickets.queue, ref)
           /\ Append(tickets.queue, ref)[i] = tickets.queue[i]
      /\ \E i \in DOMAIN Append(tickets.queue, ref) : Append(tickets.queue, ref)[i] = ref
  <2>1. tickets.queue \in Seq(Reference) /\ ref \in Reference
    BY <1>1, <1>2 DEF Tickets, Reference
  <2>. QED BY <2>1, AppendLemma
<1>4. /\ tickets' \in Tickets
      /\ tickets'.links = Tail(tickets.links) /\ tickets'.words = tickets.words
      /\ tickets'.text = tickets.text /\ tickets'.seen = tickets.seen
      /\ tickets'.read = tickets.read /\ tickets'.notes = tickets.notes
      /\ \/ l \in tickets.seen /\ tickets'.queue = tickets.queue
         \/ tickets'.queue = Append(tickets.queue, ref)
  BY <1>1, <1>2, <1>3 DEF FollowLink, Tickets
<1>5. Taken \subseteq Taken' /\ l \in Taken'
  BY <1>3, <1>4 DEF Taken
<1>6. WordsKept'
  BY <1>1, <1>4, <1>5 DEF TicketsInv, WordsKept
<1>7. LinksKept'
  <2>. SUFFICES ASSUME NEW r \in tickets.read, Hub[r] = "pull", NEW i \in DOMAIN Links[r],
                       tickets.notes = {}
                PROVE  \/ \E j \in DOMAIN Tail(tickets.links) : Tail(tickets.links)[j] = Links[r][i]
                       \/ Links[r][i] \in Taken'
    BY <1>4 DEF LinksKept
  <2>1. \/ \E j \in DOMAIN tickets.links : tickets.links[j] = Links[r][i]
        \/ Links[r][i] \in Taken
    BY DEF TicketsInv, LinksKept
  <2>2. ASSUME NEW j \in DOMAIN tickets.links, tickets.links[j] = Links[r][i]
        PROVE  \/ Links[r][i] = l
               \/ \E k \in DOMAIN Tail(tickets.links) : Tail(tickets.links)[k] = Links[r][i]
    BY <1>2, <2>2
  <2>. QED BY <1>5, <2>1, <2>2
<1>. QED BY <1>1, <1>4, <1>6, <1>7 DEF TicketsInv, SeenIsRead, DoneReading

(* Taking the reference at the head of the queue: it has been looked at,   *)
(* or it is now, or something is said.                                     *)
LEMMA Dequeue ==
  ASSUME tickets \in Tickets, Fetching, tickets'.queue = Tail(tickets.queue),
         tickets.seen \subseteq tickets'.seen,
         Ref.label \in tickets'.seen
  PROVE  Taken \subseteq Taken'
<1>1. tickets.queue \in Seq(Reference) /\ tickets.queue # <<>>
  BY DEF Tickets, Fetching
<1>2. \A i \in DOMAIN tickets.queue :
        tickets.queue[i] = Ref \/ \E j \in DOMAIN Tail(tickets.queue) : Tail(tickets.queue)[j] = tickets.queue[i]
  BY <1>1, TailLemma DEF Ref
<1>. QED BY <1>2 DEF Taken

LEMMA QueueHead ==
  ASSUME tickets \in Tickets, Fetching
  PROVE  Ref \in Reference /\ Tail(tickets.queue) \in Seq(Reference)
<1>1. tickets.queue \in Seq(Reference) /\ tickets.queue # <<>>
  BY DEF Tickets, Fetching
<1>. QED BY <1>1, TailLemma DEF Ref

LEMMA SkipKeeps ==
  ASSUME TicketsInv, SkipSeen PROVE TicketsInv'
<1>1. /\ tickets \in Tickets /\ at = "tickets" /\ at' = at /\ subject' = subject
      /\ Tail(tickets.queue) \in Seq(Reference)
  BY QueueHead DEF TicketsInv, SkipSeen, Fetching, Drained
<1>2. /\ tickets' \in Tickets /\ tickets'.queue = Tail(tickets.queue)
      /\ tickets'.words = tickets.words /\ tickets'.links = tickets.links
      /\ tickets'.text = tickets.text /\ tickets'.seen = tickets.seen
      /\ tickets'.read = tickets.read /\ tickets'.notes = tickets.notes
  BY <1>1 DEF SkipSeen, Tickets
<1>3. Taken \subseteq Taken'
  BY <1>1, <1>2, Dequeue DEF SkipSeen
<1>. QED BY <1>1, <1>2, <1>3 DEF TicketsInv, WordsKept, LinksKept, SeenIsRead, DoneReading

LEMMA StopKeeps ==
  ASSUME TicketsInv, StopAtCap PROVE TicketsInv'
<1>1. /\ tickets \in Tickets /\ at = "tickets" /\ at' = at /\ subject' = subject
      /\ Tail(tickets.queue) \in Seq(Reference)
  BY QueueHead DEF TicketsInv, StopAtCap, Fetching, Drained
<1>2. tickets' \in Tickets /\ tickets'.notes # {}
  BY <1>1 DEF StopAtCap, Tickets, CapReported
<1>. QED BY <1>1, <1>2 DEF TicketsInv, WordsKept, LinksKept, SeenIsRead, DoneReading

LEMMA FetchKeeps ==
  ASSUME TicketsInv, Fetch PROVE TicketsInv'
<1>1. /\ tickets \in Tickets /\ at = "tickets" /\ at' = at /\ subject' = subject
      /\ Ref \in Reference /\ Tail(tickets.queue) \in Seq(Reference)
      /\ tickets.words = <<>> /\ tickets.links = <<>>
  BY QueueHead DEF TicketsInv, Fetch, Fetching, Drained
<1>2. PICK tool \in Answers(Ref) \cup {None} :
       tickets' = [tickets EXCEPT
         !.queue = Tail(@),
         !.links = IF tool = "pr" THEN Links[Ref.label] ELSE <<>>,
         !.seen = @ \cup {Ref.label},
         !.fetches = @ + 1,
         !.read = IF tool = None THEN @ ELSE @ \cup {Ref.label},
         !.notes = IF tool = None THEN @ \cup {"not fetched"} ELSE @]
  BY DEF Fetch
<1>3. Ref.label \in Label /\ Links[Ref.label] \in Seq(Label) /\ <<>> \in Seq(Label)
  BY <1>1, HubAssumption DEF Reference
<1>4. /\ tickets'.queue = Tail(tickets.queue) /\ tickets'.text = tickets.text
      /\ tickets'.words = <<>>
      /\ tickets'.links = (IF tool = "pr" THEN Links[Ref.label] ELSE <<>>)
      /\ tickets'.seen = tickets.seen \cup {Ref.label}
      /\ tickets'.read = (IF tool = None THEN tickets.read ELSE tickets.read \cup {Ref.label})
      /\ tickets'.notes = (IF tool = None THEN tickets.notes \cup {"not fetched"} ELSE tickets.notes)
      /\ tickets' \in Tickets
  <2>1. (IF tool = "pr" THEN Links[Ref.label] ELSE <<>>) \in Seq(Label)
    BY <1>3
  <2>2. tickets.seen \cup {Ref.label} \in SUBSET Label
    BY <1>1, <1>3 DEF Tickets
  <2>5. tickets.fetches + 1 \in Nat
    <3>1. tickets.fetches \in Nat
      BY <1>1 DEF Tickets
    <3>. QED BY <3>1
  <2>3. (IF tool = None THEN tickets.read ELSE tickets.read \cup {Ref.label}) \in SUBSET Label
    BY <1>1, <1>3 DEF Tickets
  <2>4. (IF tool = None THEN tickets.notes \cup {"not fetched"} ELSE tickets.notes)
          \in SUBSET {"refused", "not fetched", "stopped"}
    BY <1>1 DEF Tickets
  <2>. QED BY <1>1, <1>2, <2>1, <2>2, <2>3, <2>4, <2>5 DEF Tickets
<1>5. Taken \subseteq Taken'
  BY <1>1, <1>4, Dequeue DEF Fetch
<1>6. CASE tool = None
  <2>1. tickets'.notes # {}
    BY <1>4, <1>6
  <2>. QED BY <1>1, <1>4, <2>1 DEF TicketsInv, WordsKept, LinksKept, SeenIsRead, DoneReading
<1>7. CASE tool # None
  <2>1. WordsKept'
    BY <1>1, <1>4, <1>5, <1>7 DEF TicketsInv, WordsKept
  <2>2. Hub[Ref.label] = "pull" => tool = "pr"
    BY <1>2, <1>7 DEF Answers
  <2>3. LinksKept'
    <3>. SUFFICES ASSUME NEW r \in tickets'.read, Hub[r] = "pull", NEW i \in DOMAIN Links[r]
                  PROVE  \/ \E j \in DOMAIN tickets'.links : tickets'.links[j] = Links[r][i]
                         \/ tickets'.notes # {}
                         \/ Links[r][i] \in Taken'
      BY DEF LinksKept
    <3>1. CASE r = Ref.label
      BY <1>4, <2>2, <3>1
    <3>2. CASE r \in tickets.read
      <4>1. \/ \E j \in DOMAIN tickets.links : tickets.links[j] = Links[r][i]
            \/ tickets.notes # {}
            \/ Links[r][i] \in Taken
        BY <3>2 DEF TicketsInv, LinksKept
      <4>2. ~ \E j \in DOMAIN tickets.links : tickets.links[j] = Links[r][i]
        BY <1>1
      <4>. QED BY <1>4, <1>5, <1>7, <4>1, <4>2
    <3>. QED BY <1>4, <3>1, <3>2
  <2>4. SeenIsRead'
    BY <1>4, <1>7 DEF TicketsInv, SeenIsRead
  <2>. QED BY <1>1, <1>4, <2>1, <2>3, <2>4 DEF TicketsInv, DoneReading
<1>. QED BY <1>6, <1>7

(* What the rest of the step and the reading of the change leave alone.    *)
LEMMA DoneKeeps ==
  ASSUME TicketsInv, tickets' = tickets, subject' = subject,
         at' = at \/ at # "tickets" \/ (Drained /\ tickets.queue = <<>>)
  PROVE  TicketsInv'
<1>1. Taken' = Taken
  BY DEF Taken
<1>. QED BY <1>1 DEF TicketsInv, WordsKept, LinksKept, SeenIsRead, DoneReading, Drained

(***************************************************************************)
(* The change.                                                             *)
(***************************************************************************)
(* A step that has begun is never queued again.                            *)
LEMMA BegunStays ==
  ASSUME pc # "queued", [Next]_vars PROVE pc' # "queued"
<1>1. CASE Cancel \/ ClaudeResult \/ CodexMessage \/ ToolCall \/ Stall \/ Escalate \/ Expire
  BY <1>1 DEF Cancel, ClaudeResult, CodexMessage, ToolCall, Stall, Escalate, Expire, CallChanges
<1>2. CASE Refuse \/ BeginLlm \/ BeginCheck \/ Review
  BY <1>2 DEF Refuse, BeginLlm, BeginCheck, Review, CaptureThrows, Capture, Capturing
<1>3. CASE ClaudeCloses \/ CodexCloses \/ ApiResponds \/ SpawnError
  <2>1. SecondAttempt \/ Resolves \/ \E f : Rejects(f)
    BY <1>3 DEF ClaudeCloses, CodexCloses, ApiResponds, SpawnError
  <2>. QED BY <2>1 DEF SecondAttempt, Resolves, Rejects
<1>6. CASE ShellCloses \/ StrayExits
  BY <1>6 DEF ShellCloses, StrayExits, Report, Settle
<1>4. CASE SkipCandidate \/ TryCandidate \/ Retry
  <2>1. ASSUME NEW e, NEW use, NEW cap, Open(e, use, cap) PROVE pc' # "queued"
    BY <2>1 DEF Open, Opens, NoGrant
  <2>2. CASE SkipCandidate
    BY <2>2 DEF SkipCandidate
  <2>3. CASE TryCandidate
    BY <2>1, <2>3 DEF TryCandidate
  <2>4. CASE Retry
    BY <2>1, <2>4 DEF Retry, AskedAgain
  <2>. QED BY <1>4, <2>2, <2>3, <2>4
<1>5. CASE Fail \/ Succeed \/ RejectAnswer
  BY <1>5 DEF Fail, Succeed, RejectAnswer, Fails, Settle
<1>. QED BY <1>1, <1>2, <1>3, <1>4, <1>5, <1>6 DEF Next, Event, vars

LEMMA NoChangeIs == IsChange(NoChange) /\ ~NoChange.available
BY DEF IsChange, NoChange

LEMMA StopsHolds ==
  ASSUME ChangeInv, Unavailable, pc' = pc, pc = "queued" PROVE ChangeInv'
BY DEF ChangeInv, Unavailable, WithheldIsNamed

LEMMA TicketsLeave ==
  ASSUME ChangeInv, pc' = pc, subject' = subject, change' = change, at' = at
  PROVE  ChangeInv'
BY DEF ChangeInv, WithheldIsNamed, Paired

LEMMA StartHolds ==
  ASSUME ChangeInv, Start, pc' = pc PROVE ChangeInv'
<1>1. change = NoChange /\ change' = NoChange /\ at' = "tickets" /\ pc' = "queued"
      /\ subject' \in Subjects
  BY DEF Start, Capturing, ChangeInv
<1>. QED BY <1>1, NoChangeIs DEF ChangeInv, WithheldIsNamed

LEMMA PickHolds ==
  ASSUME ChangeInv, PickBaseline, pc' = pc PROVE ChangeInv'
<1>1. at = "tickets" /\ pc = "queued" /\ change = NoChange /\ subject \in Subjects
  BY DEF PickBaseline, Drained, ChangeInv
<1>2. CASE Unavailable
  BY <1>1, <1>2, StopsHolds
<1>3. ASSUME NEW rule, change' = [change EXCEPT !.baseline = rule], at' = "withheld", subject' = subject
      PROVE  ChangeInv'
  <2>1. IsChange(change') /\ ~change'.available
    BY <1>1, <1>3 DEF IsChange, NoChange
  <2>. QED BY <1>1, <1>3, <2>1 DEF ChangeInv, WithheldIsNamed
<1>. QED BY <1>2, <1>3 DEF PickBaseline

LEMMA WithholdHolds ==
  ASSUME ChangeInv, Withhold, pc' = pc PROVE ChangeInv'
<1>1. at = "withheld" /\ pc = "queued" /\ IsChange(change) /\ ~change.available /\ subject \in Subjects
  BY DEF Withhold, ChangeInv
<1>2. CASE Unavailable
  BY <1>1, <1>2, StopsHolds
<1>3. CASE change' = [change EXCEPT !.withheld = Ends(subject.changes) \cap Denied]
           /\ at' = "renames" /\ subject' = subject
  <2>1. IsChange(change') /\ ~change'.available
        /\ change'.withheld = Ends(subject.changes) \cap Denied
    BY <1>1, <1>3 DEF IsChange
  <2>. QED BY <1>1, <1>3, <2>1 DEF ChangeInv, WithheldIsNamed
<1>. QED BY <1>2, <1>3 DEF Withhold

LEMMA PairHolds ==
  ASSUME ChangeInv, PairRenames, pc' = pc PROVE ChangeInv'
<1>1. /\ at = "renames" /\ pc = "queued" /\ IsChange(change) /\ ~change.available
      /\ subject \in Subjects /\ subject' = subject /\ at' = "diff"
      /\ change.withheld = Ends(subject.changes) \cap Denied
  BY DEF PairRenames, ChangeInv
<1>2. CASE change' = [change EXCEPT !.withheld = @ \cup Counterparts(@)]
  <2>1. IsChange(change') /\ ~change'.available
        /\ change'.withheld = change.withheld \cup Counterparts(change.withheld)
    BY <1>1, <1>2 DEF IsChange
  <2>2. change'.withheld \subseteq Ends(subject.changes)
    <3>1. Counterparts(change.withheld) \subseteq Ends(subject.changes)
      BY DEF Counterparts, Ends
    <3>. QED BY <1>1, <2>1, <3>1
  <2>3. ASSUME NEW ch \in subject.changes, {ch.from, ch.to} \cap Denied # {}
        PROVE  {ch.from, ch.to} \subseteq change'.withheld
    <3>1. {ch.from, ch.to} \subseteq Ends(subject.changes)
      BY DEF Ends
    <3>2. {ch.from, ch.to} \cap change.withheld # {}
      BY <1>1, <2>3, <3>1
    <3>. DEFINE hit == {c \in subject.changes : {c.from, c.to} \cap change.withheld # {}}
    <3>3. {ch.from, ch.to} \subseteq Ends(hit)
      BY <3>2 DEF Ends
    <3>4. Counterparts(change.withheld) = Ends(hit) \ change.withheld
      BY DEF Counterparts
    <3>. HIDE DEF hit
    <3>. QED BY <2>1, <3>3, <3>4
  <2>4. Paired'
    BY <1>1, <2>2, <2>3 DEF Paired
  <2>. QED BY <1>1, <2>1, <2>4 DEF ChangeInv, WithheldIsNamed
<1>3. CASE change' = [change EXCEPT !.paired = FALSE]
  <2>1. IsChange(change') /\ ~change'.available /\ ~change'.paired
        /\ change'.withheld = change.withheld
    BY <1>1, <1>3 DEF IsChange
  <2>2. Paired'
    BY <1>1, <2>1 DEF Paired
  <2>. QED BY <1>1, <2>1, <2>2 DEF ChangeInv, WithheldIsNamed
<1>. QED BY <1>2, <1>3 DEF PairRenames

LEMMA ReadHolds ==
  ASSUME ChangeInv, ReadChange, pc' = pc PROVE ChangeInv'
<1>1. at = "diff" /\ pc = "queued" /\ IsChange(change) /\ Paired
  BY DEF ReadChange, ChangeInv
<1>2. CASE Unavailable
  BY <1>1, <1>2, StopsHolds
<1>3. CASE change' = [change EXCEPT !.available = TRUE,
                                   !.shown = Ends(subject.changes) \ change.withheld]
           /\ at' = "done" /\ subject' = subject
  <2>1. IsChange(change') /\ change'.withheld = change.withheld /\ change'.paired = change.paired
        /\ change'.shown = Ends(subject.changes) \ change.withheld
    BY <1>1, <1>3 DEF IsChange
  <2>2. WithheldIsNamed'
    BY <1>1, <1>3, <2>1 DEF WithheldIsNamed, Paired
  <2>. QED BY <1>1, <1>3, <2>1, <2>2 DEF ChangeInv
<1>. QED BY <1>2, <1>3 DEF ReadChange

LEMMA RestHolds ==
  ASSUME ChangeInv, UNCHANGED <<subject, tickets, change>>, at' = "idle",
         pc' # "queued" \/ (pc' = pc /\ at = "idle")
  PROVE  ChangeInv'
BY DEF ChangeInv, WithheldIsNamed

(***************************************************************************)
(* Together.                                                               *)
(***************************************************************************)
LEMMA MaterialSteps ==
  ASSUME HonestInv, [MaterialNext]_<<vars, mvars>> PROVE [Next]_vars
<1>1. CASE CaptureStep
  <2>1. CASE UNCHANGED vars
    BY <2>1
  <2>2. CASE Capture(change.available)
    <3>1. change.available \in BOOLEAN
      BY DEF HonestInv, ChangeInv, IsChange
    <3>. QED BY <2>2, <3>1 DEF Next, Review
  <2>. QED BY <1>1, <2>1, <2>2 DEF CaptureStep
<1>2. CASE Event \/ CaptureThrows
  BY <1>2 DEF Next, Review
<1>3. CASE UNCHANGED <<vars, mvars>>
  BY <1>3
<1>. QED BY <1>1, <1>2, <1>3 DEF MaterialNext

LEMMA CapturesHold ==
  ASSUME HonestInv, CaptureStep PROVE HonestInv'
<1>. USE DEF HonestInv
<1>1. ASSUME UNCHANGED vars PROVE pc' = pc
  BY <1>1 DEF vars
<1>2. CASE Start /\ UNCHANGED vars
  BY <1>1, <1>2, StartKeeps, StartHolds
<1>3. CASE NoDirectory /\ UNCHANGED vars
  <2>1. pc' = pc /\ pc = "queued" /\ Unavailable /\ at = "idle"
    BY <1>1, <1>3 DEF NoDirectory, Capturing
  <2>2. tickets' = tickets /\ subject' = subject
    BY <2>1 DEF Unavailable
  <2>. QED BY <2>1, <2>2, StopsHolds, DoneKeeps
<1>4. CASE (ParseWord \/ FollowLink \/ SkipSeen \/ StopAtCap \/ Fetch) /\ UNCHANGED vars
  <2>1. subject' = subject /\ change' = change /\ at' = at /\ at = "tickets"
    BY <1>4 DEF ParseWord, FollowLink, SkipSeen, StopAtCap, Fetch, Fetching, Drained
  <2>2. subject \in Subjects
    BY <2>1 DEF ChangeInv
  <2>3. TicketsInv'
    BY <1>4, <2>2, ParseKeeps, FollowKeeps, SkipKeeps, StopKeeps, FetchKeeps
  <2>. QED BY <1>1, <1>4, <2>1, <2>3, TicketsLeave
<1>5. CASE (PickBaseline \/ Withhold \/ PairRenames \/ ReadChange) /\ UNCHANGED vars
  <2>1. tickets' = tickets /\ subject' = subject
        /\ (at # "tickets" \/ (Drained /\ tickets.queue = <<>>))
    BY <1>5 DEF PickBaseline, Withhold, PairRenames, ReadChange, Unavailable
  <2>2. TicketsInv'
    BY <2>1, DoneKeeps
  <2>. QED BY <1>1, <1>5, <2>2, PickHolds, WithholdHolds, PairHolds, ReadHolds
<1>6. CASE /\ at = "done" /\ Capture(change.available) /\ at' = "idle"
           /\ UNCHANGED <<subject, tickets, change>>
  <2>1. pc' # "queued" /\ tickets' = tickets /\ subject' = subject
    BY <1>6 DEF Capture, Report, Settle
  <2>. QED BY <1>6, <2>1, DoneKeeps, RestHolds
<1>. QED BY <1>2, <1>3, <1>4, <1>5, <1>6 DEF CaptureStep

LEMMA HonestInductive ==
  HonestInv /\ [MaterialNext]_<<vars, mvars>> => HonestInv'
<1>. SUFFICES ASSUME HonestInv, [MaterialNext]_<<vars, mvars>> PROVE HonestInv'
  OBVIOUS
<1>1. CASE CaptureStep
  BY <1>1, CapturesHold
<1>2. CASE at = "idle" /\ (Event \/ CaptureThrows) /\ UNCHANGED mvars
  <2>1. at' = "idle" /\ UNCHANGED <<subject, tickets, change>> /\ at' = at
    BY <1>2 DEF mvars
  <2>2. TicketsInv'
    BY <2>1, DoneKeeps DEF HonestInv
  <2>3. CASE pc' = "queued"
    <3>1. pc' = pc
      BY <1>2, <2>3, BegunStays DEF Next, Review
    <3>. QED BY <1>2, <2>1, <2>2, <3>1, RestHolds DEF HonestInv
  <2>4. CASE pc' # "queued"
    BY <2>1, <2>2, <2>4, RestHolds DEF HonestInv
  <2>. QED BY <2>3, <2>4
<1>3. CASE UNCHANGED <<vars, mvars>>
  <2>1. UNCHANGED <<subject, tickets, change>> /\ at' = at /\ pc' = pc
    BY <1>3 DEF vars, mvars
  <2>. QED BY <2>1, DoneKeeps, TicketsLeave DEF HonestInv
<1>. QED BY <1>1, <1>2, <1>3 DEF MaterialNext

LEMMA HonestBegins == MaterialInit => HonestInv
<1>. SUFFICES ASSUME MaterialInit PROVE HonestInv
  OBVIOUS
<1>1. tickets = NoTickets /\ at = "idle" /\ change = NoChange
  BY DEF MaterialInit
<1>2. TicketsInv
  BY <1>1, NoTicketsInv DEF NoTickets, TicketsInv, WordsKept, LinksKept, SeenIsRead, DoneReading
<1>3. ChangeInv
  BY <1>1, NoChangeIs DEF ChangeInv, WithheldIsNamed
<1>. QED BY <1>2, <1>3 DEF HonestInv

LEMMA HonestSays == HonestInv => MaterialIsHonest
<1>. SUFFICES ASSUME HonestInv PROVE ResolvedIsRead
  BY DEF HonestInv, ChangeInv, MaterialIsHonest
<1>. SUFFICES ASSUME tickets.text = "fetched", at # "tickets", SourcesResolved
              PROVE  /\ \A i \in DOMAIN subject.sources :
                          /\ subject.sources[i].kind # "refused"
                          /\ subject.sources[i].label \in tickets.read
                     /\ \A r \in tickets.read : Hub[r] = "pull" =>
                          \A i \in DOMAIN Links[r] : Links[r][i] \in tickets.read
  BY DEF ResolvedIsRead
<1>1. tickets.notes = {} /\ tickets.words = <<>> /\ tickets.links = <<>> /\ tickets.queue = <<>>
  BY DEF SourcesResolved, HonestInv, TicketsInv, DoneReading
<1>2. Taken \subseteq tickets.read
  BY <1>1 DEF Taken, HonestInv, TicketsInv, SeenIsRead
<1>3. ASSUME NEW i \in DOMAIN subject.sources
      PROVE  subject.sources[i].kind # "refused" /\ subject.sources[i].label \in tickets.read
  <2>1. ~ \E j \in DOMAIN tickets.words : tickets.words[j] = subject.sources[i]
    BY <1>1
  <2>. QED BY <1>1, <1>2, <2>1 DEF HonestInv, TicketsInv, WordsKept
<1>4. ASSUME NEW r \in tickets.read, Hub[r] = "pull", NEW i \in DOMAIN Links[r]
      PROVE  Links[r][i] \in tickets.read
  <2>1. ~ \E j \in DOMAIN tickets.links : tickets.links[j] = Links[r][i]
    BY <1>1
  <2>. QED BY <1>1, <1>2, <1>4, <2>1 DEF HonestInv, TicketsInv, LinksKept
<1>. QED BY <1>3, <1>4

(* For every list of references, every repository, every cap on fetches    *)
(* and whatever gh and git refuse: material that calls its sources         *)
(* resolved has read all of them, and every changed path is shown or named *)
(* as withheld.                                                            *)
THEOREM ReviewIsHonest == MaterialSpec => []MaterialIsHonest
BY HonestBegins, HonestInductive, HonestSays, PTL DEF MaterialSpec

(***************************************************************************)
(* The execution of a step.                                                *)
(***************************************************************************)
Active == pc \in {"calling", "failed", "answered"}

(* Where the step stands, told from pc: what the log and the workflow have *)
(* got so far, and what kind of step has a call open.                      *)
Standing ==
  /\ pc = "queued" => starts = 0 /\ results = <<>> /\ outcome = "none"
  /\ Active => starts = 1 /\ results = <<>> /\ outcome = "none"
  /\ pc = "done" => outcome # "none"
  /\ pc = "calling" => (Via(call.entry) = "shell" <=> step.kind = "check")
  /\ Active => step.kind \in {"llm", "check"}
  /\ Turn => step.kind = "llm"

(* What a model step asks, and what it resolved to, which it may ask       *)
(* again, can enforce the declaration.                                     *)
CallEnforces ==
  Active /\ step.kind = "llm" =>
    Portable(Entry0) /\ call.entry \in Entries /\ Portable(call.entry)

(* The entry the step resolved to was asked, unless its directory could    *)
(* not be made.                                                            *)
FirstAsked ==
  /\ pc \in {"calling", "answered"} /\ step.kind = "llm" => Entry0 \in asked
  /\ pc = "failed" => Entry0 \in asked \/ (call.use = "first" /\ fault = "other")

IInv == TypeOK /\ Standing /\ FirstAsked /\ CallEnforces

USE EntriesAssumption, DeclarationsAssumption DEF Declaration

LEMMA TransportLemma ==
  /\ Via(Shell) = "shell"
  /\ \A e \in Entries : Via(e) \in {"claude", "codex", "api"}
BY DEF Via

LEMMA FreshLemma ==
  ASSUME NEW e \in Entries \cup {Shell}, NEW use \in {"first", "candidate", "retry"}, NEW cap \in Int
  PROVE  /\ Fresh(e, use, cap) \in Call
         /\ Fresh(e, use, cap).entry = e
         /\ Fresh(e, use, cap).use = use
BY DEF Fresh, Call

(* The results of opening a call.                                          *)
LEMMA OpenLemma ==
  ASSUME IInv, NEW e \in Entries \cup {Shell}, NEW use \in {"first", "candidate", "retry"},
         NEW cap \in Int, Open(e, use, cap)
  PROVE  /\ call' \in Call /\ call'.entry = e /\ call'.use = use
         /\ pc' \in {"calling", "failed"}
         /\ fault' \in Faults
         /\ stray' \subseteq Entries \cup {Shell}
         /\ grant' \in BOOLEAN
         /\ asked' \subseteq asked \cup {e}
         /\ asked \subseteq asked'
         /\ pc' = "calling" => e \in asked'
         /\ e \notin asked' => fault' = "other"
         /\ ~cancelled /\ e = Shell => pc' = "calling"
<1>1. call' \in Call /\ call'.entry = e /\ call'.use = use
  BY FreshLemma DEF Open
<1>2. CASE Opens(e) /\ asked' = asked \cup {e}
  <2>1. CASE cancelled
    BY <1>1, <1>2, <2>1 DEF Opens, IInv, TypeOK, Faults
  <2>2. CASE ~cancelled
    <3>1. pc' = "calling" /\ fault' = fault /\ stray' = stray /\ grant' \in BOOLEAN
      BY <1>2, <2>2 DEF Opens
    <3>. QED BY <1>1, <1>2, <3>1 DEF IInv, TypeOK
  <2>. QED BY <2>1, <2>2
<1>3. CASE NoGrant(e) /\ UNCHANGED asked
  <2>1. e # Shell
    BY <1>3, TransportLemma DEF NoGrant
  <2>. QED BY <1>1, <1>3, <2>1 DEF NoGrant, IInv, TypeOK, Faults
<1>. QED BY <1>2, <1>3 DEF Open

(* A call that ends keeps the rest of the step's state.                    *)
LEMMA EndsLemma ==
  ASSUME IInv, pc = "calling", Via(call.entry) # "shell",
         \/ Resolves
         \/ \E f \in Faults : Rejects(f)
  PROVE  IInv'
<1>1. step.kind = "llm" /\ Entry0 \in asked
  BY DEF IInv, Standing, FirstAsked, Active
<1>2. CASE Resolves
  BY <1>1, <1>2 DEF Resolves, IInv, TypeOK, Standing, FirstAsked, CallEnforces, Active, Turn, Portable
<1>3. CASE \E f \in Faults : Rejects(f)
  BY <1>1, <1>3 DEF Rejects, Thrown, Faults, IInv, TypeOK, Standing, FirstAsked, CallEnforces,
                    Active, Turn, Portable
<1>. QED BY <1>2, <1>3

(* An event of an open call changes the call and nothing else.             *)
LEMMA EventLemma ==
  ASSUME IInv, pc = "calling", NEW c \in Call, c.entry = call.entry, CallChanges(c), spent' \in Int
  PROVE  IInv'
BY DEF CallChanges, IInv, TypeOK, Standing, FirstAsked, CallEnforces, Active, Turn, Portable, Via

LEMMA SettleLemma ==
  ASSUME IInv, NEW s \in {"succeeded", "failed", "cancelled"}, NEW o \in {"value", "marker", "threw"},
         NEW m \in Entries \cup {None}, NEW e \in Entries \cup {Shell, None}, Settle(s, o, m, e),
         call' = call, fault' = fault, starts' \in Nat, asked' = asked, stray' = stray, grant' = grant
  PROVE  IInv'
<1>1. results' \in Seq({"succeeded", "failed", "cancelled"})
  BY DEF Settle, IInv, TypeOK
<1>. QED BY <1>1 DEF Settle, IInv, TypeOK, Standing, FirstAsked, CallEnforces, Active, Turn, Portable

LEMMA RaiseLemma ==
  ASSUME NEW c \in Call
  PROVE  /\ [c EXCEPT !.sent = Raise(@)] \in Call
         /\ [c EXCEPT !.sent = Raise(@)].entry = c.entry
         /\ Tripped(c) \in Call /\ Tripped(c).entry = c.entry
BY DEF Call, Raise, Tripped

LEMMA Inductive == IInv /\ [Next]_vars => IInv'
<1>. SUFFICES ASSUME IInv, [Next]_vars PROVE IInv'
  OBVIOUS
<1>. USE DEF IInv
<1>a. call \in Call /\ spent \in Int /\ step \in Declarations /\ cancelled \in BOOLEAN
  BY DEF TypeOK
<1>1. CASE Cancel
  <2>1. call' \in Call /\ call'.entry = call.entry /\ call'.use = call.use
    BY <1>1, <1>a, RaiseLemma DEF Cancel, Call
  <2>. QED BY <1>1, <2>1 DEF Cancel, TypeOK, Standing, FirstAsked, CallEnforces, Active, Turn,
                             Portable, Via
<1>2. CASE Refuse
  BY <1>2 DEF Refuse, TypeOK, Standing, FirstAsked, CallEnforces, Active, Turn, Portable, Via
<1>3. CASE BeginLlm
  <2>. DEFINE cap == IF Budgeted THEN step.budget ELSE 0
  <2>1. cap \in Int /\ Open(Entry0, "first", cap)
    BY <1>3, <1>a DEF BeginLlm
  <2>. HIDE DEF cap
  <2>2. /\ call' \in Call /\ call'.entry = Entry0 /\ call'.use = "first"
        /\ pc' \in {"calling", "failed"} /\ fault' \in Faults
        /\ stray' \subseteq Entries \cup {Shell} /\ grant' \in BOOLEAN
        /\ asked' \subseteq asked \cup {Entry0} /\ asked \subseteq asked'
        /\ pc' = "calling" => Entry0 \in asked'
        /\ Entry0 \notin asked' => fault' = "other"
    BY <2>1, OpenLemma
  <2>3. Portable(Entry0)
    BY <1>3 DEF BeginLlm, Unportable
  <2>4. TypeOK'
    BY <1>3, <2>2 DEF BeginLlm, TypeOK
  <2>5. Standing'
    BY <1>3, <2>2, TransportLemma DEF BeginLlm, Standing, Active, Turn, Via
  <2>6. CallEnforces' /\ FirstAsked'
    BY <1>3, <2>2, <2>3 DEF BeginLlm, CallEnforces, FirstAsked, Active, Portable, Via
  <2>. QED BY <2>4, <2>5, <2>6
<1>3a. CASE BeginCheck
  <2>1. Open(Shell, "first", 0)
    BY <1>3a DEF BeginCheck
  <2>2. /\ call' \in Call /\ call'.entry = Shell
        /\ pc' = "calling" /\ fault' \in Faults
        /\ stray' \subseteq Entries \cup {Shell} /\ grant' \in BOOLEAN
        /\ asked' \subseteq asked \cup {Shell}
    BY <1>3a, <2>1, OpenLemma DEF BeginCheck
  <2>3. TypeOK'
    BY <1>3a, <2>2 DEF BeginCheck, TypeOK
  <2>4. Standing'
    BY <1>3a, <2>2, TransportLemma DEF BeginCheck, Standing, Active, Turn, Via
  <2>5. CallEnforces' /\ FirstAsked'
    BY <1>3a, <2>2 DEF BeginCheck, CallEnforces, FirstAsked
  <2>. QED BY <2>3, <2>4, <2>5
<1>4. CASE Review
  <2>1. CASE CaptureThrows
    <3>1. starts' \in Nat
      BY <2>1 DEF CaptureThrows, TypeOK
    <3>. QED BY <2>1, <3>1, SettleLemma DEF CaptureThrows
  <2>2. ASSUME NEW available \in BOOLEAN, Capture(available) PROVE IInv'
    <3>1. starts' \in Nat
      BY <2>2 DEF Capture, TypeOK
    <3>. QED BY <2>2, <1>a, <3>1, SettleLemma DEF Capture, Report
  <2>. QED BY <1>4, <2>1, <2>2 DEF Review
<1>5. CASE ClaudeResult
  <2>1. PICK said \in {"success", "blocked", "budget", "turns", "error"},
             cost \in IF Budgeted THEN 0 .. call.cap ELSE {0} :
               CallChanges([call EXCEPT !.said = said]) /\ spent' = spent + cost
    BY <1>5 DEF ClaudeResult
  <2>2. [call EXCEPT !.said = said] \in Call /\ [call EXCEPT !.said = said].entry = call.entry
    BY <1>a DEF Call
  <2>3. spent' \in Int
    BY <1>a, <2>1 DEF Call
  <2>. QED BY <1>5, <2>1, <2>2, <2>3, EventLemma DEF ClaudeResult, Calling
<1>6. CASE CodexMessage
  <2>1. [call EXCEPT !.said = "success"] \in Call
        /\ [call EXCEPT !.said = "success"].entry = call.entry
    BY <1>a DEF Call
  <2>. QED BY <1>6, <1>a, <2>1, EventLemma DEF CodexMessage, Calling
<1>7. CASE ToolCall
  <2>1. PICK p \in Tools :
          LET c == [call EXCEPT !.pairs = Append(@, p)]
          IN  CallChanges(IF Loops(c.pairs) /\ ~c.trip THEN Tripped(c) ELSE c)
    BY <1>7 DEF ToolCall
  <2>. DEFINE c == [call EXCEPT !.pairs = Append(@, p)]
  <2>2. c \in Call /\ c.entry = call.entry
    <3>1. call.pairs \in Seq(Tools)
      BY <1>a DEF Call
    <3>2. Append(call.pairs, p) \in Seq(Tools)
      BY <3>1
    <3>. QED BY <1>a, <3>2 DEF Call
  <2>3. Tripped(c) \in Call /\ Tripped(c).entry = call.entry
    BY <2>2, RaiseLemma
  <2>. QED BY <1>7, <1>a, <2>1, <2>2, <2>3, EventLemma DEF ToolCall, Calling
<1>8. CASE Stall
  BY <1>8, <1>a, RaiseLemma, EventLemma DEF Stall, Calling
<1>9. CASE Escalate
  <2>1. [call EXCEPT !.sent = "kill"] \in Call /\ [call EXCEPT !.sent = "kill"].entry = call.entry
    BY <1>a DEF Call
  <2>. QED BY <1>9, <1>a, <2>1, EventLemma DEF Escalate, Calling
<1>10. CASE Expire
  <2>1. [call EXCEPT !.expired = TRUE, !.sent = Raise(@)] \in Call
        /\ [call EXCEPT !.expired = TRUE, !.sent = Raise(@)].entry = call.entry
    BY <1>a DEF Call, Raise
  <2>. QED BY <1>10, <1>a, <2>1, EventLemma DEF Expire, Calling
<1>11. CASE ClaudeCloses
  <2>1. CASE SecondAttempt
    <3>1. call' \in Call /\ call'.entry = call.entry /\ call'.use = call.use
      <4>1. <<>> \in Seq(Tools) /\ 2 \in 1 .. 2
        OBVIOUS
      <4>2. \A s \in Seq(Tools), n \in 1 .. 2 :
              LET c == [call EXCEPT !.attempt = n, !.pairs = s, !.said = "nothing",
                                    !.trip = FALSE, !.sent = "nothing"]
              IN  c \in Call /\ c.entry = call.entry /\ c.use = call.use
        BY <1>a DEF Call
      <4>. QED BY <2>1, <4>1, <4>2 DEF SecondAttempt
    <3>. QED BY <2>1, <3>1, SMTT(40) DEF SecondAttempt, TypeOK, Standing, FirstAsked, CallEnforces, Active,
                               Turn, Portable, Via
  <2>2. CASE Resolves \/ \E f \in Faults : Rejects(f)
    BY <1>11, <2>2, EndsLemma DEF ClaudeCloses, Calling
  <2>. QED BY <1>11, <2>1, <2>2 DEF ClaudeCloses, ClaudeError, Faults
<1>12. CASE CodexCloses
  BY <1>12, EndsLemma DEF CodexCloses, Calling, Faults
<1>13. CASE ApiResponds
  BY <1>13, EndsLemma DEF ApiResponds, Calling, Faults
<1>14. CASE SpawnError
  BY <1>14, EndsLemma DEF SpawnError, Calling, Faults
<1>15. CASE ShellCloses
  <2>1. starts' \in Nat
    BY <1>15 DEF ShellCloses, TypeOK
  <2>. QED BY <1>15, <1>a, <2>1, SettleLemma DEF ShellCloses, Report
<1>16. CASE StrayExits
  BY <1>16 DEF StrayExits, TypeOK, Standing, FirstAsked, CallEnforces, Active, Turn, Portable, Via
<1>17. CASE SkipCandidate
  BY <1>17 DEF SkipCandidate, TypeOK, Standing, FirstAsked, CallEnforces, Active, Turn, Portable, Via
<1>18. CASE TryCandidate
  <2>. DEFINE e == Fallback[next]
              cap == IF Budgeted THEN Left ELSE 0
  <2>1. e \in Entries /\ Portable(e) /\ cap \in Int /\ Open(e, "candidate", cap)
    BY <1>18, <1>a DEF TryCandidate, Fit, Left
  <2>. HIDE DEF e, cap
  <2>2. /\ call' \in Call /\ call'.entry = e /\ call'.use = "candidate"
        /\ pc' \in {"calling", "failed"} /\ fault' \in Faults
        /\ stray' \subseteq Entries \cup {Shell} /\ grant' \in BOOLEAN
        /\ asked' \subseteq asked \cup {e} /\ asked \subseteq asked'
    BY <2>1, OpenLemma
  <2>3. pc = "failed" /\ step.kind = "llm" /\ Entry0 \in asked
    BY <1>18 DEF TryCandidate, InChain, Worthy, Standing, FirstAsked, Turn
  <2>4. next' \in 1 .. Len(Fallback) + 1
    BY <1>18 DEF TryCandidate, TypeOK
  <2>5. TypeOK'
    BY <1>18, <2>1, <2>2, <2>4 DEF TryCandidate, TypeOK
  <2>6. Standing'
    BY <1>18, <2>1, <2>2, <2>3, TransportLemma DEF TryCandidate, Standing, Active, Turn, Via
  <2>7. FirstAsked' /\ CallEnforces'
    BY <1>18, <2>1, <2>2, <2>3 DEF TryCandidate, FirstAsked, CallEnforces, Active, Portable, Via
  <2>. QED BY <2>5, <2>6, <2>7
<1>19. CASE Fail
  BY <1>19, <1>a, SettleLemma DEF Fail, Fails, FailureStatus, TypeOK
<1>20. CASE Succeed
  <2>1. Answered(call) \in Entries \cup {None}
    BY <1>20, <1>a DEF Succeed, Answered, TypeOK, Standing, CallEnforces, Turn, Active
  <2>. QED BY <1>20, <1>a, <2>1, SettleLemma DEF Succeed, TypeOK, Call
<1>21. CASE Retry
  <2>. DEFINE cap == IF Budgeted THEN step.budget ELSE 0
  <2>1. cap \in Int /\ Open(Entry0, "retry", cap)
    BY <1>21, <1>a DEF Retry, AskedAgain
  <2>. HIDE DEF cap
  <2>2. /\ call' \in Call /\ call'.entry = Entry0 /\ call'.use = "retry"
        /\ pc' \in {"calling", "failed"} /\ fault' \in Faults
        /\ stray' \subseteq Entries \cup {Shell} /\ grant' \in BOOLEAN
        /\ asked' \subseteq asked \cup {Entry0} /\ asked \subseteq asked'
    BY <2>1, OpenLemma
  <2>3. pc = "answered" /\ step.kind = "llm" /\ Entry0 \in asked /\ Portable(Entry0)
    BY <1>21 DEF Retry, Standing, FirstAsked, CallEnforces, Turn, Active
  <2>4. named' \in Entries \cup {None}
    BY <1>21 DEF Retry, Answered, TypeOK, Standing, CallEnforces, Turn, Active
  <2>5. TypeOK'
    BY <1>21, <2>2, <2>4 DEF Retry, TypeOK
  <2>6. Standing'
    BY <1>21, <2>2, <2>3, TransportLemma DEF Retry, Standing, Active, Turn, Via
  <2>7. FirstAsked' /\ CallEnforces'
    BY <1>21, <2>2, <2>3 DEF Retry, FirstAsked, CallEnforces, Active, Portable, Via
  <2>. QED BY <2>5, <2>6, <2>7
<1>22. CASE RejectAnswer
  BY <1>22, <1>a, SettleLemma DEF RejectAnswer, Fails, FailureStatus, TypeOK
<1>23. CASE UNCHANGED vars
  BY <1>23 DEF vars, TypeOK, Standing, FirstAsked, CallEnforces, Active, Turn, Portable, Via
<1>. QED
  BY <1>1, <1>2, <1>3, <1>3a, <1>4, <1>5, <1>6, <1>7, <1>8, <1>9, <1>10, <1>11, <1>12, <1>13, <1>14,
     <1>15, <1>16, <1>17, <1>18, <1>19, <1>20, <1>21, <1>22, <1>23 DEF Next, Event

LEMMA InitHolds == Init => IInv
<1>. SUFFICES ASSUME Init PROVE IInv
  OBVIOUS
<1>1. call \in Call
  BY FreshLemma DEF Init
<1>2. <<>> \in Seq({"succeeded", "failed", "cancelled"})
  OBVIOUS
<1>3. next \in 1 .. Len(Fallback) + 1
  <2>1. Len(Fallback) \in Nat
    OBVIOUS
  <2>. QED BY <2>1 DEF Init
<1>4. results \in Seq({"succeeded", "failed", "cancelled"})
  BY <1>2 DEF Init
<1>5. TypeOK
  <2>1. /\ step \in Declarations /\ cancelled \in BOOLEAN /\ grant \in BOOLEAN
        /\ pc = "queued" /\ fault \in Faults /\ outcome = "none"
    BY DEF Init, Faults
  <2>2. asked \subseteq Entries \cup {Shell} /\ stray \subseteq Entries \cup {Shell}
    BY DEF Init
  <2>3. spent \in Int /\ starts \in Nat
    BY DEF Init
  <2>4. named \in Entries \cup {None} /\ by \in Entries \cup {Shell, None}
    BY DEF Init
  <2>. QED BY <1>1, <1>3, <1>4, <2>1, <2>2, <2>3, <2>4 DEF TypeOK
<1>. QED BY <1>5 DEF Init, IInv, Standing, FirstAsked, CallEnforces, Active, Turn

(* Whatever the entries, the chain, the declaration, the children and the  *)
(* operator: every variable keeps its type; in particular the step asks    *)
(* entries of the registry only and its place in the chain stays within it.*)
THEOREM TypeCorrect == Spec => []TypeOK
<1>1. IInv => TypeOK
  BY DEF IInv
<1>. QED BY <1>1, InitHolds, Inductive, PTL DEF Spec

(***************************************************************************)
(* The contract.                                                           *)
(***************************************************************************)
Enforcing == {e \in Entries : Portable(e)}

LEMMA SettleMaps ==
  ASSUME IInv, pc # "done", starts' = 1,
         NEW status \in {"succeeded", "failed", "cancelled"},
         NEW o \in {"value", "marker", "threw"}, NEW m, NEW e,
         Settle(status, o, m, e), Contract!Agrees(status, o),
         e \in Enforcing <=> step.kind = "llm" /\ o = "value"
  PROVE  Contract!Settle
<1>1. outcome = "none" /\ step \in Declarations
  BY DEF IInv, TypeOK, Standing, Active
<1>2. (by' \in Enforcing) = (step.kind = "llm" /\ o = "value")
  BY DEF Settle
<1>3. [d \in Declarations |-> {x \in Entries : d.needs \subseteq Capabilities(Via(x))}][step]
        = Enforcing
  BY <1>1 DEF Enforcing, Portable
<1>. QED BY <1>1, <1>2, <1>3 DEF Settle, Contract!Settle

LEMMA NobodyEnforces == Shell \notin Enforcing /\ None \notin Enforcing
BY DEF Enforcing

(* A report of a check or a capture, and a failure of a model step.        *)
LEMMA ReportMaps ==
  ASSUME IInv, pc # "done", starts' = 1, step.kind # "llm", NEW passed \in BOOLEAN, Report(passed)
  PROVE  Contract!Settle
<1>1. cancelled \in BOOLEAN
  BY DEF IInv, TypeOK
<1>. QED BY <1>1, SettleMaps, NobodyEnforces DEF Report, Contract!Agrees

LEMMA FailsMaps ==
  ASSUME IInv, Turn, NEW model, Fails(model)
  PROVE  Contract!Settle
<1>1. starts' = 1 /\ pc # "done" /\ step.kind = "llm" /\ cancelled \in BOOLEAN
  BY DEF Fails, Turn, IInv, TypeOK, Standing, Active
<1>2. step.optional \in BOOLEAN
  BY DEF IInv, TypeOK
<1>. QED BY <1>1, <1>2, SettleMaps, NobodyEnforces DEF Fails, FailureStatus, Contract!Agrees

(* Every step of the execution is a step of the contract or changes        *)
(* nothing it speaks of.                                                   *)
LEMMA StepMaps ==
  ASSUME IInv, [Next]_vars
  PROVE  [Contract!Next]_(Contract!vars)
<1>. USE DEF IInv
<1>1. CASE Cancel
  BY <1>1 DEF Cancel, Contract!Cancel, Contract!Next
<1>2. CASE Refuse
  BY <1>2 DEF Refuse, Standing, Contract!Refuse, Contract!Next
<1>3. CASE BeginLlm \/ BeginCheck
  BY <1>3 DEF BeginLlm, BeginCheck, Standing, Contract!Begin, Contract!Next
<1>4. CASE Review
  <2>1. CASE CaptureThrows
    <3>1. starts' = 1 /\ pc # "done" /\ step.kind = "review" /\ ~cancelled
      BY <2>1 DEF CaptureThrows, Capturing, Standing
    <3>2. Contract!Agrees("failed", "threw")
      BY <3>1 DEF Contract!Agrees
    <3>. QED BY <2>1, <3>1, <3>2, SettleMaps, NobodyEnforces DEF CaptureThrows, Contract!Next
  <2>2. ASSUME NEW available \in BOOLEAN, Capture(available) PROVE Contract!Settle
    <3>1. starts' = 1 /\ pc # "done" /\ step.kind # "llm"
      BY <2>2 DEF Capture, Capturing, Standing
    <3>. QED BY <2>2, <3>1, ReportMaps DEF Capture
  <2>. QED BY <1>4, <2>1, <2>2 DEF Review, Contract!Next
<1>5. CASE ClaudeResult \/ CodexMessage \/ ToolCall \/ Stall \/ Escalate \/ Expire
  BY <1>5 DEF ClaudeResult, CodexMessage, ToolCall, Stall, Escalate, Expire, CallChanges,
              Contract!vars
<1>6. CASE ClaudeCloses \/ CodexCloses \/ ApiResponds \/ SpawnError
  <2>1. SecondAttempt \/ Resolves \/ \E f : Rejects(f)
    BY <1>6 DEF ClaudeCloses, CodexCloses, ApiResponds, SpawnError
  <2>. QED BY <2>1 DEF SecondAttempt, Resolves, Rejects, Contract!vars
<1>7. CASE ShellCloses
  <2>1. starts' = 1 /\ pc # "done" /\ step.kind # "llm"
    BY <1>7 DEF ShellCloses, Calling, Standing, Active
  <2>2. PICK clean \in BOOLEAN : Report(clean /\ ~Aborted)
    BY <1>7 DEF ShellCloses
  <2>. QED BY <2>1, <2>2, ReportMaps DEF Contract!Next
<1>8. CASE StrayExits \/ SkipCandidate \/ TryCandidate \/ Retry
  BY <1>8 DEF StrayExits, SkipCandidate, TryCandidate, Retry, Contract!vars
<1>9. CASE Fail \/ RejectAnswer
  BY <1>9, FailsMaps DEF Fail, RejectAnswer, Turn, Contract!Next
<1>10. CASE Succeed
  <2>1. /\ starts' = 1 /\ pc # "done" /\ step.kind = "llm"
        /\ call.entry \in Enforcing
    BY <1>10 DEF Succeed, Standing, CallEnforces, Active, Turn, Enforcing
  <2>2. Contract!Agrees("succeeded", "value")
    BY DEF Contract!Agrees
  <2>. QED BY <1>10, <2>1, <2>2, SettleMaps DEF Succeed, Contract!Next
<1>11. CASE UNCHANGED vars
  BY <1>11 DEF vars, Contract!vars
<1>. QED BY <1>1, <1>2, <1>3, <1>4, <1>5, <1>6, <1>7, <1>8, <1>9, <1>10, <1>11 DEF Next, Event

LEMMA InitMaps == Init => Contract!Init
BY DEF Init, Contract!Init

(* For every registry, chain and declaration, whatever children, providers,*)
(* timers and the operator do: the builder settles a step at most once,    *)
(* what the log says agrees with what the workflow gets, and an answer the *)
(* workflow gets is one of a provider that enforces the declaration.       *)
THEOREM KeepsContract == Spec => ImplementsContract
<1>. QED BY InitHolds, Inductive, InitMaps, StepMaps, PTL DEF Spec, ImplementsContract, Contract!Spec

(***************************************************************************)
(* Cancellation.                                                           *)
(***************************************************************************)
(* Once the run is cancelled no provider is asked that was not asked       *)
(* before: the chain stops, and the second answer to a schema comes from   *)
(* the entry the step asked first.                                         *)
THEOREM ChainEndsOnCancel == Spec => CancelEndsTheChain
<1>1. ASSUME IInv, [Next]_vars, cancelled PROVE asked' = asked
  <2>1. CASE Retry
    BY <1>1, <2>1 DEF Retry, AskedAgain, Open, IInv, Standing, FirstAsked, Turn
  <2>2. CASE TryCandidate
    BY <1>1, <2>2 DEF TryCandidate, BreaksOff
  <2>3. CASE Event /\ ~Retry /\ ~TryCandidate
    BY <1>1, <2>3 DEF Event, Cancel, Refuse, BeginLlm, BeginCheck, ClaudeResult, CodexMessage,
       ToolCall, Stall, Escalate, Expire, CallChanges, ClaudeCloses, CodexCloses, ApiResponds,
       SpawnError, SecondAttempt, Resolves, Rejects, ShellCloses, StrayExits, SkipCandidate, Fail,
       RejectAnswer, Fails, Succeed
  <2>4. CASE Review \/ UNCHANGED vars
    BY <2>4 DEF Review, CaptureThrows, Capture, vars
  <2>. QED BY <1>1, <2>1, <2>2, <2>3, <2>4 DEF Next
<1>2. IInv /\ [Next]_vars => [cancelled => asked' = asked]_vars
  BY <1>1
<1>. QED BY <1>2, InitHolds, Inductive, PTL DEF Spec, CancelEndsTheChain

(* With the capture taken apart into its calls the step is still one of    *)
(* StepExecution, so what is proved of that holds: here that it keeps the  *)
(* builder's contract.                                                     *)
THEOREM MaterialKeepsContract == MaterialSpec => ImplementsContract
<1>1. MaterialInit => Init
  BY DEF MaterialInit
<1>2. HonestInv /\ [MaterialNext]_<<vars, mvars>> => [Next]_vars
  BY MaterialSteps
<1>3. MaterialSpec => Spec
  BY <1>1, <1>2, HonestBegins, HonestInductive, PTL DEF MaterialSpec, Spec
<1>. QED BY <1>3, KeepsContract
=============================================================================
