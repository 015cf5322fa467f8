--------------------------- MODULE ReviewMaterial ---------------------------
(***************************************************************************)
(* What a review-material step captures (runtime/reviewMaterial.ts): the   *)
(* tickets the caller names, fetched with gh, and the change against a     *)
(* baseline, read with git, without the paths of the deny list.            *)
(*                                                                         *)
(* The capture runs in one turn of the daemon's event loop (spawnSync), so *)
(* that nothing else of the step happens between its calls; each call may  *)
(* fail.  The repository is taken to stand still.  Texts, their caps, the  *)
(* history probes and the files the artefacts are written to are left out. *)
(***************************************************************************)
EXTENDS StepExecution

CONSTANTS
  Label,            \* owner/repo#number
  Hub,              \* what a label is on GitHub: "pull" or "issue"
  Links,            \* the issues the body of a pull request names, in order
  Denied,           \* paths the credential deny list matches
  Subjects,         \* what captures are asked for, and of which repository
  MaxFetches        \* MAX_SPEC_SOURCE_FETCHES

(* A word of specSources: a reference to a label, one that is refused      *)
(* whatever the repository, or plain text.                                 *)
Token ==
  [label: Label, kind: {"pull", "issues", "unknown", "bare"}]
    \cup [kind: {"refused", "text"}]

(* A change of one path, or a rename (from # to).                          *)
Ends(changes) == UNION {{ch.from, ch.to} : ch \in changes}

ASSUME HubAssumption ==
  /\ Hub \in [Label -> {"pull", "issue"}]
  /\ Links \in [Label -> Seq(Label)]
  /\ MaxFetches \in Nat
ASSUME SubjectsAssumption ==
  \A s \in Subjects :
    /\ s.sources \in Seq(Token)
    /\ s.origin \in BOOLEAN              \* origin is a github.com remote
    /\ s.baseline \in {"omitted", "refused", "known"}
    /\ s.ahead \in BOOLEAN               \* HEAD is past the default branch
    /\ s.parent \in BOOLEAN              \* HEAD has a parent

VARIABLES
  subject,          \* what this capture was asked for, or None
  at,               \* the capture's next call, "idle" or "done"
  tickets,          \* resolveSpecSources
  change            \* the rest of buildReviewMaterial

mvars == <<subject, at, tickets, change>>

(* words and links: what is left of specSources and of the issues of the   *)
(* pull request read last; queue: the references still to be fetched.      *)
NoTickets ==
  [text |-> "none", words |-> <<>>, links |-> <<>>, queue |-> <<>>, seen |-> {},
   fetches |-> 0, read |-> {}, notes |-> {}]

NoChange ==
  [available |-> FALSE, baseline |-> None, withheld |-> {}, paired |-> TRUE, shown |-> {}]

MaterialInit ==
  /\ Init
  /\ subject = None
  /\ at = "idle"
  /\ tickets = NoTickets
  /\ change = NoChange

(***************************************************************************)
(* The tickets.                                                            *)
(***************************************************************************)
(* parseSpecRef: a bare #n needs the origin remote.                        *)
Valid(t, origin) == t.kind \notin {"refused", "text"} /\ (t.kind = "bare" => origin)

(* The value is a list of references if every word of it tries to be one.  *)
Start ==
  /\ Capturing /\ at = "idle"
  /\ \E s \in Subjects :
       LET isText == \E i \in DOMAIN s.sources : s.sources[i].kind = "text"
       IN  /\ subject' = s
           /\ \/ s.sources = <<>> /\ tickets' = NoTickets
              \/ isText /\ tickets' = [NoTickets EXCEPT !.text = "literal"]
              \/ /\ s.sources # <<>> /\ ~isText
                 /\ tickets' = [NoTickets EXCEPT !.text = "fetched", !.words = s.sources]
  /\ at' = "tickets"
  /\ UNCHANGED change

ParseWord ==
  /\ at = "tickets" /\ tickets.words # <<>>
  /\ LET t == Head(tickets.words) IN
     \/ /\ Valid(t, subject.origin)
        /\ tickets' = [tickets EXCEPT !.words = Tail(@), !.queue = Append(@, t)]
     \/ /\ ~Valid(t, subject.origin)
        /\ tickets' = [tickets EXCEPT !.words = Tail(@), !.notes = @ \cup {"refused"}]
  /\ UNCHANGED <<subject, at, change>>

(* The issues a pull request names are put at the end of the queue, but    *)
(* for those already taken from it.                                        *)
FollowLink ==
  /\ at = "tickets" /\ tickets.links # <<>>
  /\ LET l == Head(tickets.links) IN
     \/ /\ l \in tickets.seen
        /\ tickets' = [tickets EXCEPT !.links = Tail(@)]
     \/ /\ l \notin tickets.seen
        /\ tickets' = [tickets EXCEPT !.links = Tail(@),
                                      !.queue = Append(@, [label |-> l, kind |-> "issues"])]
  /\ UNCHANGED <<subject, at, change>>

Drained == at = "tickets" /\ tickets.words = <<>> /\ tickets.links = <<>>
Fetching == Drained /\ tickets.queue # <<>>
Ref == Head(tickets.queue)

SkipSeen ==
  /\ Fetching /\ Ref.label \in tickets.seen
  /\ tickets' = [tickets EXCEPT !.queue = Tail(@)]
  /\ UNCHANGED <<subject, at, change>>

(* Variant: beyond the cap a reference is dropped without a word.          *)
CapUnsaid(notes) == notes

CapReported(notes) == notes \cup {"stopped"}

StopAtCap ==
  /\ Fetching /\ Ref.label \notin tickets.seen
  /\ tickets.fetches >= MaxFetches
  /\ tickets' = [tickets EXCEPT !.queue = Tail(@), !.notes = CapReported(@)]
  /\ UNCHANGED <<subject, at, change>>

(* The gh command that may answer: a reference that does not say what it   *)
(* is gets pr view and then issue view.                                    *)
Answers(ref) ==
  CASE Hub[ref.label] = "pull"  /\ ref.kind # "issues" -> {"pr"}
    [] Hub[ref.label] = "issue" /\ ref.kind # "pull"   -> {"issue"}
    [] OTHER -> {}

Fetch ==
  /\ Fetching /\ Ref.label \notin tickets.seen
  /\ tickets.fetches < MaxFetches
  /\ \E tool \in Answers(Ref) \cup {None} :
       tickets' = [tickets EXCEPT
         !.queue = Tail(@),
         !.links = IF tool = "pr" THEN Links[Ref.label] ELSE <<>>,
         !.seen = @ \cup {Ref.label},
         !.fetches = @ + 1,
         !.read = IF tool = None THEN @ ELSE @ \cup {Ref.label},
         !.notes = IF tool = None THEN @ \cup {"not fetched"} ELSE @]
  /\ UNCHANGED <<subject, at, change>>

(* specSourceStatus.                                                       *)
SourcesResolved ==
  \/ tickets.text = "literal"
  \/ tickets.text = "fetched" /\ tickets.read # {} /\ tickets.notes = {}

(***************************************************************************)
(* The change.  Any git call may fail, and all but one failure ends the    *)
(* capture.                                                                *)
(***************************************************************************)
Unavailable ==
  /\ at' = "done"
  /\ UNCHANGED <<subject, tickets, change>>

(* deriveBaseline, or the caller's revision once it is known to name a     *)
(* commit.                                                                 *)
Baselines ==
  CASE subject.baseline = "known" -> {"caller"}
    [] subject.baseline = "refused" -> {}
    [] OTHER -> {rule \in {"merge-base", "previous-commit"} :
                   IF rule = "merge-base" THEN subject.ahead ELSE subject.parent}

PickBaseline ==
  /\ Drained /\ tickets.queue = <<>>
  /\ \/ \E rule \in Baselines :
          /\ change' = [change EXCEPT !.baseline = rule]
          /\ at' = "withheld"
          /\ UNCHANGED <<subject, tickets>>
     \/ Unavailable

Withhold ==
  /\ at = "withheld"
  /\ \/ /\ change' = [change EXCEPT !.withheld = Ends(subject.changes) \cap Denied]
        /\ at' = "renames"
        /\ UNCHANGED <<subject, tickets>>
     \/ Unavailable

(* The other name of a denied path that was renamed.                       *)
Counterparts(paths) ==
  Ends({ch \in subject.changes : {ch.from, ch.to} \cap paths # {}}) \ paths

(* renameCounterparts, if there is anything to pair; its git call failing  *)
(* counts as no renames.                                                   *)
PairRenames ==
  /\ at = "renames"
  /\ \/ change' = [change EXCEPT !.withheld = @ \cup Counterparts(@)]
     \/ change.withheld # {} /\ change' = [change EXCEPT !.paired = FALSE]
  /\ at' = "diff"
  /\ UNCHANGED <<subject, tickets>>

ReadChange ==
  /\ at = "diff"
  /\ \/ /\ change' = [change EXCEPT !.available = TRUE,
                                    !.shown = Ends(subject.changes) \ change.withheld]
        /\ at' = "done"
        /\ UNCHANGED <<subject, tickets>>
     \/ Unavailable

(***************************************************************************)
(* The step: the capture takes place in the turn that begins and settles   *)
(* it; without a directory of the step's own there is none.                *)
(***************************************************************************)
NoDirectory ==
  /\ Capturing
  /\ at = "idle"
  /\ Unavailable

CaptureStep ==
  \/ /\ \/ Start \/ NoDirectory
        \/ ParseWord \/ FollowLink \/ SkipSeen \/ StopAtCap \/ Fetch
        \/ PickBaseline \/ Withhold \/ PairRenames \/ ReadChange
     /\ UNCHANGED vars
  \/ /\ at = "done"
     /\ Capture(change.available)
     /\ at' = "idle"
     /\ UNCHANGED <<subject, tickets, change>>

MaterialNext ==
  \/ CaptureStep
  \/ at = "idle" /\ (Event \/ CaptureThrows) /\ UNCHANGED mvars

MaterialSpec ==
  /\ MaterialInit
  /\ [][MaterialNext]_<<vars, mvars>>
  /\ EventFairness
  /\ WF_<<vars, mvars>>(CaptureStep \/ (at = "idle" /\ CaptureThrows /\ UNCHANGED mvars))

(***************************************************************************)
(* Properties.                                                             *)
(***************************************************************************)
(* Material that says its spec sources are resolved has read every         *)
(* reference the caller named and every issue the pull requests it read    *)
(* name: one refused, failed, or left over at the cap is said.             *)
ResolvedIsRead ==
  tickets.text = "fetched" /\ at \notin {"idle", "tickets"} /\ SourcesResolved =>
    /\ \A i \in DOMAIN subject.sources :
         /\ subject.sources[i].kind # "refused"
         /\ subject.sources[i].label \in tickets.read
    /\ \A r \in tickets.read : Hub[r] = "pull" => \A i \in DOMAIN Links[r] : Links[r][i] \in tickets.read

(* Available material shows every changed path or names it as withheld,    *)
(* and no path whose rename has a denied name at its other end is shown    *)
(* (where git could tell the renames).                                     *)
WithheldIsNamed ==
  change.available =>
    /\ change.shown \cap change.withheld = {}
    /\ change.shown \cup change.withheld = Ends(subject.changes)
    /\ change.paired =>
         \A ch \in subject.changes :
           {ch.from, ch.to} \cap Denied # {} => {ch.from, ch.to} \subseteq change.withheld

(* A reviewer is never told that the material is complete when it is not:  *)
(* neither of the tickets nor of the diff (ResolvedIsRead, WithheldIsNamed). *)
MaterialIsHonest == ResolvedIsRead /\ WithheldIsNamed

=============================================================================
