------------------------------ MODULE RunTools ------------------------------
(***************************************************************************)
(* What the MCP tools tell a chat about a run, by the daemon or, when none *)
(* answers, by what the run has left on disk (bindings/mastra/             *)
(* daemonTools.ts), and the stage an artifact is sent to                   *)
(* (src/runtime/entryPoint.ts): functions of the state of ArtifactChain.   *)
(*                                                                         *)
(* Abstracted: everything of an answer but its status, the pipeline and    *)
(* the place of the events file; the directory listing, whose order is     *)
(* left open.                                                              *)
(***************************************************************************)
EXTENDS ArtifactChain

(* The pipeline that takes an approved spec asks for a plan and nothing    *)
(* else (pipelines/develop.yaml).                                          *)
ASSUME DevelopAssumption ==
  /\ "develop" \in Stage
  /\ Pipeline["develop"].inputs \subseteq {"plan"} \cup Pipeline["develop"].optional

(* No kind of input given is none of the kinds there are.                  *)
Kind == {"feature-request", "task-description", "review-request"}
ASSUME KindAssumption == None \notin Kind

---------------------------------------------------------------------------
(* With a daemon.                                                          *)

(* logLocation: the directory and pipeline of a run's events file.         *)
LogLocation(r) ==
  IF r \in Live THEN <<record[r].dir, record[r].stage>>
  ELSE IF Published(r) # {} THEN <<r, Picked(r)>> ELSE None

---------------------------------------------------------------------------
(* Without one.                                                            *)

(* The events files of a directory: openRunLog creates one as a run of the *)
(* stage starts there.                                                     *)
EventsFiles(d) == {history[r].stage : r \in {q \in Run : history[q] # None /\ history[q].dir = d}}

(* readRunFromDisk: the pipeline, by the name of an events file, whichever *)
(* the directory lists first.                                              *)
Described(r) == EventsFiles(r)

(* Variant: the manifest is asked first.                                   *)
ManifestFirst(d, s) ==
  IF manifest[d] \notin {None, Torn} /\ manifest[d][s] # None THEN manifest[d][s].status
  ELSE IF s \in Published(d) THEN file[d][s].status ELSE None

(* The status the artifact or else the manifest gives.                     *)
LastRecorded(d, s) ==
  IF s \in Published(d) THEN file[d][s].status
  ELSE IF manifest[d] \notin {None, Torn} /\ manifest[d][s] # None THEN manifest[d][s].status
  ELSE None

(* lastPersistedStatusOf: nobody advances what was running or waiting.     *)
LastPersistedStatus(d, s) ==
  IF LastRecorded(d, s) \in {None, "running", "awaiting_approval"} THEN "orphaned"
  ELSE LastRecorded(d, s)

(* get_run and get_run_events without a daemon: the status is unknown, and *)
(* this is what was persisted last.                                        *)
ToldByDisk(r) == {LastPersistedStatus(r, s) : s \in Described(r)}

---------------------------------------------------------------------------
(* Where an input is sent.                                                 *)

(* The fields of an artifact that the entry point looks for.               *)
Fields(a) == {"gateDecisions"} \cup IF a.spec = "none" THEN {} ELSE {"spec"}

(* decideEntryPoint: an explicit kind decides, else the form of the input: *)
(* a path, whose file may be missing or JSON, or free text.                *)
DecideEntryPoint(input) ==
  CASE input.kind = "feature-request" -> "investigate"
    [] input.kind = "task-description" -> "develop"
    [] input.kind = "review-request" -> "codeReview"
    [] input.kind \notin Kind \cup {None} -> "error"
    [] input.kind = None /\ input.form = "missing file" -> "error"
    [] input.kind = None /\ input.form = "file" ->
         IF /\ ~({"spec", "gateDecisions"} \subseteq input.fields)
            /\ input.fields \cap {"findings", "plan"} # {}
         THEN "specCreation" ELSE "develop"
    [] input.kind = None /\ input.form = "asks for a review" -> "codeReview"
    [] input.kind = None /\ input.form = "free text" -> "investigate"

SentTo(a) == DecideEntryPoint([kind |-> None, form |-> "file", fields |-> Fields(a)])

---------------------------------------------------------------------------
(* Properties.                                                             *)

Alone(r) == \A q \in Run \ {r} : history[q] # None => history[q].dir # r

(* The readers of a run's directory agree.  What get_run says of a run     *)
(* while no daemon answers is what a restarted one would say, or           *)
(* "orphaned" where that would be a run that still advances or waits; and  *)
(* if it says the run has ended, so it has.  The events file a restarted   *)
(* daemon serves is the run's own, whatever was chained into its directory.*)
(* An artifact that waits at its gate is sent to a stage that accepts it   *)
(* (lastPersistedStatusOf, readPersistedRun, logLocation,                  *)
(* decideEntryPoint, resolveArtifactInputs).  Where stages were chained    *)
(* into the directory the first of them may describe another stage.        *)
ReadersAgree ==
  /\ \A r \in Run :
       history[r] # None /\ history[r].dir = r =>
         /\ Alone(r) => \A told \in ToldByDisk(r) :
              /\ told = IF Restored(r) \in Terminal THEN Restored(r) ELSE "orphaned"
              /\ told # "orphaned" => told = history[r].status
         /\ Sole(r) /\ LogLocation(r) # None => LogLocation(r) = <<r, history[r].stage>>
  /\ \A d \in Run : \A s \in Published(d) :
       file[d][s].status = "awaiting_approval" =>
         Accepts(file[d][s], SentTo(file[d][s]), {})
=============================================================================
