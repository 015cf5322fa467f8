---------------------------- MODULE ArtifactChain ----------------------------
(***************************************************************************)
(* What a run leaves on disk and what later stages and a restarted daemon  *)
(* make of it (src/runtime/artifactStore.ts, src/serve/artifactInputs.ts   *)
(* and the persistence half of src/runtime/runService.ts).                 *)
(*                                                                         *)
(* A run writes one artifact, named after its pipeline, and one entry of   *)
(* manifest.json into its directory: its own, or, when it was started from *)
(* another run's artifact, the directory of that artifact.  Every stage of *)
(* a chain therefore reads, changes and writes the same manifest, and so   *)
(* does the export step in the middle of a run.  The daemon may crash      *)
(* between any two of these steps; what it knew of its runs is then lost   *)
(* and only the files remain.                                              *)
(*                                                                         *)
(* Abstracted: texts, provenance apart from the time of settlement, and    *)
(* the order of the manifest's entries.  A clock that every snapshot       *)
(* advances stands for the timestamps.                                     *)
(***************************************************************************)
EXTENDS Naturals, FiniteSets

CONSTANTS
  Run,         \* run ids; a run's own directory has its id as name
  Anchor,      \* bound: the runs that are started without an artifact
  Outcome,     \* bound: how the engine lets a workflow end
  Pipeline,    \* pipeline id -> [inputs, optional, gate, exports, results]
  MaxCrashes,  \* bound: crashes of the daemon
  MaxFaults,   \* bound: failing disk writes
  None,
  Torn         \* a file that does not parse

Stage == DOMAIN Pipeline

ASSUME BoundsAssumption ==
  /\ Anchor \subseteq Run
  /\ Outcome \subseteq {"succeeded", "failed", "rejected"}
  /\ MaxCrashes \in Nat /\ MaxFaults \in Nat

ASSUME PipelineAssumption ==
  \A s \in Stage :
    /\ Pipeline[s].optional \subseteq Pipeline[s].inputs
    /\ {Pipeline[s].gate, Pipeline[s].exports} \subseteq BOOLEAN
    /\ Pipeline[s].exports => Pipeline[s].gate
    /\ Pipeline[s].results \subseteq {"findings"}

VARIABLES
  record,   \* the registry: run -> what the daemon knows of it, or None
  writer,   \* run -> where its chain of artifact writes is
  exporter, \* run -> the manifest its export step is about to write
  file,     \* directory -> stage -> the artifact on disk, or None
  manifest, \* directory -> None, or stage -> its entry or None
  clock,    \* time of the latest snapshot
  crashes, faults,
  history,  \* run -> None, or its stage, directory, status, and the status
            \* its artifact was last published with
  mixed     \* history: directories in which two read-modify-writes of the
            \* manifest met, or a crash or a failing disk cut one short
vars == <<record, writer, exporter, file, manifest, clock, crashes, faults,
          history, mixed>>

Terminal == {"succeeded", "failed", "rejected", "cancelled"}
Status == {"running", "awaiting_approval"} \cup Terminal

RunRecord == [stage : Stage, dir : Run, status : Status, gatePassed : BOOLEAN,
              exported : BOOLEAN, pending : 0..2]
Artifact == [run : Run, status : Status, spec : {"none", "hardened"},
             result : {None} \cup SUBSET {"findings"}, settledAt : Nat]
Entry == [status : Status, specSource : BOOLEAN]
Manifest == [Stage -> Entry \cup {None}]
Past == [stage : Stage, dir : Run, status : Status, saved : Status \cup {None}]

(* None and Torn are told apart from what a file or a variable holds.      *)
ASSUME MarkersAssumption ==
  /\ None \notin RunRecord \cup Past
  /\ {None, Torn} \cap (Status \cup {"unreadable"}) = {}
  /\ None # Torn
  /\ \A marker \in {None, Torn} :
       marker \notin Artifact /\ marker \notin Entry /\ marker \notin Manifest

Idle == [at |-> "idle"]
WriterState == [at : {"idle", "upsert"}] \cup [at : {"artifact"}, data : Artifact]
                 \cup [at : {"manifest"}, data : Manifest]
ExporterState == {Idle} \cup [at : {"manifest"}, data : Manifest]

---------------------------------------------------------------------------
(* Reading.                                                                *)

(* The run's state as get() gives it: the spec only while it waits at a    *)
(* gate, the result only once it succeeded.                                *)
Snapshot(r) ==
  LET rec == record[r] IN
  [run |-> r, status |-> rec.status,
   spec |-> IF rec.status = "awaiting_approval" THEN "hardened" ELSE "none",
   result |-> IF rec.status = "succeeded"
              THEN Pipeline[rec.stage].results ELSE None,
   settledAt |-> clock + 1]

Published(d) == {s \in Stage : file[d][s] \notin {None, Torn}}

(* Variant: the latest settlement describes the directory.                 *)
PickedLatest(d) ==
  CHOOSE s \in Published(d) :
    \A t \in Published(d) : file[d][t].settledAt <= file[d][s].settledAt

(* pickArtifact: the run's own artifact, else the one settled last.        *)
Picked(d) ==
  LET own == {s \in Published(d) : file[d][s].run = d}
      latest == {s \in Published(d) : \A t \in Published(d) :
                   file[d][t].settledAt <= file[d][s].settledAt}
  IN CHOOSE s \in Published(d) :
       s \in IF own # {} THEN own ELSE latest

(* readPersistedRun: what GET /api/runs/:id answers for a run the registry *)
(* does not know.                                                          *)
Restored(r) ==
  IF Published(r) # {} THEN file[r][Picked(r)].status
  ELSE IF \E s \in Stage : file[r][s] = Torn THEN "unreadable" ELSE None

(* deriveChainStatus                                                       *)
DeriveChainStatus(statuses) ==
  IF statuses \cap {"failed", "rejected"} # {} THEN "failed"
  ELSE IF "cancelled" \in statuses THEN "cancelled"
  ELSE IF statuses = {"succeeded"} THEN "completed" ELSE "in-progress"

Recorded(m) == {s \in Stage : m[s] # None}

(* Variant: the manifest as it is.                                         *)
ReadUnreconciled(d) == manifest[d]

(* readManifest: the recorded entries, and the artifacts in the directory  *)
(* that have none.                                                         *)
ReadManifest(d) ==
  [s \in Stage |->
     IF manifest[d][s] # None THEN manifest[d][s]
     ELSE IF s \in Published(d)
          THEN [status |-> file[d][s].status, specSource |-> FALSE]
          ELSE None]

ChainStatus(d) ==
  LET m == ReadManifest(d) IN
  DeriveChainStatus({m[s].status : s \in Recorded(m)})

---------------------------------------------------------------------------
(* Handing an artifact to the next stage.                                  *)

(* What a declared input finds in the artifact: a string, nothing, or      *)
(* something no string can be made of (ARTIFACT_INPUT_FIELDS: plan is read *)
(* from spec, findings from result).                                       *)
Held(a, input) ==
  CASE input = "plan" -> IF a.spec = "none" THEN "absent" ELSE "string"
    [] input = "findings" ->
         IF a.result = None THEN "absent"
         ELSE IF input \in a.result THEN "string" ELSE "unusable"
    [] OTHER -> "absent"

(* resolveArtifactInputs: the artifact is settled or at a gate, and every  *)
(* declared input is held, optional or given by the caller.                *)
Accepts(a, s, explicit) ==
  /\ a.status \in {"succeeded", "awaiting_approval", "failed", "rejected"}
  /\ \A i \in Pipeline[s].inputs :
       \/ Held(a, i) = "string"
       \/ Held(a, i) = "absent" /\ i \in Pipeline[s].optional \cup explicit

---------------------------------------------------------------------------
(* Runs.                                                                   *)

Live == {r \in Run : record[r] # None}
InDir(d) == {r \in Live : record[r].dir = d}
Writing(r) == writer[r] # Idle \/ (r \in Live /\ record[r].pending > 0)
Busy(r) == Writing(r) \/ exporter[r] # Idle

Init ==
  /\ record = [r \in Run |-> None]
  /\ writer = [r \in Run |-> Idle]
  /\ exporter = [r \in Run |-> Idle]
  /\ file = [d \in Run |-> [s \in Stage |-> None]]
  /\ manifest = [d \in Run |-> None]
  /\ clock = 0
  /\ crashes = 0
  /\ faults = 0
  /\ history = [r \in Run |-> None]
  /\ mixed = {}

disk == <<file, manifest, clock>>
work == <<writer, exporter>>
bounds == <<crashes, faults>>

Enters(r, s, d) ==
  /\ history[r] = None
  /\ record' = [record EXCEPT ![r] =
       [stage |-> s, dir |-> d, status |-> "running", gatePassed |-> FALSE,
        exported |-> FALSE, pending |-> 0]]
  /\ history' = [history EXCEPT ![r] =
       [stage |-> s, dir |-> d, status |-> "running", saved |-> None]]
  /\ UNCHANGED <<work, disk, bounds>>

(* POST /api/runs without an artifact.                                     *)
Start(r, s) ==
  /\ r \in Anchor
  /\ Enters(r, s, r)
  /\ UNCHANGED mixed

(* POST /api/runs with artifactPath: the directory of the artifact becomes *)
(* the directory of the run.                                               *)
Chain(r, s, d, from) ==
  /\ from \in Published(d)
  /\ \E explicit \in SUBSET Pipeline[s].inputs :
       Accepts(file[d][from], s, explicit)
  /\ Enters(r, s, d)
  /\ mixed' = IF \E q \in InDir(d) : record[q].status \notin Terminal \/ Busy(q)
              THEN mixed \cup {d} ELSE mixed

(* The run suspends at its gate; afterSettlement persists it.              *)
Suspend(r) ==
  /\ r \in Live
  /\ record[r].status = "running"
  /\ Pipeline[record[r].stage].gate
  /\ ~record[r].gatePassed
  /\ record' = [record EXCEPT ![r].status = "awaiting_approval",
                              ![r].pending = @ + 1]
  /\ history' = [history EXCEPT ![r].status = "awaiting_approval"]
  /\ UNCHANGED <<work, disk, bounds, mixed>>

(* approve(): the answer resumes the workflow and persists nothing.        *)
Approve(r) ==
  /\ r \in Live
  /\ record[r].status = "awaiting_approval"
  /\ record' = [record EXCEPT ![r].status = "running", ![r].gatePassed = TRUE]
  /\ history' = [history EXCEPT ![r].status = "running"]
  /\ UNCHANGED <<work, disk, bounds, mixed>>

Ends(r, status) ==
  /\ record' = [record EXCEPT ![r].status = status, ![r].pending = @ + 1]
  /\ history' = [history EXCEPT ![r].status = status]
  /\ UNCHANGED <<work, disk, bounds>>

(* The workflow ends, after the gate and the export if it succeeded.       *)
End(r, status) ==
  /\ r \in Live
  /\ record[r].status = "running"
  /\ exporter[r] = Idle
  /\ status = "rejected" => record[r].gatePassed
  /\ status = "succeeded" =>
       /\ Pipeline[record[r].stage].gate => record[r].gatePassed
       /\ Pipeline[record[r].stage].exports => record[r].exported
  /\ Ends(r, status)
  /\ UNCHANGED mixed

(* cancel(), at a gate or while running: it does not wait for an export    *)
(* step that is under way.                                                 *)
Cancel(r) ==
  /\ r \in Live
  /\ record[r].status \in {"running", "awaiting_approval"}
  /\ Ends(r, "cancelled")
  /\ mixed' = IF exporter[r] # Idle THEN mixed \cup {record[r].dir} ELSE mixed

---------------------------------------------------------------------------
(* Writing.  Both files are written to a temporary sibling and renamed.    *)

(* What opening the file for its new content does to the old one: nothing, *)
(* the temporary sibling has another name.                                 *)
Opened(old) == old

(* persistArtifact, the writes of one run chained by beginPersist: take    *)
(* the run's state, open the artifact.                                     *)
TakeSnapshot(r) ==
  /\ r \in Live
  /\ record[r].pending > 0
  /\ writer[r] = Idle
  /\ record' = [record EXCEPT ![r].pending = @ - 1]
  /\ writer' = [writer EXCEPT ![r] = [at |-> "artifact", data |-> Snapshot(r)]]
  /\ clock' = clock + 1
  /\ file' = [file EXCEPT ![record[r].dir][record[r].stage] = Opened(@)]
  /\ UNCHANGED <<exporter, manifest, bounds, history, mixed>>

PublishArtifact(r) ==
  /\ writer[r].at = "artifact"
  /\ file' = [file EXCEPT ![record[r].dir][record[r].stage] = writer[r].data]
  /\ writer' = [writer EXCEPT ![r] = [at |-> "upsert"]]
  /\ history' = [history EXCEPT ![r].saved = writer[r].data.status]
  /\ UNCHANGED <<record, exporter, manifest, clock, bounds, mixed>>

(* The manifest as read, or a fresh one.                                   *)
Found(d) ==
  IF manifest[d] \in {None, Torn} THEN [s \in Stage |-> None] ELSE manifest[d]

(* Variant: a straight replace.                                            *)
MergedPlain(m, s, status) ==
  [m EXCEPT ![s] = [status |-> status, specSource |-> FALSE]]

(* upsertManifestEntry: the entry of this stage replaces the one before    *)
(* it, but a recorded source of the spec survives.                         *)
Merged(m, s, status) ==
  [m EXCEPT ![s] = [status |-> status,
                    specSource |-> @ # None /\ @.specSource]]

(* The entry holds the status the run has by now, not the artifact's.      *)
MergeEntry(r) ==
  LET d == record[r].dir  s == record[r].stage IN
  /\ writer[r].at = "upsert"
  /\ writer' = [writer EXCEPT ![r] =
       [at |-> "manifest", data |-> Merged(Found(d), s, record[r].status)]]
  /\ manifest' = [manifest EXCEPT ![d] = Opened(@)]
  /\ UNCHANGED <<record, exporter, file, clock, bounds, history, mixed>>

PublishManifest(r) ==
  /\ writer[r].at = "manifest"
  /\ manifest' = [manifest EXCEPT ![record[r].dir] = writer[r].data]
  /\ writer' = [writer EXCEPT ![r] = Idle]
  /\ UNCHANGED <<record, exporter, file, clock, bounds, history, mixed>>

(* A write fails: reported, the temporary file removed, nothing else done. *)
WriteFails(r) ==
  /\ faults < MaxFaults
  /\ writer[r].at \in {"artifact", "manifest"}
  /\ writer' = [writer EXCEPT ![r] = Idle]
  /\ faults' = faults + 1
  /\ mixed' = mixed \cup {record[r].dir}
  /\ UNCHANGED <<record, exporter, disk, crashes, history>>

(* recordManifestSpecSource, called by the export step: reads the manifest *)
(* and, if the stage has its entry, notes the source there; otherwise the  *)
(* source goes unrecorded.                                                 *)
ExportReads(r) ==
  LET d == record[r].dir  s == record[r].stage IN
  /\ r \in Live
  /\ record[r].status = "running"
  /\ record[r].gatePassed
  /\ Pipeline[s].exports
  /\ ~record[r].exported
  /\ exporter[r] = Idle
  /\ mixed' = IF Writing(r) THEN mixed \cup {d} ELSE mixed
  /\ IF Found(d)[s] # None
     THEN /\ exporter' = [exporter EXCEPT ![r] =
               [at |-> "manifest",
                data |-> [manifest[d] EXCEPT ![s].specSource = TRUE]]]
          /\ manifest' = [manifest EXCEPT ![d] = Opened(@)]
          /\ UNCHANGED record
     ELSE /\ record' = [record EXCEPT ![r].exported = TRUE]
          /\ UNCHANGED <<exporter, manifest>>
  /\ UNCHANGED <<writer, file, clock, bounds, history>>

ExportWrites(r) ==
  /\ exporter[r] # Idle
  /\ manifest' = [manifest EXCEPT ![record[r].dir] = exporter[r].data]
  /\ exporter' = [exporter EXCEPT ![r] = Idle]
  /\ record' = [record EXCEPT ![r].exported = TRUE]
  /\ UNCHANGED <<writer, file, clock, bounds, history, mixed>>

(* The daemon dies: the registry and everything under way is gone.         *)
Crash ==
  /\ crashes < MaxCrashes
  /\ Live # {}
  /\ crashes' = crashes + 1
  /\ record' = [r \in Run |-> None]
  /\ writer' = [r \in Run |-> Idle]
  /\ exporter' = [r \in Run |-> Idle]
  /\ mixed' = mixed \cup {record[r].dir : r \in {q \in Live : Busy(q)}}
  /\ UNCHANGED <<disk, faults, history>>

RunStep(r) ==
  \/ \E s \in Stage : Start(r, s)
  \/ \E s, from \in Stage, d \in Run : Chain(r, s, d, from)
  \/ Suspend(r) \/ Approve(r) \/ Cancel(r)
  \/ \E status \in Outcome : End(r, status)
  \/ TakeSnapshot(r) \/ PublishArtifact(r)
  \/ MergeEntry(r) \/ PublishManifest(r) \/ WriteFails(r)
  \/ ExportReads(r) \/ ExportWrites(r)

Next == Crash \/ \E r \in Run : RunStep(r)

Spec == Init /\ [][Next]_vars

---------------------------------------------------------------------------
(* Properties.                                                             *)

(* The only run of its stage in its directory: a stage started again in    *)
(* the same chain replaces the artifact of the one before it.              *)
Sole(r) ==
  \A q \in Run \ {r} :
    history[q] # None =>
      <<history[q].dir, history[q].stage>> # <<history[r].dir, history[r].stage>>

(* Every variable has its type.  In particular a reader finds no artifact  *)
(* and no manifest half written, wherever the daemon dies ("a reader only  *)
(* ever sees a complete file", writeJsonAtomic).                           *)
TypeOK ==
  /\ record \in [Run -> RunRecord \cup {None}]
  /\ history \in [Run -> Past \cup {None}]
  /\ writer \in [Run -> WriterState]
  /\ exporter \in [Run -> ExporterState]
  /\ file \in [Run -> [Stage -> Artifact \cup {None}]]
  /\ manifest \in [Run -> Manifest \cup {None}]
  /\ clock \in Nat
  /\ mixed \subseteq Run

(* A chain is never reported completed while a stage that left an artifact *)
(* has not succeeded: a stage that lost its manifest entry to another      *)
(* writer, a crash or a failing disk is found again by its artifact        *)
(* (readManifest), and no stale entry ever says more than was true.        *)
CompletedIsTrue ==
  \A d \in Run :
    manifest[d] # None /\ ChainStatus(d) = "completed" =>
      \A r \in Run :
        history[r] # None /\ history[r].dir = d /\ history[r].saved # None
          /\ Sole(r) => history[r].status = "succeeded"

(* When the stages of a chain follow one another, the manifest ends up     *)
(* saying what the artifacts say, and names the source of every exported   *)
(* spec, although the settlement that overwrites the entry knows nothing   *)
(* of it (upsertManifestEntry, recordManifestSpecSource).                  *)
ManifestAgrees ==
  \A d \in Run \ mixed :
    (\A r \in Run : history[r] # None /\ history[r].dir = d =>
       history[r].status \in Terminal /\ r \in Live /\ ~Busy(r)) =>
    \A s \in Published(d) :
      /\ manifest[d] # None /\ manifest[d][s] # None
      /\ manifest[d][s].status = file[d][s].status
      /\ Pipeline[s].exports /\ file[d][s].status = "succeeded" =>
           manifest[d][s].specSource

(* A daemon that was restarted describes a run by the last artifact that   *)
(* run published, whatever the stages chained into its directory have      *)
(* written since (pickArtifact).                                           *)
OwnRunIsRestored ==
  \A r \in Run :
    history[r] # None /\ history[r].dir = r /\ history[r].saved # None
      /\ Sole(r) => Restored(r) = history[r].saved

(* "plan <- artifact.spec (spec-creation outputs spec; build/audit/develop *)
(* read it as plan)", rendered to what "the human approved at the gate"    *)
(* (artifactInputs.ts): the artifact of a run whose spec was approved, and *)
(* which then succeeded, supplies the plan of the next stage.              *)
ApprovedSpecIsHandedOn ==
  \A d \in Run : \A s \in Published(d) :
    Pipeline[s].gate /\ file[d][s].status = "succeeded" =>
      Held(file[d][s], "plan") = "string"
=============================================================================
