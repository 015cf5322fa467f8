------------------------- MODULE ArtifactChainProofs -------------------------
(***************************************************************************)
(* What holds of the files of any number of runs, chained in any way over  *)
(* any pipelines, with any number of crashes and failing disks: their      *)
(* types, what a restarted daemon tells, that a completed chain has        *)
(* succeeded, that the readers of a directory agree, and that the manifest *)
(* agrees with the artifacts once the stages have followed one another.    *)
(*                                                                         *)
(* The argument has two parts.  DiskFacts says what is true of every file, *)
(* whoever writes what in which order: an artifact was published by a run  *)
(* of its stage in its directory and tells the truth about its end, and a  *)
(* manifest, on disk or about to be written, has no entry without an       *)
(* artifact and no success that was not.  OrderInv follows the one run     *)
(* that moves or writes in a directory where no two ever met.              *)
(***************************************************************************)
EXTENDS RunTools, TLAPS

(* What the daemon knows of a run is what the run has been through, and    *)
(* only a run it knows has work under way.  A run is persisted at its gate *)
(* and at its end.                                                         *)
MirrorsOf(rec, past, w, x) ==
  /\ rec = None => w = Idle /\ x = Idle
  /\ rec # None =>
       /\ past # None
       /\ rec.stage = past.stage /\ rec.dir = past.dir /\ rec.status = past.status
       /\ rec.status \notin Terminal => rec.pending <= 1
       /\ rec.status = "running" /\ ~rec.gatePassed => rec.pending = 0

Mirrors == \A r \in Run : MirrorsOf(record[r], history[r], writer[r], exporter[r])

(* What is on disk is true.                                                *)

(* An artifact that tells of the end of its run tells the truth.           *)
Tells(past, r, a) ==
  /\ a.run = r
  /\ a.status \in Terminal => past.status = a.status
  /\ a.status = "awaiting_approval" => a.spec = "hardened" /\ a.result = None

FileTrue(h, d, s, a) ==
  a # None =>
    /\ h[a.run] # None
    /\ h[a.run].dir = d /\ h[a.run].stage = s /\ h[a.run].saved = a.status
    /\ Tells(h[a.run], a.run, a)

FilesTrue == \A d \in Run, s \in Stage : FileTrue(history, d, s, file[d][s])

WriterTrue(r, past, w) ==
  /\ w.at = "artifact" => Tells(past, r, w.data)
  /\ w.at \in {"upsert", "manifest"} => past # None /\ past.saved # None

WritersTrue == \A r \in Run : WriterTrue(r, history[r], writer[r])

SavedIsOnDisk ==
  \A r \in Run : history[r] # None /\ history[r].saved # None =>
    file[history[r].dir][history[r].stage] # None

Achieved(h, d, s) ==
  \E q \in Run : h[q] # None /\ h[q].dir = d /\ h[q].stage = s /\ h[q].status = "succeeded"

(* A manifest has no entry without an artifact, and no success that was not*)
Backed(h, f, d, m) ==
  \A s \in Stage : m[s] # None =>
    /\ f[d][s] # None
    /\ m[s].status = "succeeded" => Achieved(h, d, s)

ManifestsBacked ==
  /\ \A d \in Run : manifest[d] # None => Backed(history, file, d, manifest[d])
  /\ \A r \in Run :
       /\ writer[r].at = "manifest" => Backed(history, file, history[r].dir, writer[r].data)
       /\ exporter[r].at = "manifest" => Backed(history, file, history[r].dir, exporter[r].data)

(* A directory has a file only once its own run has published one.         *)
OwnFirst ==
  /\ \A r \in Run : history[r] # None /\ history[r].dir # r =>
       \E s \in Stage : file[history[r].dir][s] # None
  /\ \A d \in Run : (\E s \in Stage : file[d][s] # None) =>
       history[d] # None /\ history[d].dir = d /\ history[d].saved # None

DiskFacts == FilesTrue /\ WritersTrue /\ SavedIsOnDisk /\ ManifestsBacked /\ OwnFirst

(* The manifest of a directory whose runs follow one another.              *)

Active(r) == record[r].status \notin Terminal \/ Busy(r)

(* One run at a time moves or writes in the directory.                     *)
OneActive ==
  \A q, r \in Run :
    record[q] # None /\ record[r] # None /\ record[q].dir = record[r].dir
      /\ record[r].dir \notin mixed /\ Active(q) /\ Active(r) => q = r

(* A manifest as it is read.                                               *)
Read(m) == IF m \in {None, Torn} THEN [s \in Stage |-> None] ELSE m

(* What a run (its record, its writer w, its exporter x) may count on in   *)
(* the manifest m of its directory and its artifact a, and what it is      *)
(* about to make of them.                                                  *)
OrderlyIn(rec, w, x, m, a) ==
  LET s == rec.stage
      writing == w # Idle \/ rec.pending > 0
      settled == rec.status \in Terminal /\ rec.pending = 0 IN
  /\ x # Idle =>
       /\ rec.status = "running" /\ rec.gatePassed /\ ~writing
       /\ m[s] # None /\ x.data = [m EXCEPT ![s].specSource = TRUE]
  /\ w.at = "manifest" => \E status \in Status : w.data = Merged(m, s, status)
  /\ rec.status = "awaiting_approval" \/ rec.gatePassed => writing \/ m[s] # None
  /\ rec.exported => m[s] # None /\ m[s].specSource
  /\ rec.status = "succeeded" /\ Pipeline[s].exports => rec.exported
  /\ settled /\ w.at = "artifact" => w.data.status = rec.status
  /\ settled /\ w.at \in {"upsert", "manifest"} => a # None /\ a.status = rec.status
  /\ settled /\ w.at = "manifest" => w.data[s].status = rec.status

Orderly(r) ==
  OrderlyIn(record[r], writer[r], exporter[r], Read(manifest[record[r].dir]),
            file[record[r].dir][record[r].stage])

InOrder == \A r \in Run : record[r] # None /\ record[r].dir \notin mixed => Orderly(r)

Settled(d, s) ==
  \A r \in Run : history[r] # None /\ history[r].dir = d /\ history[r].stage = s =>
    record[r] # None /\ ~Active(r)

(* The entry e says what the artifact a of its stage says.                 *)
AgreesWith(s, e, a) ==
  a # None =>
    /\ e # None /\ e.status = a.status
    /\ Pipeline[s].exports /\ a.status = "succeeded" => e.specSource

AgreeWhenSettled ==
  \A d \in Run, s \in Stage :
    d \notin mixed /\ Settled(d, s) => AgreesWith(s, Read(manifest[d])[s], file[d][s])

OrderInv == OneActive /\ InOrder /\ AgreeWhenSettled

LEMMA NoneIsNothing ==
  /\ \A rec \in RunRecord : rec # None
  /\ \A past \in Past : past # None
  /\ \A a \in Artifact : a # None /\ a # Torn
  /\ \A e \in Entry : e # None
  /\ \A m \in Manifest : m # None /\ m # Torn
  /\ \A status \in Status : status # None
BY MarkersAssumption

LEMMA WriterLemma ==
  /\ Idle \in WriterState /\ [at |-> "upsert"] \in WriterState
  /\ \A a \in Artifact : [at |-> "artifact", data |-> a] \in WriterState
  /\ \A m \in Manifest : [at |-> "manifest", data |-> m] \in WriterState
  /\ \A w \in WriterState :
       /\ w.at \in {"idle", "upsert", "artifact", "manifest"}
       /\ w.at = "idle" <=> w = Idle
       /\ w.at = "artifact" => w.data \in Artifact
       /\ w.at = "manifest" => w.data \in Manifest
<1>1. \A w \in WriterState : w.at = "idle" <=> w = Idle
  BY DEF WriterState, Idle
<1>2. \A w \in WriterState :
       /\ w.at \in {"idle", "upsert", "artifact", "manifest"}
       /\ w.at = "artifact" => w.data \in Artifact
       /\ w.at = "manifest" => w.data \in Manifest
  BY DEF WriterState
<1>3. /\ Idle \in WriterState /\ [at |-> "upsert"] \in WriterState
      /\ \A a \in Artifact : [at |-> "artifact", data |-> a] \in WriterState
      /\ \A m \in Manifest : [at |-> "manifest", data |-> m] \in WriterState
  BY DEF WriterState, Idle
<1> QED BY <1>1, <1>2, <1>3

LEMMA ExporterLemma ==
  /\ Idle \in ExporterState
  /\ \A m \in Manifest : [at |-> "manifest", data |-> m] \in ExporterState
  /\ \A x \in ExporterState :
       /\ x.at \in {"idle", "manifest"}
       /\ x.at = "idle" <=> x = Idle
       /\ x.at = "manifest" => x.data \in Manifest
<1>1. \A x \in ExporterState :
       /\ x.at \in {"idle", "manifest"}
       /\ x.at = "idle" <=> x = Idle
       /\ x.at = "manifest" => x.data \in Manifest
  BY DEF ExporterState, Idle
<1>2. /\ Idle \in ExporterState
      /\ \A m \in Manifest : [at |-> "manifest", data |-> m] \in ExporterState
  BY DEF ExporterState, Idle
<1> QED BY <1>1, <1>2

(* What the manifest is read as.                                           *)
LEMMA FoundLemma ==
  ASSUME TypeOK, NEW d \in Run
  PROVE  /\ Found(d) \in Manifest
         /\ manifest[d] # None => Found(d) = manifest[d]
         /\ manifest[d] = None => \A s \in Stage : Found(d)[s] = None
BY NoneIsNothing DEF TypeOK, Found, Manifest

LEMMA MergedLemma ==
  ASSUME NEW m \in Manifest, NEW s \in Stage, NEW status \in Status
  PROVE  /\ Merged(m, s, status) \in Manifest
         /\ \A t \in Stage \ {s} : Merged(m, s, status)[t] = m[t]
         /\ Merged(m, s, status)[s] \in Entry
         /\ Merged(m, s, status)[s].status = status
         /\ m[s] # None => Merged(m, s, status)[s].specSource = m[s].specSource
         /\ m[s] = None => Merged(m, s, status)[s].specSource = FALSE
<1> DEFINE e == [status |-> status, specSource |-> m[s] # None /\ m[s].specSource]
<1>1. m[s] # None => m[s] \in Entry
  BY DEF Manifest
<1>2. e \in Entry
  BY <1>1 DEF Entry
<1>3. Merged(m, s, status) = [m EXCEPT ![s] = e]
  BY DEF Merged
<1>4. /\ Merged(m, s, status) \in Manifest
      /\ Merged(m, s, status)[s] = e
      /\ \A t \in Stage \ {s} : Merged(m, s, status)[t] = m[t]
  <2> HIDE DEF e
  <2> QED BY <1>2, <1>3 DEF Manifest
<1>5. m[s] # None => e.specSource = m[s].specSource
  BY <1>1 DEF Entry
<1>6. m[s] = None => e.specSource = FALSE
  OBVIOUS
<1>7. e.status = status
  OBVIOUS
<1> HIDE DEF e
<1> QED BY <1>2, <1>4, <1>5, <1>6, <1>7

(* What the export step makes of an entry.                                 *)
LEMMA MarkedLemma ==
  ASSUME NEW m \in Manifest, NEW s \in Stage, m[s] # None
  PROVE  LET marked == [m EXCEPT ![s].specSource = TRUE] IN
         /\ marked \in Manifest
         /\ \A t \in Stage \ {s} : marked[t] = m[t]
         /\ marked[s] \in Entry /\ marked[s].status = m[s].status /\ marked[s].specSource
<1> DEFINE e == [m[s] EXCEPT !.specSource = TRUE]
           marked == [m EXCEPT ![s] = e]
<1>1. m[s] \in Entry
  BY DEF Manifest
<1>2. e \in Entry /\ e.status = m[s].status /\ e.specSource
  BY <1>1 DEF Entry
<1>3. marked \in Manifest /\ marked[s] = e /\ \A t \in Stage \ {s} : marked[t] = m[t]
  <2> HIDE DEF e
  <2> QED BY <1>2 DEF Manifest
<1>4. [m EXCEPT ![s].specSource = TRUE] = marked
  OBVIOUS
<1> QED BY <1>2, <1>3, <1>4

---------------------------------------------------------------------------
(* The types.                                                              *)

LEMMA SnapshotLemma ==
  ASSUME TypeOK, NEW r \in Live
  PROVE  /\ Snapshot(r) \in Artifact
         /\ Snapshot(r).run = r /\ Snapshot(r).status = record[r].status
         /\ record[r].status = "awaiting_approval" =>
              Snapshot(r).spec = "hardened" /\ Snapshot(r).result = None
<1>1. record[r] \in RunRecord
  BY DEF TypeOK, Live
<1>2. Pipeline[record[r].stage].results \in SUBSET {"findings"} /\ clock + 1 \in Nat
  BY <1>1, PipelineAssumption DEF TypeOK, RunRecord
<1> DEFINE spec == IF record[r].status = "awaiting_approval" THEN "hardened" ELSE "none"
           result == IF record[r].status = "succeeded"
                     THEN Pipeline[record[r].stage].results ELSE None
<1>3. /\ spec \in {"none", "hardened"} /\ result \in {None} \cup SUBSET {"findings"}
      /\ record[r].status \in Status
  BY <1>1, <1>2 DEF RunRecord
<1>4. Snapshot(r) = [run |-> r, status |-> record[r].status, spec |-> spec, result |-> result,
                     settledAt |-> clock + 1]
  BY DEF Snapshot
<1>5. record[r].status = "awaiting_approval" => spec = "hardened" /\ result = None
  OBVIOUS
<1> HIDE DEF spec, result
<1>6. Snapshot(r) \in Artifact
  BY <1>2, <1>3, <1>4 DEF Artifact, Live
<1> QED BY <1>4, <1>5, <1>6

LEMMA TypeInit == Init => TypeOK /\ Mirrors
<1> SUFFICES ASSUME Init PROVE TypeOK /\ Mirrors
  OBVIOUS
<1>1. TypeOK
  BY WriterLemma, ExporterLemma DEF Init, TypeOK
<1>2. Mirrors
  BY DEF Init, Mirrors, MirrorsOf
<1> QED BY <1>1, <1>2

LEMMA EntersTyped ==
  ASSUME TypeOK, Mirrors, NEW r \in Run, NEW s \in Stage, NEW d \in Run, Enters(r, s, d)
  PROVE  /\ record' \in [Run -> RunRecord \cup {None}]
         /\ history' \in [Run -> Past \cup {None}]
         /\ Mirrors'
<1> DEFINE rec == [stage |-> s, dir |-> d, status |-> "running", gatePassed |-> FALSE,
                   exported |-> FALSE, pending |-> 0]
           past == [stage |-> s, dir |-> d, status |-> "running", saved |-> None]
<1>1. rec \in RunRecord /\ past \in Past
  BY DEF RunRecord, Past, Status, Terminal
<1>2. record' = [record EXCEPT ![r] = rec] /\ history' = [history EXCEPT ![r] = past]
  BY DEF Enters
<1>3. past # None /\ rec # None
  BY <1>1, NoneIsNothing
<1>4. MirrorsOf(rec, past, writer[r], exporter[r])
  BY <1>3 DEF MirrorsOf
<1>5. writer' = writer /\ exporter' = exporter
  BY DEF Enters, work
<1> HIDE DEF rec, past
<1> QED BY <1>1, <1>2, <1>4, <1>5 DEF TypeOK, Mirrors

(* The moves of a run's status.                                            *)
Moves(r, rec, status) ==
  /\ record[r] # None
  /\ rec \in RunRecord
  /\ rec.stage = record[r].stage /\ rec.dir = record[r].dir /\ rec.status = status
  /\ record[r].status \notin Terminal
  /\ status \notin Terminal => rec.pending <= 1
  /\ status = "running" => rec.gatePassed
  /\ status # "running" => rec.pending > 0
  /\ rec.pending >= record[r].pending
  /\ rec.exported = record[r].exported
  /\ rec.gatePassed => record[r].gatePassed \/ record[r].status = "awaiting_approval"
  /\ status = "succeeded" /\ Pipeline[rec.stage].exports => rec.exported
  /\ mixed \subseteq mixed'
  /\ exporter[r] # Idle /\ record[r].status = "running" /\ record[r].gatePassed =>
       record[r].dir \in mixed'
  /\ record' = [record EXCEPT ![r] = rec]
  /\ history' = [history EXCEPT ![r].status = status]
  /\ UNCHANGED <<work, disk, bounds>>

LEMMA MovesTyped ==
  ASSUME TypeOK, Mirrors, NEW r \in Run, NEW rec, NEW status \in Status, Moves(r, rec, status)
  PROVE  /\ record' \in [Run -> RunRecord \cup {None}]
         /\ history' \in [Run -> Past \cup {None}]
         /\ Mirrors'
         /\ history[r] \in Past
         /\ history'[r] = [history[r] EXCEPT !.status = status]
<1> DEFINE past == [history[r] EXCEPT !.status = status]
<1>1. history[r] \in Past /\ MirrorsOf(record[r], history[r], writer[r], exporter[r])
  BY NoneIsNothing DEF TypeOK, Mirrors, MirrorsOf, Moves
<1>2. past \in Past /\ past.status = status /\ past.stage = history[r].stage
        /\ past.dir = history[r].dir
  BY <1>1 DEF Past
<1>3. past # None /\ rec # None
  BY <1>2, NoneIsNothing DEF Moves
<1>4. history' = [history EXCEPT ![r] = past]
  BY DEF Moves
<1>5. rec.pending <= 1 \/ status \in Terminal
  BY DEF Moves
<1>6. MirrorsOf(rec, past, writer[r], exporter[r])
  <2> HIDE DEF past
  <2> QED BY <1>1, <1>2, <1>3, <1>5 DEF MirrorsOf, Moves
<1>7. writer' = writer /\ exporter' = exporter /\ record' = [record EXCEPT ![r] = rec]
        /\ rec \in RunRecord
  BY DEF Moves, work
<1>8. history'[r] = past
  BY <1>4 DEF TypeOK
<1> HIDE DEF past
<1>9. history' \in [Run -> Past \cup {None}] /\ record' \in [Run -> RunRecord \cup {None}]
  BY <1>2, <1>4, <1>7 DEF TypeOK
<1>10. Mirrors'
  BY <1>4, <1>6, <1>7 DEF TypeOK, Mirrors
<1> QED BY <1>1, <1>8, <1>9, <1>10 DEF past

LEMMA PersistedLemma ==
  ASSUME NEW rec \in RunRecord, rec.pending <= 1, NEW status \in Status
  PROVE  LET persisted == [rec EXCEPT !.status = status, !.pending = @ + 1] IN
         /\ persisted \in RunRecord /\ persisted.stage = rec.stage /\ persisted.dir = rec.dir
         /\ persisted.status = status /\ persisted.gatePassed = rec.gatePassed
         /\ persisted.exported = rec.exported /\ persisted.pending = rec.pending + 1
<1> DEFINE p == rec.pending + 1
<1>1. p \in 0..2
  BY DEF RunRecord
<1> HIDE DEF p
<1>2. LET persisted == [rec EXCEPT !.status = status, !.pending = p] IN
         /\ persisted \in RunRecord /\ persisted.stage = rec.stage /\ persisted.dir = rec.dir
         /\ persisted.status = status /\ persisted.gatePassed = rec.gatePassed
         /\ persisted.exported = rec.exported /\ persisted.pending = p
  BY <1>1 DEF RunRecord
<1> QED BY <1>2 DEF p

LEMMA StatusMoves ==
  ASSUME TypeOK, Mirrors, NEW r \in Run
  PROVE  /\ Suspend(r) => \E rec : Moves(r, rec, "awaiting_approval")
         /\ Approve(r) => \E rec : Moves(r, rec, "running")
         /\ Cancel(r) => \E rec : Moves(r, rec, "cancelled")
         /\ \A status \in Outcome : End(r, status) => \E rec : Moves(r, rec, status)
<1> SUFFICES ASSUME r \in Live, record[r].status \in {"running", "awaiting_approval"}
             PROVE  /\ Suspend(r) => \E rec : Moves(r, rec, "awaiting_approval")
                    /\ Approve(r) => \E rec : Moves(r, rec, "running")
                    /\ Cancel(r) => \E rec : Moves(r, rec, "cancelled")
                    /\ \A status \in Outcome : End(r, status) => \E rec : Moves(r, rec, status)
  BY DEF Suspend, Approve, Cancel, End
<1>1. /\ record[r] \in RunRecord /\ record[r] # None
      /\ record[r].status \notin Terminal /\ record[r].pending \in Nat /\ record[r].pending <= 1
      /\ record[r].status = "running" /\ ~record[r].gatePassed => record[r].pending = 0
  <2>1. record[r] \in RunRecord /\ record[r] # None
    BY DEF TypeOK, Live
  <2> QED BY <2>1 DEF Mirrors, MirrorsOf, Terminal, RunRecord
<1>2. ASSUME Suspend(r)
      PROVE  Moves(r, [record[r] EXCEPT !.status = "awaiting_approval", !.pending = @ + 1],
                   "awaiting_approval")
  <2> DEFINE rec == [record[r] EXCEPT !.status = "awaiting_approval", !.pending = @ + 1]
  <2>1. record[r].pending = 0 /\ record[r].status = "running" /\ ~record[r].gatePassed
          /\ record' = [record EXCEPT ![r] = rec] /\ mixed' = mixed
    BY <1>1, <1>2 DEF Suspend
  <2>2. /\ rec \in RunRecord /\ rec.stage = record[r].stage /\ rec.dir = record[r].dir
        /\ rec.status = "awaiting_approval" /\ rec.pending = record[r].pending + 1
        /\ rec.gatePassed = record[r].gatePassed /\ rec.exported = record[r].exported
    BY <1>1, PersistedLemma DEF Status
  <2> HIDE DEF rec
  <2>3. rec.pending <= 1 /\ rec.pending > 0 /\ rec.pending >= record[r].pending
    BY <2>1, <2>2
  <2>4. /\ history' = [history EXCEPT ![r].status = "awaiting_approval"]
        /\ UNCHANGED <<work, disk, bounds>>
    BY <1>2 DEF Suspend
  <2>5. Moves(r, rec, "awaiting_approval")
    BY <1>1, <2>1, <2>2, <2>3, <2>4 DEF Moves
  <2> QED BY <2>5 DEF rec
<1>3. ASSUME Approve(r)
      PROVE  Moves(r, [record[r] EXCEPT !.status = "running", !.gatePassed = TRUE], "running")
  <2> DEFINE rec == [record[r] EXCEPT !.status = "running", !.gatePassed = TRUE]
  <2>1. record' = [record EXCEPT ![r] = rec] /\ record[r].status = "awaiting_approval"
          /\ mixed' = mixed
    BY <1>1, <1>3 DEF Approve
  <2>2. /\ rec \in RunRecord /\ rec.stage = record[r].stage /\ rec.dir = record[r].dir
        /\ rec.status = "running" /\ rec.pending = record[r].pending /\ rec.gatePassed
        /\ rec.exported = record[r].exported
    BY <1>1 DEF RunRecord, Status
  <2> HIDE DEF rec
  <2>3. rec.pending <= 1 /\ rec.pending >= record[r].pending
    BY <1>1, <2>2
  <2>4. /\ history' = [history EXCEPT ![r].status = "running"]
        /\ UNCHANGED <<work, disk, bounds>>
    BY <1>3 DEF Approve
  <2>5. Moves(r, rec, "running")
    BY <1>1, <2>1, <2>2, <2>3, <2>4 DEF Moves
  <2> QED BY <2>5 DEF rec
<1>4. ASSUME NEW status \in Terminal, Ends(r, status), mixed \subseteq mixed',
             status = "succeeded" /\ Pipeline[record[r].stage].exports => record[r].exported,
             exporter[r] # Idle => record[r].dir \in mixed'
      PROVE  Moves(r, [record[r] EXCEPT !.status = status, !.pending = @ + 1], status)
  <2> DEFINE rec == [record[r] EXCEPT !.status = status, !.pending = @ + 1]
  <2>1. record' = [record EXCEPT ![r] = rec] /\ status # "running"
    BY <1>1, <1>4 DEF Ends, Terminal
  <2>2. /\ rec \in RunRecord /\ rec.stage = record[r].stage /\ rec.dir = record[r].dir
        /\ rec.status = status /\ rec.pending = record[r].pending + 1
        /\ rec.gatePassed = record[r].gatePassed /\ rec.exported = record[r].exported
    BY <1>1, PersistedLemma, ZenonT(40) DEF Status
  <2> HIDE DEF rec
  <2>3. rec.pending > 0 /\ rec.pending >= record[r].pending
    BY <1>1, <2>2
  <2>4. Moves(r, rec, status)
    BY <1>1, <1>4, <2>1, <2>2, <2>3 DEF Moves, Ends
  <2> QED BY <2>4 DEF rec
<1>5. Cancel(r) => Moves(r, [record[r] EXCEPT !.status = "cancelled", !.pending = @ + 1], "cancelled")
  <2> SUFFICES ASSUME Cancel(r)
               PROVE  Moves(r, [record[r] EXCEPT !.status = "cancelled", !.pending = @ + 1], "cancelled")
    OBVIOUS
  <2>1. "cancelled" \in Terminal /\ Ends(r, "cancelled") /\ mixed \subseteq mixed'
          /\ (exporter[r] # Idle => record[r].dir \in mixed')
    BY DEF Cancel, Terminal
  <2> QED BY <1>4, <2>1
<1>6. ASSUME NEW status \in Outcome, End(r, status)
      PROVE  Moves(r, [record[r] EXCEPT !.status = status, !.pending = @ + 1], status)
  <2>1. status \in Terminal /\ Ends(r, status) /\ mixed' = mixed /\ exporter[r] = Idle
          /\ (status = "succeeded" /\ Pipeline[record[r].stage].exports => record[r].exported)
    BY <1>6, BoundsAssumption DEF End, Terminal
  <2> QED BY <1>4, <2>1
<1> QED BY <1>2, <1>3, <1>5, <1>6

(* Every action keeps the types, and what the daemon knows of a run.       *)
LEMMA TypeStep == TypeOK /\ Mirrors /\ [Next]_vars => TypeOK' /\ Mirrors'
<1> SUFFICES ASSUME TypeOK, Mirrors, [Next]_vars
             PROVE  TypeOK' /\ Mirrors'
  OBVIOUS
<1> USE NoneIsNothing DEF TypeOK
<1>1. ASSUME NEW r \in Run, NEW s \in Stage, NEW d \in Run, Enters(r, s, d), mixed' \subseteq Run
      PROVE  TypeOK' /\ Mirrors'
  BY <1>1, EntersTyped DEF Enters, work, disk
<1>2. ASSUME NEW r \in Run, NEW rec, NEW status \in Status, Moves(r, rec, status), mixed' \subseteq Run
      PROVE  TypeOK' /\ Mirrors'
  BY <1>2, MovesTyped, ZenonT(40) DEF Moves, work, disk
<1>3. \A r \in Live : record[r] \in RunRecord /\ record[r].dir \in Run /\ record[r].stage \in Stage
                       /\ record[r].status \in Status
  BY DEF Live, RunRecord
<1>4. ASSUME NEW r \in Run, writer[r] # Idle \/ exporter[r] # Idle
      PROVE  r \in Live
  BY <1>4 DEF Mirrors, MirrorsOf, Live
<1>5. ASSUME NEW r \in Run, NEW s \in Stage, Start(r, s)
      PROVE  TypeOK' /\ Mirrors'
  BY <1>1, <1>5 DEF Start
<1>6. ASSUME NEW r \in Run, NEW s \in Stage, NEW from \in Stage, NEW d \in Run, Chain(r, s, d, from)
      PROVE  TypeOK' /\ Mirrors'
  BY <1>1, <1>6 DEF Chain
<1>7. ASSUME NEW r \in Run, Suspend(r) \/ Approve(r) \/ Cancel(r)
                             \/ \E status \in Outcome : End(r, status)
      PROVE  TypeOK' /\ Mirrors'
  <2>1. Outcome \cup {"running", "awaiting_approval", "cancelled"} \subseteq Status
    BY BoundsAssumption DEF Status, Terminal
  <2>2. mixed' \subseteq Run
    BY <1>3, <1>7 DEF Suspend, Approve, Cancel, End
  <2> QED BY <1>2, <1>7, <2>1, <2>2, StatusMoves
<1>8. ASSUME NEW r \in Run, TakeSnapshot(r)
      PROVE  TypeOK' /\ Mirrors'
  <2> DEFINE rec == [record[r] EXCEPT !.pending = @ - 1]
             w == [at |-> "artifact", data |-> Snapshot(r)]
  <2>1. w \in WriterState
    BY <1>8, SnapshotLemma, WriterLemma DEF TakeSnapshot
  <2>2. record[r] \in RunRecord /\ record[r].pending > 0 /\ record[r] # None
    BY <1>3, <1>8 DEF TakeSnapshot
  <2>3. /\ rec \in RunRecord /\ rec # None /\ rec.stage = record[r].stage /\ rec.dir = record[r].dir
        /\ rec.status = record[r].status /\ rec.gatePassed = record[r].gatePassed
        /\ rec.pending \in Nat /\ rec.pending < record[r].pending
    <3> DEFINE p == record[r].pending - 1
    <3>1. p \in 0..2 /\ p < record[r].pending
      BY <2>2 DEF RunRecord
    <3> HIDE DEF p
    <3>2. rec = [record[r] EXCEPT !.pending = p]
      BY DEF p
    <3> HIDE DEF rec
    <3> QED BY <2>2, <3>1, <3>2, SMTT(40) DEF RunRecord
  <2>4. /\ record' = [record EXCEPT ![r] = rec]
        /\ writer' = [writer EXCEPT ![r] = w]
        /\ exporter' = exporter /\ history' = history
    BY <1>8 DEF TakeSnapshot
  <2>5. MirrorsOf(record[r], history[r], writer[r], exporter[r])
    BY DEF Mirrors
  <2> HIDE DEF rec, w
  <2>6. MirrorsOf(rec, history[r], w, exporter[r])
    BY <2>2, <2>3, <2>5 DEF MirrorsOf, RunRecord
  <2>7. Mirrors'
    BY <2>4, <2>6 DEF Mirrors
  <2>8. file' = file /\ manifest' = manifest /\ clock' = clock + 1 /\ mixed' = mixed
    BY <1>3, <1>8 DEF TakeSnapshot, Opened
  <2> QED BY <2>1, <2>3, <2>4, <2>7, <2>8
<1>9. ASSUME NEW r \in Run, PublishArtifact(r)
      PROVE  TypeOK' /\ Mirrors'
  <2>1. r \in Live /\ writer[r].data \in Artifact
    BY <1>4, <1>9, WriterLemma DEF PublishArtifact, Idle
  <2>2. [at |-> "upsert"] \in WriterState
    BY WriterLemma
  <2>3. history[r] \in Past
    BY <2>1 DEF Mirrors, MirrorsOf, Live
  <2>4. writer[r].data.status \in Status
    BY <2>1 DEF Artifact
  <2> DEFINE past == [history[r] EXCEPT !.saved = writer[r].data.status]
  <2>5. past \in Past /\ past.stage = history[r].stage /\ past.dir = history[r].dir
          /\ past.status = history[r].status
    BY <2>3, <2>4 DEF Past
  <2>6. history' = [history EXCEPT ![r] = past]
    BY <1>9 DEF PublishArtifact
  <2> HIDE DEF past
  <2>7. Mirrors'
    <3>1. \A q \in Run : MirrorsOf(record[q], history[q], writer[q], exporter[q])
      BY DEF Mirrors
    <3>2. MirrorsOf(record[r], past, [at |-> "upsert"], exporter[r])
      BY <2>1, <2>5, <3>1 DEF MirrorsOf, Live
    <3>3. record' = record /\ exporter' = exporter /\ writer' = [writer EXCEPT ![r] = [at |-> "upsert"]]
      BY <1>9 DEF PublishArtifact
    <3> QED BY <2>6, <3>1, <3>2, <3>3 DEF Mirrors
  <2>8. file' \in [Run -> [Stage -> Artifact \cup {None}]]
    BY <1>3, <1>9, <2>1 DEF PublishArtifact
  <2>9. /\ record' = record /\ exporter' = exporter /\ manifest' = manifest
        /\ clock' = clock /\ mixed' = mixed /\ writer' = [writer EXCEPT ![r] = [at |-> "upsert"]]
    BY <1>9 DEF PublishArtifact
  <2>10. history' \in [Run -> Past \cup {None}]
    BY <2>5, <2>6
  <2>11. writer' \in [Run -> WriterState]
    BY <2>2, <2>9
  <2> QED BY <2>7, <2>8, <2>9, <2>10, <2>11
<1>10. ASSUME NEW r \in Run, MergeEntry(r) \/ PublishManifest(r) \/ WriteFails(r)
       PROVE  TypeOK' /\ Mirrors'
  <2>1. r \in Live
    BY <1>4, <1>10 DEF MergeEntry, PublishManifest, WriteFails, Idle
  <2> DEFINE m == Merged(Found(record[r].dir), record[r].stage, record[r].status)
  <2>2. m \in Manifest
    BY <1>3, <2>1, FoundLemma, MergedLemma
  <2>3. [at |-> "manifest", data |-> m] \in WriterState /\ Idle \in WriterState
    BY <2>2, WriterLemma
  <2>4. writer[r].at = "manifest" => writer[r].data \in Manifest
    BY WriterLemma
  <2> HIDE DEF m
  <2>5. /\ writer' \in [Run -> WriterState]
        /\ \A q \in Run \ {r} : writer'[q] = writer[q]
        /\ record' = record /\ history' = history /\ exporter' = exporter
        /\ file' = file /\ clock' = clock
    BY <1>10, <2>3 DEF m, MergeEntry, PublishManifest, WriteFails, disk
  <2>6. Mirrors'
    BY <2>1, <2>5 DEF Mirrors, MirrorsOf, Live
  <2>7. manifest' \in [Run -> Manifest \cup {None}] /\ mixed' \subseteq Run
    BY <1>3, <1>10, <2>1, <2>4 DEF MergeEntry, PublishManifest, WriteFails, disk, Opened
  <2> QED BY <2>5, <2>6, <2>7
<1>11. ASSUME NEW r \in Run, ExportReads(r) \/ ExportWrites(r)
       PROVE  TypeOK' /\ Mirrors'
  <2>1. r \in Live
    BY <1>4, <1>11 DEF ExportReads, ExportWrites
  <2> DEFINE rec == [record[r] EXCEPT !.exported = TRUE]
  <2>2. /\ rec \in RunRecord /\ rec.stage = record[r].stage /\ rec.dir = record[r].dir
        /\ rec.status = record[r].status /\ rec.gatePassed = record[r].gatePassed
        /\ rec.pending = record[r].pending
    BY <1>3, <2>1 DEF RunRecord
  <2>3. record' = record \/ record' = [record EXCEPT ![r] = rec]
    BY <1>11 DEF ExportReads, ExportWrites
  <2>4. exporter' \in [Run -> ExporterState] /\ \A q \in Run \ {r} : exporter'[q] = exporter[q]
    <3>1. ASSUME ExportReads(r), exporter' # exporter
          PROVE  \E x \in ExporterState : exporter' = [exporter EXCEPT ![r] = x]
      <4> DEFINE d == record[r].dir
                 s == record[r].stage
                 x == [manifest[d] EXCEPT ![s].specSource = TRUE]
      <4>1. Found(d)[s] # None /\ exporter' = [exporter EXCEPT ![r] = [at |-> "manifest", data |-> x]]
        BY <3>1 DEF ExportReads
      <4>2. d \in Run /\ s \in Stage
        BY <1>3, <2>1
      <4>3. manifest[d] \in Manifest /\ manifest[d][s] # None
        BY <4>1, <4>2, FoundLemma
      <4>4. x \in Manifest
        BY <4>2, <4>3, MarkedLemma
      <4>5. [at |-> "manifest", data |-> x] \in ExporterState
        BY <4>4, ExporterLemma
      <4> QED BY <4>1, <4>5
    <3>2. ASSUME ExportWrites(r)
          PROVE  exporter' = [exporter EXCEPT ![r] = Idle] /\ Idle \in ExporterState
      BY <3>2, ExporterLemma DEF ExportWrites
    <3> QED BY <1>11, <3>1, <3>2
  <2>5. writer' = writer /\ history' = history /\ file' = file /\ clock' = clock
    BY <1>11 DEF ExportReads, ExportWrites
  <2> HIDE DEF rec
  <2>6. record' \in [Run -> RunRecord \cup {None}]
    BY <2>2, <2>3
  <2>7. Mirrors'
    <3>1. \A q \in Run : MirrorsOf(record[q], history[q], writer[q], exporter[q])
      BY DEF Mirrors
    <3>2. /\ MirrorsOf(record[r], history[r], writer[r], exporter'[r])
          /\ MirrorsOf(rec, history[r], writer[r], exporter'[r])
      BY <2>1, <2>2, <3>1 DEF MirrorsOf, Live
    <3> QED BY <2>3, <2>4, <2>5, <3>1, <3>2 DEF Mirrors
  <2>8. manifest' \in [Run -> Manifest \cup {None}]
    <3>1. exporter[r] # Idle => exporter[r].data \in Manifest
      BY ExporterLemma
    <3> QED BY <1>3, <1>11, <2>1, <3>1 DEF ExportReads, ExportWrites, Opened
  <2>9. mixed' \subseteq Run
    BY <1>3, <1>11, <2>1 DEF ExportReads, ExportWrites
  <2> QED BY <2>4, <2>5, <2>6, <2>7, <2>8, <2>9
<1>12. ASSUME Crash
       PROVE  TypeOK' /\ Mirrors'
  <2>1. Idle \in WriterState /\ Idle \in ExporterState
    BY WriterLemma, ExporterLemma
  <2>2. mixed' \subseteq Run
    BY <1>3, <1>12 DEF Crash
  <2>3. Mirrors'
    BY <1>12 DEF Crash, Mirrors, MirrorsOf
  <2> QED BY <1>12, <2>1, <2>2, <2>3 DEF Crash, disk
<1>13. CASE UNCHANGED vars
  BY <1>13 DEF vars, Mirrors
<1> QED BY <1>5, <1>6, <1>7, <1>8, <1>9, <1>10, <1>11, <1>12, <1>13 DEF Next, RunStep

(* Every variable has its type; in particular no reader ever finds an      *)
(* artifact or a manifest half written, wherever the daemon dies           *)
(* (writeJsonAtomic).                                                      *)
THEOREM TypesAreCorrect == Spec => []TypeOK
BY TypeInit, TypeStep, PTL DEF Spec

---------------------------------------------------------------------------
(* What is on disk.                                                        *)

(* What a run has been through is never undone.                            *)
Grows(h1, h2) ==
  \A r \in Run : h1[r] # None =>
    /\ h2[r] # None
    /\ h2[r].dir = h1[r].dir /\ h2[r].stage = h1[r].stage
    /\ h1[r].status \in Terminal => h2[r].status = h1[r].status

FilesGrow(f1, f2) ==
  \A d \in Run, s \in Stage : f1[d][s] # None => f2[d][s] # None

LEMMA BackedLemma ==
  ASSUME NEW h1, NEW h2, NEW f1, NEW f2, NEW d \in Run, NEW m,
         Backed(h1, f1, d, m), Grows(h1, h2), FilesGrow(f1, f2)
  PROVE  Backed(h2, f2, d, m)
BY DEF Backed, Grows, FilesGrow, Achieved, Terminal

(* The manifests under way and on disk stay backed, if the ones that are   *)
(* new are.                                                                *)
LEMMA ManifestsLemma ==
  ASSUME TypeOK, Mirrors, WritersTrue, ManifestsBacked,
         Grows(history, history'), FilesGrow(file, file'),
         \A d \in Run : manifest'[d] \in {None, manifest[d]} \/ Backed(history, file, d, manifest'[d]),
         \A r \in Run : writer'[r] = writer[r] \/ writer'[r].at # "manifest"
                          \/ Backed(history, file, history[r].dir, writer'[r].data),
         \A r \in Run : exporter'[r] = exporter[r] \/ exporter'[r].at # "manifest"
                          \/ Backed(history, file, history[r].dir, exporter'[r].data),
         \A r \in Run : (writer'[r].at = "manifest" \/ exporter'[r].at = "manifest") =>
                           history[r] # None /\ history[r].dir \in Run
  PROVE  ManifestsBacked'
<1>1. ASSUME NEW d \in Run, manifest'[d] # None
      PROVE  Backed(history', file', d, manifest'[d])
  <2>1. Backed(history, file, d, manifest'[d])
    BY <1>1 DEF ManifestsBacked
  <2> QED BY <2>1, BackedLemma
<1>2. ASSUME NEW r \in Run, writer'[r].at = "manifest"
      PROVE  Backed(history', file', history'[r].dir, writer'[r].data)
  <2>1. Backed(history, file, history[r].dir, writer'[r].data)
    BY <1>2 DEF ManifestsBacked
  <2>2. history'[r].dir = history[r].dir /\ history[r].dir \in Run
    BY <1>2 DEF Grows
  <2>3. Backed(history', file', history[r].dir, writer'[r].data)
    BY <2>1, <2>2, BackedLemma
  <2> QED BY <2>2, <2>3
<1>3. ASSUME NEW r \in Run, exporter'[r].at = "manifest"
      PROVE  Backed(history', file', history'[r].dir, exporter'[r].data)
  <2>1. Backed(history, file, history[r].dir, exporter'[r].data)
    BY <1>3 DEF ManifestsBacked
  <2>2. history'[r].dir = history[r].dir /\ history[r].dir \in Run
    BY <1>3 DEF Grows
  <2>3. Backed(history', file', history[r].dir, exporter'[r].data)
    BY <2>1, <2>2, BackedLemma
  <2> QED BY <2>2, <2>3
<1> QED BY <1>1, <1>2, <1>3 DEF ManifestsBacked

LEMMA KnownLemma ==
  ASSUME TypeOK, Mirrors, NEW r \in Run
  PROVE  /\ writer[r].at # "idle" \/ exporter[r].at # "idle" => r \in Live
         /\ r \in Live =>
              /\ record[r] \in RunRecord /\ history[r] \in Past
              /\ history[r] # None /\ record[r] # None
              /\ record[r].stage = history[r].stage /\ record[r].dir = history[r].dir
              /\ record[r].status = history[r].status
              /\ record[r].stage \in Stage /\ record[r].dir \in Run
              /\ record[r].status \in Status
         /\ history[r] # None => history[r] \in Past /\ history[r].dir \in Run
                                   /\ history[r].stage \in Stage
         /\ r \notin Live => writer[r] = Idle /\ exporter[r] = Idle
<1>1. MirrorsOf(record[r], history[r], writer[r], exporter[r])
  BY DEF Mirrors
<1>2. r \in Live => record[r] \in RunRecord
  BY DEF TypeOK, Live
<1>3. history[r] # None => history[r] \in Past
  BY DEF TypeOK
<1>4. (writer[r].at # "idle" => writer[r] # Idle) /\ (exporter[r].at # "idle" => exporter[r] # Idle)
  BY DEF Idle
<1> QED BY <1>1, <1>2, <1>3, <1>4, NoneIsNothing DEF MirrorsOf, Live, RunRecord, Past

LEMMA EntersFacts ==
  ASSUME TypeOK, Mirrors, DiskFacts, NEW r \in Run, NEW s \in Stage, NEW d \in Run,
         Enters(r, s, d), d = r \/ \E t \in Stage : file[d][t] # None
  PROVE  DiskFacts'
<1> DEFINE past == [stage |-> s, dir |-> d, status |-> "running", saved |-> None]
<1>1. /\ history[r] = None /\ history' = [history EXCEPT ![r] = past]
      /\ writer' = writer /\ exporter' = exporter /\ file' = file /\ manifest' = manifest
  BY DEF Enters, work, disk
<1>2. past \in Past /\ past # None /\ past.dir = d /\ past.stage = s /\ past.saved = None
  <2>1. past \in Past
    BY DEF Past, Status
  <2> QED BY <2>1, NoneIsNothing
<1> HIDE DEF past
<1>3. writer[r] = Idle /\ exporter[r] = Idle
  BY <1>1, KnownLemma
<1>4. history' \in [Run -> Past \cup {None}] /\ history'[r] = past
       /\ \A q \in Run \ {r} : history'[q] = history[q]
  BY <1>1, <1>2 DEF TypeOK
<1>5. FilesTrue'
  <2> SUFFICES ASSUME NEW e \in Run, NEW t \in Stage, file[e][t] # None
               PROVE  FileTrue(history', e, t, file[e][t])
    BY <1>1 DEF FilesTrue, FileTrue
  <2>1. FileTrue(history, e, t, file[e][t]) /\ file[e][t] \in Artifact
    BY DEF DiskFacts, FilesTrue, TypeOK
  <2>2. file[e][t].run \in Run \ {r}
    BY <1>1, <2>1 DEF FileTrue, Artifact
  <2> QED BY <1>4, <2>1, <2>2 DEF FileTrue
<1>6. WritersTrue'
  BY <1>1, <1>3, <1>4 DEF DiskFacts, WritersTrue, WriterTrue, Idle
<1>7. SavedIsOnDisk'
  BY <1>1, <1>2, <1>4 DEF DiskFacts, SavedIsOnDisk
<1>8. ManifestsBacked'
  <2>1. Grows(history, history') /\ FilesGrow(file, file')
    BY <1>1, <1>4 DEF Grows, FilesGrow
  <2>2. \A q \in Run : writer'[q].at = "manifest" \/ exporter'[q].at = "manifest" =>
           history[q] # None /\ history[q].dir \in Run
    BY <1>1, KnownLemma
  <2> QED BY <1>1, <2>1, <2>2, ManifestsLemma DEF DiskFacts
<1>9. OwnFirst'
  BY <1>1, <1>2, <1>4 DEF DiskFacts, OwnFirst
<1> QED BY <1>5, <1>6, <1>7, <1>8, <1>9 DEF DiskFacts

LEMMA MovesFacts ==
  ASSUME TypeOK, Mirrors, DiskFacts, NEW r \in Run, NEW rec, NEW status \in Status,
         Moves(r, rec, status)
  PROVE  DiskFacts'
<1>1. /\ history[r] \in Past /\ history[r] # None /\ history[r].status \notin Terminal
      /\ history'[r] = [history[r] EXCEPT !.status = status]
      /\ history' = [history EXCEPT ![r].status = status]
      /\ writer' = writer /\ exporter' = exporter /\ file' = file /\ manifest' = manifest
  BY KnownLemma, MovesTyped, ZenonT(40) DEF Moves, work, disk, Live
<1>2. /\ history'[r] \in Past /\ history'[r] # None /\ history'[r].dir = history[r].dir
      /\ history'[r].stage = history[r].stage /\ history'[r].saved = history[r].saved
      /\ \A q \in Run \ {r} : history'[q] = history[q]
  <2>1. history'[r] \in Past /\ history'[r].dir = history[r].dir
        /\ history'[r].stage = history[r].stage /\ history'[r].saved = history[r].saved
    BY <1>1 DEF Past
  <2>2. \A q \in Run \ {r} : history'[q] = history[q]
    BY <1>1 DEF TypeOK
  <2> QED BY <2>1, <2>2, NoneIsNothing
<1>3. FilesTrue'
  <2> SUFFICES ASSUME NEW e \in Run, NEW t \in Stage, file[e][t] # None
               PROVE  FileTrue(history', e, t, file[e][t])
    BY <1>1 DEF FilesTrue, FileTrue
  <2>1. FileTrue(history, e, t, file[e][t]) /\ file[e][t] \in Artifact
    BY DEF DiskFacts, FilesTrue, TypeOK
  <2>2. file[e][t].run \in Run
    BY <2>1 DEF Artifact
  <2> QED BY <1>1, <1>2, <2>1, <2>2 DEF FileTrue, Tells
<1>4. WritersTrue'
  BY <1>1, <1>2 DEF DiskFacts, WritersTrue, WriterTrue, Tells
<1>5. SavedIsOnDisk'
  BY <1>1, <1>2 DEF DiskFacts, SavedIsOnDisk
<1>6. ManifestsBacked'
  <2>1. Grows(history, history') /\ FilesGrow(file, file')
    BY <1>1, <1>2 DEF Grows, FilesGrow
  <2>2. \A q \in Run : writer'[q].at = "manifest" \/ exporter'[q].at = "manifest" =>
           history[q] # None /\ history[q].dir \in Run
    BY <1>1, KnownLemma
  <2> QED BY <1>1, <2>1, <2>2, ManifestsLemma DEF DiskFacts
<1>7. OwnFirst'
  BY <1>1, <1>2 DEF DiskFacts, OwnFirst
<1> QED BY <1>3, <1>4, <1>5, <1>6, <1>7 DEF DiskFacts

(* The actions that write: they leave what a run has been through, apart   *)
(* from the status its artifact was published with.                        *)
LEMMA PublishArtifactFacts ==
  ASSUME TypeOK, Mirrors, DiskFacts, NEW r \in Run, PublishArtifact(r)
  PROVE  DiskFacts'
<1> DEFINE a == writer[r].data
           d == record[r].dir
           s == record[r].stage
<1>1. /\ a \in Artifact /\ a # None /\ a.status \in Status /\ a.status # None
      /\ d \in Run /\ s \in Stage
      /\ history[r] \in Past /\ history[r] # None /\ history[r].dir = d /\ history[r].stage = s
  <2>1. writer[r] \in WriterState /\ writer[r].at = "artifact"
    BY DEF PublishArtifact, TypeOK
  <2>2. a \in Artifact
    BY <2>1, WriterLemma
  <2>3. a.status \in Status
    BY <2>2 DEF Artifact
  <2> QED BY <2>1, <2>2, <2>3, KnownLemma, NoneIsNothing
<1>2. Tells(history[r], r, a)
  BY DEF DiskFacts, WritersTrue, WriterTrue, PublishArtifact
<1>3. /\ file' = [file EXCEPT ![d][s] = a]
      /\ history' = [history EXCEPT ![r].saved = a.status]
      /\ writer' = [writer EXCEPT ![r] = [at |-> "upsert"]]
      /\ manifest' = manifest /\ exporter' = exporter
  BY DEF PublishArtifact
<1> HIDE DEF a, d, s
<1>4. /\ history'[r] # None /\ history'[r].dir = d /\ history'[r].stage = s
      /\ history'[r].status = history[r].status /\ history'[r].saved = a.status
      /\ \A q \in Run \ {r} : history'[q] = history[q]
  <2>1. history'[r] = [history[r] EXCEPT !.saved = a.status]
        /\ \A q \in Run \ {r} : history'[q] = history[q]
    BY <1>3 DEF TypeOK
  <2>2. history'[r] \in Past /\ history'[r].dir = d /\ history'[r].stage = s
        /\ history'[r].status = history[r].status /\ history'[r].saved = a.status
    BY <1>1, <2>1 DEF Past
  <2> QED BY <2>1, <2>2, NoneIsNothing
<1>5. /\ file'[d][s] = a
      /\ \A e \in Run, t \in Stage : e # d \/ t # s => file'[e][t] = file[e][t]
  BY <1>1, <1>3 DEF TypeOK
<1>6. FilesTrue'
  <2> SUFFICES ASSUME NEW e \in Run, NEW t \in Stage
               PROVE  FileTrue(history', e, t, file'[e][t])
    BY DEF FilesTrue
  <2>1. CASE e = d /\ t = s
    BY <1>1, <1>2, <1>4, <1>5, <2>1 DEF FileTrue, Tells
  <2>2. CASE ~(e = d /\ t = s)
    <3>1. FileTrue(history, e, t, file[e][t]) /\ file[e][t] \in Artifact \cup {None}
      BY DEF DiskFacts, FilesTrue, TypeOK
    <3>2. file[e][t] # None => file[e][t].run \in Run \ {r}
      BY <1>1, <2>2, <3>1 DEF FileTrue, Artifact
    <3> QED BY <1>4, <1>5, <2>2, <3>1, <3>2 DEF FileTrue
  <2> QED BY <2>1, <2>2
<1>7. WritersTrue'
  <2> SUFFICES ASSUME NEW q \in Run PROVE WriterTrue(q, history'[q], writer'[q])
    BY DEF WritersTrue
  <2>1. CASE q = r
    BY <1>1, <1>3, <1>4, <2>1 DEF WriterTrue, TypeOK
  <2>2. CASE q # r
    BY <1>3, <1>4, <2>2 DEF DiskFacts, WritersTrue, TypeOK
  <2> QED BY <2>1, <2>2
<1>8. SavedIsOnDisk'
  <2> SUFFICES ASSUME NEW q \in Run, history'[q] # None, history'[q].saved # None
               PROVE  file'[history'[q].dir][history'[q].stage] # None
    BY DEF SavedIsOnDisk
  <2>1. CASE q = r
    BY <1>1, <1>4, <1>5, <2>1
  <2>2. CASE q # r
    BY <1>1, <1>4, <1>5, <2>2, KnownLemma DEF DiskFacts, SavedIsOnDisk
  <2> QED BY <2>1, <2>2
<1>9. ManifestsBacked'
  <2>1. Grows(history, history') /\ FilesGrow(file, file')
    BY <1>1, <1>4, <1>5 DEF Grows, FilesGrow
  <2>2. \A q \in Run : writer'[q].at = "manifest" \/ exporter'[q].at = "manifest" =>
           history[q] # None /\ history[q].dir \in Run
    BY <1>3, KnownLemma DEF TypeOK
  <2>3. \A q \in Run : writer'[q] = writer[q] \/ writer'[q].at # "manifest"
    BY <1>3 DEF TypeOK
  <2> QED BY <1>3, <2>1, <2>2, <2>3, ManifestsLemma DEF DiskFacts
<1>10. OwnFirst'
  <2>1. ASSUME NEW q \in Run, history'[q] # None, history'[q].dir # q
        PROVE  \E t \in Stage : file'[history'[q].dir][t] # None
    <3>1. history[q] # None /\ history[q].dir # q /\ history'[q].dir = history[q].dir
          /\ history[q].dir \in Run
      BY <1>1, <1>4, <2>1, KnownLemma
    <3>2. PICK t \in Stage : file[history[q].dir][t] # None
      BY <3>1 DEF DiskFacts, OwnFirst
    <3> QED BY <1>1, <1>5, <3>1, <3>2
  <2>2. ASSUME NEW e \in Run, NEW t \in Stage, file'[e][t] # None
        PROVE  history'[e] # None /\ history'[e].dir = e /\ history'[e].saved # None
    <3>1. CASE e = r /\ d = r
      BY <1>1, <1>4, <3>1
    <3>2. CASE e # r
      <4>1. \E u \in Stage : file[e][u] # None
        <5>1. CASE e = d
          BY <1>1, <3>2, <5>1 DEF DiskFacts, OwnFirst
        <5>2. CASE e # d
          BY <1>5, <2>2, <5>2
        <5> QED BY <5>1, <5>2
      <4> QED BY <1>4, <3>2, <4>1 DEF DiskFacts, OwnFirst
    <3>3. CASE e = r /\ d # r
      BY <1>1, <1>5, <2>2, <3>3 DEF DiskFacts, OwnFirst
    <3> QED BY <3>1, <3>2, <3>3
  <2> QED BY <2>1, <2>2 DEF OwnFirst
<1> QED BY <1>6, <1>7, <1>8, <1>9, <1>10 DEF DiskFacts

(* The manifest that a settlement makes of the one it read.                *)
LEMMA MergedIsBacked ==
  ASSUME TypeOK, Mirrors, DiskFacts, NEW r \in Live, writer[r].at = "upsert"
  PROVE  Backed(history, file, record[r].dir,
                Merged(Found(record[r].dir), record[r].stage, record[r].status))
<1> DEFINE d == record[r].dir
           s == record[r].stage
           status == record[r].status
           m == Merged(Found(d), s, status)
<1>1. /\ r \in Run /\ d \in Run /\ s \in Stage /\ status \in Status
      /\ history[r] # None /\ history[r].dir = d /\ history[r].stage = s /\ history[r].status = status
  BY KnownLemma DEF Live
<1> HIDE DEF d, s, status
<1>2. Found(d) \in Manifest /\ \A t \in Stage \ {s} : m[t] = Found(d)[t]
  <2>1. Found(d) \in Manifest
    BY <1>1, FoundLemma
  <2> QED BY <1>1, <2>1, MergedLemma, ZenonT(40)
<1>3. m[s].status = status
  BY <1>1, <1>2, MergedLemma
<1>4. file[d][s] # None
  BY <1>1 DEF DiskFacts, WritersTrue, WriterTrue, SavedIsOnDisk
<1>5. manifest[d] # None => Backed(history, file, d, Found(d))
  BY <1>1, FoundLemma DEF DiskFacts, ManifestsBacked
<1>6. manifest[d] = None => \A t \in Stage : Found(d)[t] = None
  BY <1>1, FoundLemma
<1> HIDE DEF m
<1>7. Backed(history, file, d, m)
  BY <1>1, <1>2, <1>3, <1>4, <1>5, <1>6 DEF Backed, Achieved
<1> QED BY <1>7 DEF m, d, s, status

(* A writing step that leaves the artifacts and the histories alone.       *)
LEMMA KeptFacts ==
  ASSUME TypeOK, Mirrors, DiskFacts, UNCHANGED <<file, history>>,
         \A r \in Run : WriterTrue(r, history[r], writer'[r]),
         \A d \in Run : manifest'[d] \in {None, manifest[d]} \/ Backed(history, file, d, manifest'[d]),
         \A r \in Run : writer'[r] = writer[r] \/ writer'[r].at # "manifest"
                          \/ Backed(history, file, history[r].dir, writer'[r].data),
         \A r \in Run : exporter'[r] = exporter[r] \/ exporter'[r].at # "manifest"
                          \/ Backed(history, file, history[r].dir, exporter'[r].data),
         \A r \in Run : r \in Live \/ (writer'[r].at # "manifest" /\ exporter'[r].at # "manifest")
  PROVE  DiskFacts'
<1>1. FilesTrue' /\ SavedIsOnDisk' /\ OwnFirst'
  BY DEF DiskFacts, FilesTrue, SavedIsOnDisk, OwnFirst
<1>2. WritersTrue'
  BY DEF WritersTrue
<1>3. ManifestsBacked'
  <2>1. Grows(history, history') /\ FilesGrow(file, file')
    BY DEF Grows, FilesGrow
  <2>2. \A q \in Run : writer'[q].at = "manifest" \/ exporter'[q].at = "manifest" =>
           history[q] # None /\ history[q].dir \in Run
    BY KnownLemma
  <2> QED BY <2>1, <2>2, ManifestsLemma DEF DiskFacts
<1> QED BY <1>1, <1>2, <1>3 DEF DiskFacts

LEMMA DiskInit == Init => DiskFacts
<1> SUFFICES ASSUME Init PROVE DiskFacts
  OBVIOUS
<1>1. \A r \in Run : record[r] = None /\ history[r] = None /\ manifest[r] = None
                     /\ writer[r].at = "idle" /\ exporter[r].at = "idle"
                     /\ \A s \in Stage : file[r][s] = None
  BY DEF Init, Idle
<1> QED BY <1>1 DEF DiskFacts, FilesTrue, FileTrue, WritersTrue, WriterTrue, SavedIsOnDisk,
                    ManifestsBacked, OwnFirst

LEMMA DiskStep == TypeOK /\ Mirrors /\ DiskFacts /\ [Next]_vars => DiskFacts'
<1> SUFFICES ASSUME TypeOK, Mirrors, DiskFacts, [Next]_vars
             PROVE  DiskFacts'
  OBVIOUS
<1>1. ASSUME NEW r \in Run, NEW s \in Stage, Start(r, s)
      PROVE  DiskFacts'
  BY <1>1, EntersFacts DEF Start
<1>2. ASSUME NEW r \in Run, NEW s \in Stage, NEW from \in Stage, NEW d \in Run, Chain(r, s, d, from)
      PROVE  DiskFacts'
  BY <1>2, EntersFacts DEF Chain, Published
<1>3. ASSUME NEW r \in Run, Suspend(r) \/ Approve(r) \/ Cancel(r)
                             \/ \E status \in Outcome : End(r, status)
      PROVE  DiskFacts'
  <2>1. Outcome \cup {"running", "awaiting_approval", "cancelled"} \subseteq Status
    BY BoundsAssumption DEF Status, Terminal
  <2>2. \E status \in Status : \E rec : Moves(r, rec, status)
    BY <1>3, <2>1, StatusMoves
  <2> QED BY <2>2, MovesFacts
<1>4. ASSUME NEW r \in Run, TakeSnapshot(r)
      PROVE  DiskFacts'
  <2> DEFINE a == Snapshot(r)
  <2>1. /\ r \in Live
        /\ writer' = [writer EXCEPT ![r] = [at |-> "artifact", data |-> a]]
        /\ exporter' = exporter /\ history' = history /\ manifest' = manifest
    BY <1>4 DEF TakeSnapshot
  <2>2. file' = file
    BY <1>4, <2>1, KnownLemma, ZenonT(40) DEF TakeSnapshot, Opened, TypeOK
  <2>3. Tells(history[r], r, a)
    BY <2>1, SnapshotLemma, KnownLemma DEF Tells
  <2> HIDE DEF a
  <2>4. \A q \in Run : WriterTrue(q, history[q], writer'[q])
    BY <2>1, <2>3 DEF WriterTrue, DiskFacts, WritersTrue, TypeOK
  <2>5. \A q \in Run : writer'[q] = writer[q] \/ writer'[q].at = "artifact"
    BY <2>1 DEF TypeOK
  <2>6. \A q \in Run : q \in Live \/ (writer'[q].at # "manifest" /\ exporter'[q].at # "manifest")
    BY <2>1, <2>5, KnownLemma
  <2> QED BY <2>1, <2>2, <2>4, <2>5, <2>6, KeptFacts
<1>5. ASSUME NEW r \in Run, PublishArtifact(r)
      PROVE  DiskFacts'
  BY <1>5, PublishArtifactFacts
<1>6. ASSUME NEW r \in Run, MergeEntry(r)
      PROVE  DiskFacts'
  <2> DEFINE d == record[r].dir
             m == Merged(Found(d), record[r].stage, record[r].status)
  <2>1. r \in Live /\ d \in Run /\ history[r].dir = d
    BY <1>6, KnownLemma DEF MergeEntry
  <2>2. /\ writer[r].at = "upsert"
        /\ writer' = [writer EXCEPT ![r] = [at |-> "manifest", data |-> m]]
        /\ exporter' = exporter /\ history' = history /\ file' = file
    BY <1>6 DEF MergeEntry
  <2>3. manifest' = manifest
    BY <1>6, <2>1 DEF MergeEntry, Opened, TypeOK
  <2>4. Backed(history, file, d, m)
    BY <2>1, <2>2, MergedIsBacked
  <2> HIDE DEF d, m
  <2>5. \A q \in Run : WriterTrue(q, history[q], writer'[q])
    BY <2>2 DEF WriterTrue, DiskFacts, WritersTrue, TypeOK
  <2>6. /\ \A q \in Run \ {r} : writer'[q] = writer[q]
        /\ writer'[r].data = m
    BY <2>2 DEF TypeOK
  <2>7. \A q \in Run : q \in Live \/ (writer'[q].at # "manifest" /\ exporter'[q].at # "manifest")
    BY <2>1, <2>2, <2>6, KnownLemma
  <2> QED BY <2>1, <2>2, <2>3, <2>4, <2>5, <2>6, <2>7, KeptFacts
<1>7. ASSUME NEW r \in Run, PublishManifest(r) \/ WriteFails(r)
      PROVE  DiskFacts'
  <2>1. r \in Live /\ record[r].dir \in Run /\ history[r].dir = record[r].dir
    BY <1>7, KnownLemma DEF PublishManifest, WriteFails
  <2>2. /\ writer' = [writer EXCEPT ![r] = Idle]
        /\ exporter' = exporter /\ history' = history /\ file' = file
        /\ manifest' = manifest \/ (/\ writer[r].at = "manifest"
                                    /\ manifest' = [manifest EXCEPT ![record[r].dir] = writer[r].data])
    BY <1>7 DEF PublishManifest, WriteFails, disk
  <2>3. /\ \A q \in Run \ {r} : writer'[q] = writer[q]
        /\ writer'[r].at = "idle"
    BY <2>2 DEF TypeOK, Idle
  <2>4. \A q \in Run : WriterTrue(q, history[q], writer'[q])
    BY <2>3 DEF WriterTrue, DiskFacts, WritersTrue
  <2>5. writer[r].at = "manifest" => Backed(history, file, record[r].dir, writer[r].data)
    BY <2>1 DEF DiskFacts, ManifestsBacked
  <2>6. \A d \in Run : manifest'[d] \in {None, manifest[d]} \/ Backed(history, file, d, manifest'[d])
    BY <2>1, <2>2, <2>5 DEF TypeOK
  <2>7. \A q \in Run : q \in Live \/ (writer'[q].at # "manifest" /\ exporter'[q].at # "manifest")
    BY <2>1, <2>2, <2>3, KnownLemma
  <2> QED BY <2>2, <2>3, <2>4, <2>6, <2>7, KeptFacts
<1>8. ASSUME NEW r \in Run, ExportReads(r)
      PROVE  DiskFacts'
  <2> DEFINE d == record[r].dir
             s == record[r].stage
             m == [manifest[d] EXCEPT ![s].specSource = TRUE]
  <2>1. r \in Live /\ d \in Run /\ s \in Stage /\ history[r].dir = d
    BY <1>8, KnownLemma DEF ExportReads
  <2>2. /\ writer' = writer /\ history' = history /\ file' = file
        /\ exporter' = exporter
             \/ (Found(d)[s] # None /\ exporter' = [exporter EXCEPT ![r] = [at |-> "manifest", data |-> m]])
    BY <1>8 DEF ExportReads
  <2>3. manifest' = manifest
    BY <1>8, <2>1 DEF ExportReads, Opened, TypeOK
  <2>4. Found(d)[s] # None => Backed(history, file, d, m)
    <3> SUFFICES ASSUME Found(d)[s] # None PROVE Backed(history, file, d, m)
      OBVIOUS
    <3>1. manifest[d] \in Manifest /\ manifest[d] # None /\ manifest[d][s] # None
      BY <2>1, FoundLemma
    <3>2. Backed(history, file, d, manifest[d])
      BY <2>1, <3>1 DEF DiskFacts, ManifestsBacked
    <3>3. (\A t \in Stage \ {s} : m[t] = manifest[d][t]) /\ m[s].status = manifest[d][s].status
      BY <2>1, <3>1, MarkedLemma
    <3> HIDE DEF m, s, d
    <3> QED BY <3>1, <3>2, <3>3 DEF Backed
  <2> HIDE DEF d, s, m
  <2>5. \A q \in Run : exporter'[q] = exporter[q] \/ Backed(history, file, history[q].dir, exporter'[q].data)
    BY <2>1, <2>2, <2>4 DEF TypeOK
  <2>6. \A q \in Run : q \in Live \/ exporter'[q] = exporter[q]
    BY <2>1, <2>2 DEF TypeOK
  <2>7. \A q \in Run : q \in Live \/ (writer'[q].at # "manifest" /\ exporter'[q].at # "manifest")
    BY <2>2, <2>6, KnownLemma
  <2>8. \A q \in Run : WriterTrue(q, history[q], writer'[q])
    BY <2>2 DEF DiskFacts, WritersTrue
  <2> QED BY <2>2, <2>3, <2>5, <2>7, <2>8, KeptFacts
<1>9. ASSUME NEW r \in Run, ExportWrites(r)
      PROVE  DiskFacts'
  <2>1. exporter[r] \in ExporterState /\ exporter[r] # Idle
    BY <1>9 DEF ExportWrites, TypeOK
  <2>2. exporter[r].at = "manifest"
    BY <2>1, ExporterLemma
  <2>3. r \in Live /\ record[r].dir \in Run /\ history[r].dir = record[r].dir
    BY <2>2, KnownLemma
  <2>4. /\ manifest' = [manifest EXCEPT ![record[r].dir] = exporter[r].data]
        /\ exporter' = [exporter EXCEPT ![r] = Idle]
        /\ writer' = writer /\ file' = file /\ history' = history
    BY <1>9 DEF ExportWrites
  <2>5. Backed(history, file, record[r].dir, exporter[r].data)
    BY <2>2, <2>3 DEF DiskFacts, ManifestsBacked
  <2>6. \A d \in Run : manifest'[d] = manifest[d] \/ Backed(history, file, d, manifest'[d])
    BY <2>3, <2>4, <2>5 DEF TypeOK
  <2>7. \A q \in Run : exporter'[q] = exporter[q] \/ exporter'[q].at = "idle"
    BY <2>4 DEF TypeOK, Idle
  <2>8. \A q \in Run : q \in Live \/ (writer'[q].at # "manifest" /\ exporter'[q].at # "manifest")
    BY <2>4, <2>7, KnownLemma
  <2>9. \A q \in Run : WriterTrue(q, history[q], writer'[q])
    BY <2>4 DEF DiskFacts, WritersTrue
  <2> QED BY <2>4, <2>6, <2>7, <2>8, <2>9, KeptFacts
<1>10. ASSUME Crash
       PROVE  DiskFacts'
  <2>1. /\ \A q \in Run : writer'[q].at = "idle" /\ exporter'[q].at = "idle"
        /\ file' = file /\ history' = history /\ manifest' = manifest
    BY <1>10 DEF Crash, disk, Idle
  <2>2. \A q \in Run : WriterTrue(q, history[q], writer'[q])
    BY <2>1 DEF WriterTrue
  <2> QED BY <2>1, <2>2, KeptFacts
<1>11. CASE UNCHANGED vars
  BY <1>11 DEF vars, DiskFacts, FilesTrue, WritersTrue, SavedIsOnDisk, ManifestsBacked, OwnFirst
<1> QED BY <1>1, <1>2, <1>3, <1>4, <1>5, <1>6, <1>7, <1>8, <1>9, <1>10, <1>11 DEF Next, RunStep

LEMMA DiskInvariant == Spec => [](TypeOK /\ Mirrors /\ DiskFacts)
BY TypeInit, TypeStep, DiskInit, DiskStep, PTL DEF Spec

(* The artifact of a run that is alone with its stage in its directory is  *)
(* its own.                                                                *)
LEMMA SoleLemma ==
  ASSUME TypeOK, DiskFacts, NEW r \in Run, history[r] # None, history[r].saved # None, Sole(r)
  PROVE  LET d == history[r].dir  s == history[r].stage IN
         /\ d \in Run /\ s \in Stage
         /\ file[d][s] \in Artifact /\ file[d][s] # None /\ file[d][s].run = r
         /\ file[d][s].status = history[r].saved
         /\ file[d][s].status \in Terminal => history[r].status = file[d][s].status
<1> DEFINE d == history[r].dir
           s == history[r].stage
           a == file[d][s]
<1>1. d \in Run /\ s \in Stage
  BY DEF TypeOK, Past
<1>2. a # None /\ a \in Artifact
  BY <1>1 DEF TypeOK, DiskFacts, SavedIsOnDisk
<1>3. FileTrue(history, d, s, a) /\ a.run \in Run
  BY <1>1, <1>2, SMTT(40) DEF DiskFacts, FilesTrue, Artifact
<1>4. a.run = r
  BY <1>2, <1>3 DEF FileTrue, Sole
<1> QED BY <1>1, <1>2, <1>3, <1>4 DEF FileTrue, Tells

LEMMA PickedLemma ==
  ASSUME TypeOK, DiskFacts, NEW r \in Run, history[r] # None, history[r].saved # None,
         history[r].dir = r, Sole(r)
  PROVE  Published(r) # {} /\ Picked(r) = history[r].stage
<1> DEFINE s == history[r].stage
           own == {t \in Published(r) : file[r][t].run = r}
           latest == {t \in Published(r) : \A u \in Published(r) :
                        file[r][u].settledAt <= file[r][t].settledAt}
<1>1. s \in Published(r) /\ file[r][s].run = r
  BY SoleLemma, MarkersAssumption DEF Published
<1>2. ASSUME NEW t \in Published(r), file[r][t].run = r
      PROVE  t = s
  <2>1. t \in Stage /\ file[r][t] # None
    BY <1>2 DEF Published
  <2> QED BY <1>2, <2>1 DEF DiskFacts, FilesTrue, FileTrue
<1>3. own = {s}
  BY <1>1, <1>2
<1>4. Picked(r) = CHOOSE t \in Published(r) : t \in IF own # {} THEN own ELSE latest
  BY DEF Picked
<1> HIDE DEF own, latest
<1>5. Picked(r) = CHOOSE t \in Published(r) : t \in {s}
  BY <1>3, <1>4
<1> QED BY <1>1, <1>5

(* A daemon that was restarted describes a run by the last artifact that   *)
(* run published, whatever has been chained into its directory since       *)
(* (pickArtifact, readPersistedRun).                                       *)
THEOREM OwnArtifactIsRestored == Spec => []OwnRunIsRestored
<1>1. TypeOK /\ DiskFacts => OwnRunIsRestored
  BY PickedLemma, SoleLemma DEF OwnRunIsRestored, Restored
<1> QED BY <1>1, DiskInvariant, PTL

(* A chain is never reported completed while a stage that left an artifact *)
(* has not succeeded, whatever writers, crashes and failing disks have     *)
(* made of the manifest (readManifest, deriveChainStatus).                 *)
THEOREM CompletedChainsSucceeded == Spec => []CompletedIsTrue
<1>1. ASSUME TypeOK, DiskFacts, NEW d \in Run, manifest[d] # None, ChainStatus(d) = "completed",
             NEW r \in Run, history[r] # None, history[r].dir = d, history[r].saved # None, Sole(r)
      PROVE  history[r].status = "succeeded"
  <2> DEFINE m == ReadManifest(d)
             s == history[r].stage
  <2>1. /\ s \in Stage /\ file[d][s] \in Artifact /\ file[d][s] # None
        /\ file[d][s].status \in Terminal => history[r].status = file[d][s].status
    BY <1>1, SoleLemma
  <2>2. s \in Published(d)
    BY <2>1, MarkersAssumption DEF Published
  <2>3. {m[t].status : t \in Recorded(m)} = {"succeeded"}
    BY <1>1 DEF ChainStatus, DeriveChainStatus
  <2>4. /\ manifest[d][s] # None => m[s] = manifest[d][s]
        /\ manifest[d][s] = None => m[s] = [status |-> file[d][s].status, specSource |-> FALSE]
    BY <2>1, <2>2 DEF ReadManifest
  <2>5. m[s] # None
    <3>1. [status |-> file[d][s].status, specSource |-> FALSE] \in Entry
      BY <2>1 DEF Artifact, Entry
    <3> QED BY <2>4, <3>1, NoneIsNothing
  <2>6. m[s].status = "succeeded"
    BY <2>1, <2>3, <2>5 DEF Recorded
  <2> HIDE DEF m
  <2>7. CASE manifest[d][s] = None
    <3>1. file[d][s].status = "succeeded"
      BY <2>4, <2>6, <2>7
    <3> QED BY <2>1, <3>1 DEF Terminal
  <2>8. CASE manifest[d][s] # None
    <3>1. Achieved(history, d, s)
      BY <1>1, <2>1, <2>4, <2>6, <2>8 DEF DiskFacts, ManifestsBacked, Backed
    <3> QED BY <1>1, <3>1 DEF Achieved, Sole
  <2> QED BY <2>7, <2>8
<1>2. TypeOK /\ DiskFacts => CompletedIsTrue
  BY <1>1 DEF CompletedIsTrue
<1> QED BY <1>2, DiskInvariant, PTL

(* The artifact of a run that is alone in its directory is the only one    *)
(* there.                                                                  *)
LEMMA AloneLemma ==
  ASSUME TypeOK, DiskFacts, NEW r \in Run, history[r] # None, history[r].dir = r, Alone(r)
  PROVE  LET s == history[r].stage IN
         /\ s \in Stage
         /\ EventsFiles(r) = {s}
         /\ \A t \in Stage \ {s} : file[r][t] = None
         /\ \A t \in Stage : file[r][t] # Torn
         /\ file[r][s] = None => (manifest[r] # None => manifest[r][s] = None)
         /\ file[r][s] # None =>
              /\ file[r][s].status \in Status
              /\ file[r][s].status \in Terminal => history[r].status = file[r][s].status
<1> DEFINE s == history[r].stage
<1>1. s \in Stage
  BY DEF TypeOK, Past
<1>2. {q \in Run : history[q] # None /\ history[q].dir = r} = {r}
  BY DEF Alone
<1>3. EventsFiles(r) = {s}
  BY <1>2 DEF EventsFiles
<1>4. ASSUME NEW t \in Stage, file[r][t] # None
      PROVE  t = s /\ file[r][t] \in Artifact /\ FileTrue(history, r, t, file[r][t]) /\ file[r][t].run = r
  <2>1. file[r][t] \in Artifact /\ FileTrue(history, r, t, file[r][t])
    BY <1>4 DEF TypeOK, DiskFacts, FilesTrue
  <2>2. file[r][t].run \in Run
    BY <2>1 DEF Artifact
  <2> QED BY <1>2, <1>4, <2>1, <2>2 DEF FileTrue
<1>5. \A t \in Stage : file[r][t] # Torn
  BY <1>4, MarkersAssumption
<1>6. file[r][s] = None => (manifest[r] # None => manifest[r][s] = None)
  BY <1>1 DEF DiskFacts, ManifestsBacked, Backed
<1>7. file[r][s] # None =>
         /\ file[r][s].status \in Status
         /\ file[r][s].status \in Terminal => history[r].status = file[r][s].status
  BY <1>1, <1>4 DEF FileTrue, Tells, Artifact
<1> QED BY <1>1, <1>3, <1>4, <1>5, <1>6, <1>7

(* What a directory with one run tells, with and without a daemon.         *)
LEMMA DirectoryAgrees ==
  ASSUME TypeOK, DiskFacts, NEW r \in Run, history[r] # None, history[r].dir = r, Alone(r),
         NEW told \in ToldByDisk(r)
  PROVE  /\ told = IF Restored(r) \in Terminal THEN Restored(r) ELSE "orphaned"
         /\ told # "orphaned" => told = history[r].status
<1> DEFINE s == history[r].stage
<1>1. told = LastPersistedStatus(r, s)
  BY AloneLemma DEF ToldByDisk, Described
<1>2. CASE file[r][s] = None
  <2>1. Published(r) = {} /\ \A t \in Stage : file[r][t] # Torn
    BY <1>2, AloneLemma DEF Published
  <2>2. Restored(r) = None
    BY <2>1 DEF Restored
  <2>3. LastRecorded(r, s) = None
    BY <1>2, <2>1, AloneLemma DEF LastRecorded
  <2>4. told = "orphaned" /\ None \notin Terminal
    BY <1>1, <2>3, MarkersAssumption DEF LastPersistedStatus, Status
  <2> QED BY <2>2, <2>4
<1>3. CASE file[r][s] # None
  <2>1. /\ s \in Stage /\ s \in Published(r)
        /\ file[r][s].status \in Status
        /\ file[r][s].status \in Terminal => history[r].status = file[r][s].status
    BY <1>3, AloneLemma DEF Published
  <2>2. history[r].saved # None
    BY <1>3, <2>1 DEF DiskFacts, OwnFirst
  <2>3. Sole(r)
    BY DEF Alone, Sole
  <2>4. Picked(r) = s
    BY <2>2, <2>3, PickedLemma
  <2>5. Restored(r) = file[r][s].status /\ LastRecorded(r, s) = file[r][s].status
    BY <2>1, <2>4 DEF Restored, LastRecorded
  <2>6. told = IF file[r][s].status \in {None, "running", "awaiting_approval"}
               THEN "orphaned" ELSE file[r][s].status
    BY <1>1, <2>5 DEF LastPersistedStatus
  <2>7. file[r][s].status \in {None, "running", "awaiting_approval"}
          <=> file[r][s].status \notin Terminal
    BY <2>1, MarkersAssumption DEF Status, Terminal
  <2> QED BY <2>1, <2>5, <2>6, <2>7
<1> QED BY <1>2, <1>3

(* The events file that is served is the run's own.                        *)
LEMMA OwnLogIsServed ==
  ASSUME TypeOK, Mirrors, DiskFacts, NEW r \in Run, history[r] # None, history[r].dir = r,
         Sole(r), LogLocation(r) # None
  PROVE  LogLocation(r) = <<r, history[r].stage>>
<1>1. CASE r \in Live
  BY <1>1, KnownLemma DEF LogLocation
<1>2. CASE r \notin Live
  <2>1. PICK s \in Stage : s \in Published(r)
    BY <1>2 DEF LogLocation, Published
  <2>2. history[r].saved # None
    BY <2>1 DEF Published, DiskFacts, OwnFirst
  <2> QED BY <1>2, <2>1, <2>2, PickedLemma DEF LogLocation
<1> QED BY <1>1, <1>2

(* An artifact that waits at its gate holds the plan that the stage it is  *)
(* sent to asks for.                                                       *)
LEMMA WaitingIsAccepted ==
  ASSUME TypeOK, DiskFacts, NEW d \in Run, NEW s \in Published(d),
         file[d][s].status = "awaiting_approval"
  PROVE  Accepts(file[d][s], SentTo(file[d][s]), {})
<1> DEFINE a == file[d][s]
           input == [kind |-> None, form |-> "file", fields |-> Fields(a)]
<1>1. s \in Stage /\ a # None
  BY DEF Published
<1>2. a.spec = "hardened" /\ a.result = None
  BY <1>1 DEF DiskFacts, FilesTrue, FileTrue, Tells
<1>3. Fields(a) = {"gateDecisions", "spec"}
  BY <1>2 DEF Fields
<1>4. SentTo(a) = DecideEntryPoint(input)
  BY DEF SentTo
<1>5. DecideEntryPoint(input) = "develop"
  BY <1>3, KindAssumption DEF DecideEntryPoint, Kind
<1>6. \A i : Held(a, i) = IF i = "plan" THEN "string" ELSE "absent"
  BY <1>2 DEF Held
<1> HIDE DEF a, input
<1>7. Accepts(a, "develop", {})
  BY <1>6, DevelopAssumption DEF Accepts, a
<1> QED BY <1>4, <1>5, <1>7 DEF a

(* The readers of a run's directory, a daemon that knows the run, one that *)
(* was restarted, and the tools without a daemon, agree, and an artifact   *)
(* that waits at its gate is sent to a stage that accepts it               *)
(* (lastPersistedStatusOf, readPersistedRun, logLocation, decideEntryPoint,*)
(* resolveArtifactInputs).                                                 *)
THEOREM ReadersOfARunAgree == Spec => []ReadersAgree
<1>1. TypeOK /\ Mirrors /\ DiskFacts => ReadersAgree
  BY DirectoryAgrees, OwnLogIsServed, WaitingIsAccepted DEF ReadersAgree
<1> QED BY <1>1, DiskInvariant, PTL

---------------------------------------------------------------------------
(* The order of the writes.                                                *)

LEMMA OrderInit == Init => OrderInv
<1> SUFFICES ASSUME Init PROVE OrderInv
  OBVIOUS
<1>1. \A r \in Run : record[r] = None /\ \A s \in Stage : file[r][s] = None
  BY DEF Init
<1> QED BY <1>1 DEF OrderInv, OneActive, InOrder, AgreeWhenSettled, AgreesWith

LEMMA BusyLemma ==
  ASSUME TypeOK, NEW r \in Run, record[r] # None
  PROVE  /\ record[r].pending \in Nat
         /\ Writing(r) <=> writer[r] # Idle \/ record[r].pending > 0
         /\ ~Active(r) <=> /\ record[r].status \in Terminal /\ record[r].pending = 0
                           /\ writer[r] = Idle /\ exporter[r] = Idle
<1>1. record[r].pending \in 0..2
  BY DEF TypeOK, RunRecord
<1> QED BY <1>1 DEF Active, Busy, Writing, Live

(* Nothing that happens to the manifest or the artifact disturbs a run     *)
(* that is done, as long as its entry stays.                               *)
LEMMA QuietLemma ==
  ASSUME NEW rec, NEW m1, NEW m2, NEW a1, NEW a2,
         OrderlyIn(rec, Idle, Idle, m1, a1), rec.status \in Terminal, rec.pending = 0,
         m1[rec.stage] # None =>
           m2[rec.stage] # None /\ (m1[rec.stage].specSource => m2[rec.stage].specSource)
  PROVE  OrderlyIn(rec, Idle, Idle, m2, a2)
BY DEF OrderlyIn, Idle, Terminal

(* One run acts, by itself.                                                *)
ActsAlone(r) ==
  /\ record[r] # None /\ Active(r)
  /\ record'[r] # None /\ record'[r].dir = record[r].dir /\ record'[r].stage = record[r].stage
  /\ \A q \in Run \ {r} : /\ record'[q] = record[q] /\ writer'[q] = writer[q]
                          /\ exporter'[q] = exporter[q]
  /\ \A q \in Run : /\ history'[q] # None <=> history[q] # None
                    /\ history'[q].dir = history[q].dir /\ history'[q].stage = history[q].stage
  /\ mixed \subseteq mixed'
  /\ \A e \in Run, t \in Stage :
       e # record[r].dir \/ t # record[r].stage =>
         /\ file'[e][t] = file[e][t]
         /\ e \notin mixed' => Read(manifest'[e])[t] = Read(manifest[e])[t]
  /\ \A e \in Run \ {record[r].dir} : Read(manifest'[e]) = Read(manifest[e])

(* It leaves its directory in order.                                       *)
LeavesOrder(r) ==
  LET d == record[r].dir  s == record[r].stage IN
  /\ OrderlyIn(record'[r], writer'[r], exporter'[r], Read(manifest'[d]), file'[d][s])
  /\ Read(manifest[d])[s] # None =>
       Read(manifest'[d])[s] # None /\ (Read(manifest[d])[s].specSource => Read(manifest'[d])[s].specSource)
  /\ Active(r)' \/ AgreesWith(s, Read(manifest'[d])[s], file'[d][s])

LEMMA AloneStep ==
  ASSUME TypeOK, TypeOK', Mirrors, OrderInv, NEW r \in Run, ActsAlone(r),
         record[r].dir \notin mixed' => LeavesOrder(r)
  PROVE  OrderInv'
<1> DEFINE d == record[r].dir
           s == record[r].stage
<1>1. /\ d \in Run /\ s \in Stage /\ history[r] # None
      /\ history[r].dir = d /\ history[r].stage = s
  BY KnownLemma DEF ActsAlone, Live
<1>2. \A q \in Run \ {r} : record[q] # None => (Active(q)' <=> Active(q))
  BY DEF ActsAlone, Active, Busy, Writing, Live
<1>3. OneActive'
  <2> SUFFICES ASSUME NEW p \in Run, NEW q \in Run, record'[p] # None, record'[q] # None,
                      record'[p].dir = record'[q].dir, record'[q].dir \notin mixed',
                      Active(p)', Active(q)'
               PROVE  p = q
    BY DEF OneActive
  <2>1. /\ record[p] # None /\ record[q] # None
        /\ record[p].dir = record[q].dir /\ record[q].dir \notin mixed
    BY DEF ActsAlone
  <2>2. Active(p) /\ Active(q)
    BY <1>2, <2>1 DEF ActsAlone
  <2> QED BY <2>1, <2>2 DEF OrderInv, OneActive
<1>4. InOrder'
  <2> SUFFICES ASSUME NEW q \in Run, record'[q] # None, record'[q].dir \notin mixed'
               PROVE  Orderly(q)'
    BY DEF InOrder
  <2>1. CASE q = r
    <3>1. OrderlyIn(record'[r], writer'[r], exporter'[r], Read(manifest'[d]), file'[d][s])
      BY <2>1 DEF ActsAlone, LeavesOrder
    <3>2. record'[r].dir = d /\ record'[r].stage = s
      BY DEF ActsAlone
    <3> QED BY <2>1, <3>1, <3>2 DEF Orderly
  <2>2. CASE q # r
    <3> DEFINE e == record[q].dir
               t == record[q].stage
    <3>1. /\ record'[q] = record[q] /\ writer'[q] = writer[q] /\ exporter'[q] = exporter[q]
          /\ record[q] # None /\ e \notin mixed
      BY <2>2 DEF ActsAlone
    <3>2. e \in Run /\ t \in Stage
      BY <3>1, KnownLemma DEF Live
    <3>3. OrderlyIn(record[q], writer[q], exporter[q], Read(manifest[e]), file[e][t])
      BY <3>1 DEF OrderInv, InOrder, Orderly
    <3>4. CASE e # d
      <4>1. Read(manifest'[e]) = Read(manifest[e]) /\ file'[e][t] = file[e][t]
        BY <3>2, <3>4 DEF ActsAlone
      <4> QED BY <3>1, <3>3, <4>1 DEF Orderly
    <3>5. CASE e = d
      <4>1. ~Active(q)
        BY <2>2, <3>1, <3>5 DEF OrderInv, OneActive, ActsAlone
      <4>2. record[q].status \in Terminal /\ record[q].pending = 0
            /\ writer[q] = Idle /\ exporter[q] = Idle
        BY <3>1, <4>1, BusyLemma
      <4>3. Read(manifest[d])[t] # None =>
              /\ Read(manifest'[d])[t] # None
              /\ Read(manifest[d])[t].specSource => Read(manifest'[d])[t].specSource
        <5>1. CASE t = s
          BY <3>1, <3>5, <5>1 DEF LeavesOrder
        <5>2. CASE t # s
          BY <1>1, <3>1, <3>2, <3>5, <5>2 DEF ActsAlone
        <5> QED BY <5>1, <5>2
      <4>4. OrderlyIn(record[q], Idle, Idle, Read(manifest'[d]), file'[d][t])
        BY <3>3, <3>5, <4>2, <4>3, QuietLemma
      <4> QED BY <3>1, <3>5, <4>2, <4>4 DEF Orderly
    <3> QED BY <3>4, <3>5
  <2> QED BY <2>1, <2>2
<1>5. AgreeWhenSettled'
  <2> SUFFICES ASSUME NEW e \in Run, NEW t \in Stage, e \notin mixed', Settled(e, t)'
               PROVE  AgreesWith(t, Read(manifest'[e])[t], file'[e][t])
    BY DEF AgreeWhenSettled
  <2>1. CASE e = d /\ t = s
    <3>1. ~Active(r)'
      BY <1>1, <2>1 DEF Settled, ActsAlone
    <3> QED BY <2>1, <3>1 DEF LeavesOrder
  <2>2. CASE ~(e = d /\ t = s)
    <3>1. Settled(e, t)
      <4> SUFFICES ASSUME NEW q \in Run, history[q] # None, history[q].dir = e, history[q].stage = t
                   PROVE  record[q] # None /\ ~Active(q)
        BY DEF Settled
      <4>1. q # r
        BY <1>1, <2>2
      <4>2. record'[q] # None /\ ~Active(q)'
        BY DEF Settled, ActsAlone
      <4> QED BY <1>2, <4>1, <4>2 DEF ActsAlone
    <3>2. AgreesWith(t, Read(manifest[e])[t], file[e][t])
      BY <3>1 DEF OrderInv, AgreeWhenSettled, ActsAlone
    <3> QED BY <2>2, <3>2 DEF ActsAlone
  <2> QED BY <2>1, <2>2
<1> QED BY <1>3, <1>4, <1>5 DEF OrderInv

LEMMA MovesOrder ==
  ASSUME TypeOK, TypeOK', Mirrors, OrderInv, NEW r \in Run, NEW rec, NEW status \in Status,
         Moves(r, rec, status)
  PROVE  OrderInv'
<1> DEFINE d == record[r].dir
           s == record[r].stage
<1>1. /\ record[r] # None /\ rec \in RunRecord /\ rec # None
      /\ record'[r] = rec
      /\ \A q \in Run \ {r} : record'[q] = record[q]
      /\ writer' = writer /\ exporter' = exporter /\ file' = file /\ manifest' = manifest
  <2>1. rec \in RunRecord /\ record' = [record EXCEPT ![r] = rec] /\ record[r] # None
        /\ writer' = writer /\ exporter' = exporter /\ file' = file /\ manifest' = manifest
    BY DEF Moves, work, disk
  <2> QED BY <2>1, NoneIsNothing DEF TypeOK
<1>2. Active(r) /\ Active(r)'
  <2>1. Active(r)
    BY DEF Moves, Active
  <2>2. rec.pending > 0 \/ rec.status \notin Terminal
    BY DEF Moves, Terminal
  <2> QED BY <1>1, <2>1, <2>2 DEF Active, Busy, Writing, Live
<1>3. \A q \in Run : /\ history'[q] # None <=> history[q] # None
                     /\ history'[q].dir = history[q].dir /\ history'[q].stage = history[q].stage
  <2>1. history[r] \in Past /\ history[r] # None
    BY <1>1, KnownLemma DEF Live
  <2>2. history' = [history EXCEPT ![r].status = status]
    BY DEF Moves
  <2>3. history'[r] = [history[r] EXCEPT !.status = status]
        /\ \A q \in Run \ {r} : history'[q] = history[q]
    BY <2>2 DEF TypeOK
  <2>4. history'[r] \in Past /\ history'[r].dir = history[r].dir /\ history'[r].stage = history[r].stage
    BY <2>1, <2>3 DEF Past
  <2> QED BY <2>1, <2>3, <2>4, NoneIsNothing
<1>4. ActsAlone(r)
  BY <1>1, <1>2, <1>3 DEF ActsAlone, Moves
<1>5. ASSUME d \notin mixed' PROVE LeavesOrder(r)
  <2>1. OrderlyIn(record[r], writer[r], exporter[r], Read(manifest[d]), file[d][s])
    BY <1>1, <1>5 DEF Moves, OrderInv, InOrder, Orderly
  <2>2. exporter[r] = Idle
    BY <1>5, <2>1 DEF Moves, OrderlyIn
  <2>3. record[r].pending \in Nat /\ rec.pending \in Nat
    BY <1>1 DEF TypeOK, RunRecord
  <2>4. ~(rec.status \in Terminal /\ rec.pending = 0)
    BY <2>3 DEF Moves, Terminal
  <2>5. OrderlyIn(rec, writer[r], exporter[r], Read(manifest[d]), file[d][s])
    BY <2>1, <2>2, <2>3, <2>4 DEF Moves, OrderlyIn, Terminal
  <2> QED BY <1>1, <1>2, <2>5 DEF LeavesOrder
<1> QED BY <1>4, <1>5, AloneStep

LEMMA EntersOrder ==
  ASSUME TypeOK, TypeOK', Mirrors, OrderInv, NEW r \in Run, NEW s \in Stage, NEW d \in Run,
         Enters(r, s, d), mixed \subseteq mixed',
         d \notin mixed' => \A q \in Run : record[q] # None /\ record[q].dir = d => ~Active(q)
  PROVE  OrderInv'
<1> DEFINE rec == [stage |-> s, dir |-> d, status |-> "running", gatePassed |-> FALSE,
                   exported |-> FALSE, pending |-> 0]
           past == [stage |-> s, dir |-> d, status |-> "running", saved |-> None]
<1>1. /\ history[r] = None /\ history'[r] = past /\ record'[r] = rec
      /\ \A q \in Run \ {r} : history'[q] = history[q] /\ record'[q] = record[q]
      /\ writer' = writer /\ exporter' = exporter /\ file' = file /\ manifest' = manifest
  BY DEF Enters, work, disk, TypeOK
<1>2. /\ past # None /\ past.dir = d /\ past.stage = s
      /\ rec.dir = d /\ rec.stage = s /\ rec.status = "running" /\ rec.pending = 0
      /\ ~rec.gatePassed /\ ~rec.exported
  <2>1. past \in Past
    BY DEF Past, Status
  <2> QED BY <2>1, NoneIsNothing
<1> HIDE DEF past, rec
<1>3. record[r] = None /\ writer[r] = Idle /\ exporter[r] = Idle
  BY <1>1, KnownLemma DEF Live
<1>4. \A q \in Run \ {r} : record[q] # None => (Active(q)' <=> Active(q))
  BY <1>1 DEF Active, Busy, Writing, Live
<1>5. OneActive'
  <2> SUFFICES ASSUME NEW p \in Run, NEW q \in Run, record'[p] # None, record'[q] # None,
                      record'[p].dir = record'[q].dir, record'[q].dir \notin mixed',
                      Active(p)', Active(q)', p # q
               PROVE  FALSE
    BY DEF OneActive
  <2>1. CASE p # r /\ q # r
    BY <1>1, <1>4, <2>1 DEF OrderInv, OneActive
  <2>2. CASE p = r
    BY <1>1, <1>2, <1>4, <2>2
  <2>3. CASE q = r
    BY <1>1, <1>2, <1>4, <2>3
  <2> QED BY <2>1, <2>2, <2>3
<1>6. InOrder'
  <2> SUFFICES ASSUME NEW q \in Run, record'[q] # None, record'[q].dir \notin mixed'
               PROVE  Orderly(q)'
    BY DEF InOrder
  <2>1. CASE q = r
    <3>1. OrderlyIn(rec, Idle, Idle, Read(manifest[d]), file[d][s])
      BY <1>2 DEF OrderlyIn, Idle, Terminal
    <3> QED BY <1>1, <1>2, <1>3, <2>1, <3>1 DEF Orderly
  <2>2. CASE q # r
    <3>1. record'[q] = record[q] /\ record[q] # None /\ record[q].dir \notin mixed
      BY <1>1, <2>2
    <3>2. Orderly(q)
      BY <3>1 DEF OrderInv, InOrder
    <3> QED BY <1>1, <3>1, <3>2 DEF Orderly
  <2> QED BY <2>1, <2>2
<1>7. AgreeWhenSettled'
  <2> SUFFICES ASSUME NEW e \in Run, NEW t \in Stage, e \notin mixed', Settled(e, t)'
               PROVE  AgreesWith(t, Read(manifest[e])[t], file[e][t])
    BY <1>1 DEF AgreeWhenSettled
  <2>1. Settled(e, t)
    BY <1>1, <1>4 DEF Settled
  <2> QED BY <2>1 DEF OrderInv, AgreeWhenSettled
<1> QED BY <1>5, <1>6, <1>7 DEF OrderInv

LEMMA ReadLemma ==
  /\ \A m \in Manifest : Read(m) = m
  /\ TypeOK => \A d \in Run : Read(manifest[d]) = Found(d) /\ Read(manifest[d]) \in Manifest
                                /\ manifest[d] \in Manifest \cup {None}
<1>1. \A m \in Manifest : Read(m) = m
  BY NoneIsNothing DEF Read
<1>2. TypeOK => \A d \in Run : Read(manifest[d]) = Found(d)
  BY DEF Read, Found
<1> QED BY <1>1, <1>2, FoundLemma DEF TypeOK

LEMMA OrderlyLemma ==
  ASSUME OrderInv, NEW r \in Run, record[r] # None, record[r].dir \notin mixed
  PROVE  OrderlyIn(record[r], writer[r], exporter[r], Read(manifest[record[r].dir]),
                   file[record[r].dir][record[r].stage])
BY DEF OrderInv, InOrder, Orderly

LEMMA TakeSnapshotOrder ==
  ASSUME TypeOK, TypeOK', Mirrors, OrderInv, NEW r \in Run, TakeSnapshot(r)
  PROVE  OrderInv'
<1> DEFINE d == record[r].dir
           s == record[r].stage
           a == Snapshot(r)
           w == [at |-> "artifact", data |-> a]
           rec == [record[r] EXCEPT !.pending = @ - 1]
<1>1. /\ record[r] # None /\ record[r] \in RunRecord /\ r \in Live /\ d \in Run /\ s \in Stage
      /\ record[r].pending > 0 /\ writer[r] = Idle
  BY KnownLemma DEF TakeSnapshot
<1>2. /\ record' = [record EXCEPT ![r] = rec] /\ writer' = [writer EXCEPT ![r] = w]
      /\ exporter' = exporter /\ manifest' = manifest /\ history' = history /\ mixed' = mixed
  BY DEF TakeSnapshot
<1>3. file' = file
  BY <1>1 DEF TakeSnapshot, Opened, TypeOK
<1>4. a.status = record[r].status
  BY <1>1, SnapshotLemma
<1>5. /\ rec.stage = s /\ rec.dir = d /\ rec.status = record[r].status
      /\ rec.gatePassed = record[r].gatePassed /\ rec.exported = record[r].exported
  BY <1>1 DEF RunRecord
<1>6. w # Idle /\ w.at = "artifact" /\ w.data = a
  BY DEF Idle
<1> HIDE DEF a, w, rec
<1>7. /\ record'[r] = rec /\ writer'[r] = w /\ exporter'[r] = exporter[r]
      /\ \A q \in Run \ {r} : record'[q] = record[q] /\ writer'[q] = writer[q]
                                /\ exporter'[q] = exporter[q]
  BY <1>2 DEF TypeOK
<1>8. record'[r] # None
  <2>1. rec \in RunRecord \cup {None}
    BY <1>7 DEF TypeOK
  <2>2. [record[r] EXCEPT !.pending = record[r].pending - 1] \in RunRecord
    <3> DEFINE p == record[r].pending - 1
    <3>1. p \in 0..2
      BY <1>1 DEF RunRecord
    <3> HIDE DEF p
    <3>2. [record[r] EXCEPT !.pending = p] \in RunRecord
      BY <1>1, <3>1 DEF RunRecord
    <3> QED BY <3>2 DEF p
  <2> QED BY <1>7, <2>2, NoneIsNothing DEF rec
<1>9. Active(r) /\ Active(r)'
  BY <1>1, <1>6, <1>7 DEF Active, Busy, Writing, Live
<1>10. ActsAlone(r)
  BY <1>1, <1>2, <1>3, <1>5, <1>7, <1>8, <1>9 DEF ActsAlone
<1>11. ASSUME d \notin mixed' PROVE LeavesOrder(r)
  <2>1. OrderlyIn(record[r], Idle, exporter[r], Read(manifest[d]), file[d][s])
    BY <1>1, <1>2, <1>11, OrderlyLemma
  <2>2. OrderlyIn(rec, w, exporter[r], Read(manifest[d]), file[d][s])
    BY <1>1, <1>4, <1>5, <1>6, <2>1 DEF OrderlyIn
  <2> QED BY <1>2, <1>3, <1>7, <1>9, <2>2 DEF LeavesOrder
<1> QED BY <1>10, <1>11, AloneStep

LEMMA PublishArtifactOrder ==
  ASSUME TypeOK, TypeOK', Mirrors, OrderInv, NEW r \in Run, PublishArtifact(r)
  PROVE  OrderInv'
<1> DEFINE d == record[r].dir
           s == record[r].stage
           a == writer[r].data
           w == [at |-> "upsert"]
<1>1. /\ writer[r].at = "artifact" /\ writer[r] # Idle
      /\ record[r] # None /\ r \in Live /\ d \in Run /\ s \in Stage /\ history[r] \in Past
      /\ a \in Artifact /\ a # None
  <2>1. writer[r].at = "artifact" /\ writer[r] # Idle /\ a \in Artifact
    BY WriterLemma DEF PublishArtifact, TypeOK, Idle
  <2> QED BY <2>1, KnownLemma, NoneIsNothing
<1>2. /\ file' = [file EXCEPT ![d][s] = a] /\ writer' = [writer EXCEPT ![r] = w]
      /\ history' = [history EXCEPT ![r].saved = a.status]
      /\ record' = record /\ exporter' = exporter /\ manifest' = manifest /\ mixed' = mixed
  BY DEF PublishArtifact
<1>3. w # Idle /\ w.at = "upsert"
  BY DEF Idle
<1> HIDE DEF a, w
<1>4. /\ file'[d][s] = a
      /\ \A e \in Run, t \in Stage : e # d \/ t # s => file'[e][t] = file[e][t]
      /\ writer'[r] = w /\ \A q \in Run \ {r} : writer'[q] = writer[q]
  BY <1>1, <1>2 DEF TypeOK
<1>5. \A q \in Run : /\ history'[q] # None <=> history[q] # None
                     /\ history'[q].dir = history[q].dir /\ history'[q].stage = history[q].stage
  <2>1. history'[r] = [history[r] EXCEPT !.saved = a.status]
        /\ \A q \in Run \ {r} : history'[q] = history[q]
    BY <1>2 DEF TypeOK
  <2>2. history'[r] \in Past \cup {None}
    BY DEF TypeOK
  <2>3. a.status \in Status
    BY <1>1 DEF Artifact
  <2>4. history'[r] \in Past /\ history'[r].dir = history[r].dir /\ history'[r].stage = history[r].stage
    BY <1>1, <2>1, <2>3 DEF Past
  <2> QED BY <1>1, <2>1, <2>4, NoneIsNothing
<1>6. Active(r) /\ Active(r)'
  BY <1>1, <1>3, <1>4 DEF Active, Busy, Writing
<1>7. ActsAlone(r)
  BY <1>1, <1>2, <1>4, <1>5, <1>6 DEF ActsAlone
<1>8. ASSUME d \notin mixed' PROVE LeavesOrder(r)
  <2>1. OrderlyIn(record[r], writer[r], exporter[r], Read(manifest[d]), file[d][s])
    BY <1>1, <1>2, <1>8, OrderlyLemma
  <2>2. OrderlyIn(record[r], w, exporter[r], Read(manifest[d]), a)
    BY <1>1, <1>3, <2>1 DEF OrderlyIn, a
  <2> QED BY <1>2, <1>4, <1>6, <2>2 DEF LeavesOrder
<1> QED BY <1>7, <1>8, AloneStep

LEMMA MergeEntryOrder ==
  ASSUME TypeOK, TypeOK', Mirrors, OrderInv, NEW r \in Run, MergeEntry(r)
  PROVE  OrderInv'
<1> DEFINE d == record[r].dir
           s == record[r].stage
           status == record[r].status
           m == Merged(Read(manifest[d]), s, status)
           w == [at |-> "manifest", data |-> m]
<1>1. /\ writer[r].at = "upsert" /\ writer[r] # Idle
      /\ record[r] # None /\ r \in Live /\ d \in Run /\ s \in Stage /\ status \in Status
  BY KnownLemma DEF MergeEntry, Idle
<1>2. /\ writer' = [writer EXCEPT ![r] = w]
      /\ record' = record /\ exporter' = exporter /\ file' = file /\ history' = history
      /\ mixed' = mixed
  BY <1>1, ReadLemma DEF MergeEntry
<1>3. manifest' = manifest
  BY <1>1 DEF MergeEntry, Opened, TypeOK
<1>4. m[s].status = status
  <2>1. Read(manifest[d]) \in Manifest
    BY <1>1, ReadLemma
  <2> QED BY <1>1, <2>1, MergedLemma
<1>5. w # Idle /\ w.at = "manifest" /\ w.data = m
  BY DEF Idle
<1> HIDE DEF m, w
<1>6. writer'[r] = w /\ \A q \in Run \ {r} : writer'[q] = writer[q]
  BY <1>2 DEF TypeOK
<1>7. Active(r) /\ Active(r)'
  BY <1>1, <1>5, <1>6 DEF Active, Busy, Writing
<1>8. ActsAlone(r)
  BY <1>1, <1>2, <1>3, <1>6, <1>7 DEF ActsAlone
<1>9. ASSUME d \notin mixed' PROVE LeavesOrder(r)
  <2>1. OrderlyIn(record[r], writer[r], exporter[r], Read(manifest[d]), file[d][s])
    BY <1>1, <1>2, <1>9, OrderlyLemma
  <2>2. \E st \in Status : w.data = Merged(Read(manifest[d]), s, st)
    BY <1>1, <1>5, SMTT(40) DEF m
  <2>3. OrderlyIn(record[r], w, exporter[r], Read(manifest[d]), file[d][s])
    BY <1>1, <1>4, <1>5, <2>1, <2>2 DEF OrderlyIn
  <2> QED BY <1>2, <1>3, <1>6, <1>7, <2>3 DEF LeavesOrder
<1> QED BY <1>8, <1>9, AloneStep

LEMMA PublishManifestOrder ==
  ASSUME TypeOK, TypeOK', Mirrors, OrderInv, NEW r \in Run, PublishManifest(r)
  PROVE  OrderInv'
<1> DEFINE d == record[r].dir
           s == record[r].stage
           m == Read(manifest[d])
           new == writer[r].data
<1>1. /\ writer[r].at = "manifest" /\ writer[r] # Idle /\ new \in Manifest
      /\ record[r] # None /\ record[r] \in RunRecord /\ r \in Live /\ d \in Run /\ s \in Stage
      /\ m \in Manifest
  <2>1. writer[r].at = "manifest" /\ writer[r] # Idle /\ new \in Manifest
    BY WriterLemma DEF PublishManifest, TypeOK, Idle
  <2> QED BY <2>1, KnownLemma, ReadLemma
<1>2. /\ manifest' = [manifest EXCEPT ![d] = new] /\ writer' = [writer EXCEPT ![r] = Idle]
      /\ record' = record /\ exporter' = exporter /\ file' = file /\ history' = history
      /\ mixed' = mixed
  BY DEF PublishManifest
<1>3. writer'[r] = Idle /\ \A q \in Run \ {r} : writer'[q] = writer[q]
  BY <1>2 DEF TypeOK
<1>4. Read(manifest'[d]) = new /\ \A e \in Run \ {d} : Read(manifest'[e]) = Read(manifest[e])
  BY <1>1, <1>2, ReadLemma DEF TypeOK
<1>5. Active(r)
  BY <1>1 DEF Active, Busy, Writing
<1> HIDE DEF new, m
<1>6. d \notin mixed => OrderlyIn(record[r], writer[r], exporter[r], m, file[d][s])
  BY <1>1, OrderlyLemma DEF m
<1>7. d \notin mixed => \E status \in Status : new = Merged(m, s, status)
  BY <1>1, <1>6 DEF OrderlyIn, new
<1>8. d \notin mixed =>
        /\ \A t \in Stage \ {s} : new[t] = m[t]
        /\ new[s] # None
        /\ m[s] # None => new[s].specSource = m[s].specSource
  <2> SUFFICES ASSUME d \notin mixed
               PROVE  /\ \A t \in Stage \ {s} : new[t] = m[t]
                      /\ new[s] # None
                      /\ m[s] # None => new[s].specSource = m[s].specSource
    OBVIOUS
  <2>1. PICK status \in Status : new = Merged(m, s, status)
    BY <1>7
  <2> DEFINE merged == Merged(m, s, status)
  <2>2. /\ \A t \in Stage \ {s} : merged[t] = m[t]
        /\ merged[s] \in Entry
        /\ m[s] # None => merged[s].specSource = m[s].specSource
    BY <1>1, MergedLemma
  <2> HIDE DEF merged
  <2>3. new = merged
    BY <2>1 DEF merged
  <2> QED BY <2>2, <2>3, NoneIsNothing
<1>9. ActsAlone(r)
  BY <1>1, <1>2, <1>3, <1>4, <1>5, <1>8 DEF ActsAlone, m
<1>10. ASSUME d \notin mixed' PROVE LeavesOrder(r)
  <2>1. exporter[r] = Idle
    BY <1>1, <1>2, <1>6, <1>10 DEF OrderlyIn
  <2>2. OrderlyIn(record[r], Idle, Idle, new, file[d][s])
    BY <1>1, <1>2, <1>6, <1>8, <1>10, <2>1 DEF OrderlyIn, Idle
  <2>3. Active(r)' \/ AgreesWith(s, new[s], file[d][s])
    <3> SUFFICES ASSUME ~Active(r)' PROVE AgreesWith(s, new[s], file[d][s])
      OBVIOUS
    <3>1. record[r].pending \in Nat
      BY <1>1 DEF RunRecord
    <3>2. record[r].status \in Terminal /\ record[r].pending = 0
      BY <1>1, <1>2, <3>1 DEF Active, Busy, Writing, Live
    <3>3. /\ file[d][s].status = record[r].status /\ new[s].status = record[r].status
          /\ record[r].status = "succeeded" /\ Pipeline[s].exports => m[s] # None /\ m[s].specSource
      BY <1>1, <1>2, <1>6, <1>10, <3>2 DEF OrderlyIn, new
    <3> QED BY <1>2, <1>8, <1>10, <3>3 DEF AgreesWith
  <2> QED BY <1>1, <1>2, <1>3, <1>4, <1>8, <1>10, <2>1, <2>2, <2>3 DEF LeavesOrder, m
<1> QED BY <1>9, <1>10, AloneStep

LEMMA WriteFailsOrder ==
  ASSUME TypeOK, TypeOK', Mirrors, OrderInv, NEW r \in Run, WriteFails(r)
  PROVE  OrderInv'
<1>1. /\ writer[r].at # "idle" /\ writer[r] # Idle /\ record[r] # None /\ r \in Live
  BY KnownLemma DEF WriteFails, Idle
<1>2. /\ writer' = [writer EXCEPT ![r] = Idle] /\ mixed' = mixed \cup {record[r].dir}
      /\ record' = record /\ exporter' = exporter /\ file' = file /\ history' = history
      /\ manifest' = manifest
  BY DEF WriteFails, disk
<1>3. \A q \in Run \ {r} : writer'[q] = writer[q]
  BY <1>2 DEF TypeOK
<1>4. ActsAlone(r)
  BY <1>1, <1>2, <1>3 DEF ActsAlone, Active, Busy, Writing
<1> QED BY <1>2, <1>4, AloneStep

LEMMA ExportReadsOrder ==
  ASSUME TypeOK, TypeOK', Mirrors, OrderInv, NEW r \in Run, ExportReads(r)
  PROVE  OrderInv'
<1> DEFINE d == record[r].dir
           s == record[r].stage
           m == Read(manifest[d])
           x == [at |-> "manifest", data |-> [m EXCEPT ![s].specSource = TRUE]]
<1>1. /\ record[r] # None /\ r \in Live /\ d \in Run /\ s \in Stage /\ record[r] \in RunRecord
      /\ record[r].status = "running" /\ record[r].gatePassed /\ exporter[r] = Idle
  BY KnownLemma DEF ExportReads
<1>2. writer' = writer /\ file' = file /\ history' = history
  BY DEF ExportReads
<1>3. manifest' = manifest
  BY <1>1 DEF ExportReads, Opened, TypeOK
<1>4. mixed \subseteq mixed' /\ (Writing(r) => d \in mixed')
  BY DEF ExportReads
<1>5. m # None /\ m[s] # None => m = manifest[d]
  BY <1>1, ReadLemma, FoundLemma DEF TypeOK
<1>6. /\ m[s] # None => exporter' = [exporter EXCEPT ![r] = x] /\ record' = record
      /\ m[s] = None => exporter' = exporter
                          /\ record' = [record EXCEPT ![r].exported = TRUE]
  <2>1. Found(d) = m /\ m # None
    BY <1>1, ReadLemma, NoneIsNothing
  <2> QED BY <1>5, <2>1 DEF ExportReads
<1>7. /\ record'[r] # None /\ record'[r].dir = d /\ record'[r].stage = s
      /\ record'[r].status = "running"
      /\ \A q \in Run \ {r} : record'[q] = record[q] /\ exporter'[q] = exporter[q]
  <2> DEFINE rec == [record[r] EXCEPT !.exported = TRUE]
  <2>1. rec \in RunRecord /\ rec.dir = d /\ rec.stage = s /\ rec.status = "running"
    BY <1>1 DEF RunRecord
  <2>2. rec # None
    BY <2>1, NoneIsNothing
  <2>3. record' = record \/ record' = [record EXCEPT ![r] = rec]
    BY <1>6
  <2> HIDE DEF rec
  <2>4. record'[r] \in {record[r], rec} /\ \A q \in Run \ {r} : record'[q] = record[q]
    BY <2>3 DEF TypeOK
  <2>5. \A q \in Run \ {r} : exporter'[q] = exporter[q]
    BY <1>6 DEF TypeOK
  <2> QED BY <1>1, <2>1, <2>2, <2>4, <2>5
<1>8. Active(r) /\ Active(r)'
  BY <1>1, <1>7 DEF Active, Terminal
<1>9. ActsAlone(r)
  BY <1>1, <1>2, <1>3, <1>4, <1>7, <1>8 DEF ActsAlone
<1> HIDE DEF m, x
<1>10. ASSUME d \notin mixed' PROVE LeavesOrder(r)
  <2>1. OrderlyIn(record[r], writer[r], exporter[r], m, file[d][s])
    BY <1>1, <1>4, <1>10, OrderlyLemma DEF m
  <2>2. ~Writing(r)
    BY <1>4, <1>10
  <2>3. m[s] # None
    BY <1>1, <2>1, <2>2 DEF OrderlyIn, Writing
  <2>4. exporter'[r] = x /\ record' = record
    BY <1>6, <2>3 DEF TypeOK
  <2>5. OrderlyIn(record[r], writer[r], x, m, file[d][s])
    <3>1. x.data = [m EXCEPT ![s].specSource = TRUE]
      BY DEF x
    <3> QED BY <1>1, <2>1, <2>2, <2>3, <3>1 DEF OrderlyIn, Writing
  <2> QED BY <1>2, <1>3, <1>8, <2>4, <2>5 DEF LeavesOrder, m
<1> QED BY <1>9, <1>10, AloneStep

LEMMA ExportWritesOrder ==
  ASSUME TypeOK, TypeOK', Mirrors, OrderInv, NEW r \in Run, ExportWrites(r)
  PROVE  OrderInv'
<1> DEFINE d == record[r].dir
           s == record[r].stage
           m == Read(manifest[d])
           new == exporter[r].data
           rec == [record[r] EXCEPT !.exported = TRUE]
<1>1. exporter[r] # Idle /\ exporter[r].at = "manifest" /\ new \in Manifest
  BY ExporterLemma DEF ExportWrites, TypeOK
<1>2. /\ record[r] # None /\ r \in Live /\ d \in Run /\ s \in Stage /\ record[r] \in RunRecord
      /\ m \in Manifest
  BY <1>1, KnownLemma, ReadLemma
<1>3. /\ manifest' = [manifest EXCEPT ![d] = new] /\ exporter' = [exporter EXCEPT ![r] = Idle]
      /\ record' = [record EXCEPT ![r] = rec]
      /\ writer' = writer /\ file' = file /\ history' = history /\ mixed' = mixed
  BY DEF ExportWrites
<1>4. /\ rec \in RunRecord /\ rec.dir = d /\ rec.stage = s /\ rec.exported
      /\ rec.status = record[r].status /\ rec.gatePassed = record[r].gatePassed
      /\ rec.pending = record[r].pending
  BY <1>2 DEF RunRecord
<1> HIDE DEF rec, new, m
<1>5. /\ record'[r] = rec /\ rec # None /\ exporter'[r] = Idle
      /\ \A q \in Run \ {r} : record'[q] = record[q] /\ exporter'[q] = exporter[q]
  BY <1>3, <1>4, NoneIsNothing DEF TypeOK
<1>6. Read(manifest'[d]) = new /\ \A e \in Run \ {d} : Read(manifest'[e]) = Read(manifest[e])
  BY <1>1, <1>2, <1>3, ReadLemma DEF TypeOK
<1>7. d \notin mixed => OrderlyIn(record[r], writer[r], exporter[r], m, file[d][s])
  BY <1>2, OrderlyLemma DEF m
<1>8. d \notin mixed =>
        /\ record[r].status = "running" /\ m[s] # None
        /\ new = [m EXCEPT ![s].specSource = TRUE]
  BY <1>1, <1>7 DEF OrderlyIn, new
<1>9. d \notin mixed =>
        /\ \A t \in Stage \ {s} : new[t] = m[t]
        /\ new[s] # None /\ new[s].specSource
  <2> SUFFICES ASSUME d \notin mixed
               PROVE  /\ \A t \in Stage \ {s} : new[t] = m[t]
                      /\ new[s] # None /\ new[s].specSource
    OBVIOUS
  <2> DEFINE marked == [m EXCEPT ![s].specSource = TRUE]
  <2>1. /\ \A t \in Stage \ {s} : marked[t] = m[t]
        /\ marked[s] \in Entry /\ marked[s].specSource
    BY <1>2, <1>8, MarkedLemma
  <2> HIDE DEF marked
  <2>2. new = marked
    BY <1>8 DEF marked
  <2> QED BY <2>1, <2>2, NoneIsNothing
<1>10. ActsAlone(r)
  BY <1>1, <1>2, <1>3, <1>4, <1>5, <1>6, <1>9 DEF ActsAlone, m, Active, Busy
<1>11. ASSUME d \notin mixed' PROVE LeavesOrder(r)
  <2>1. OrderlyIn(rec, writer[r], Idle, new, file[d][s])
    <3>1. record[r].status = "running" /\ "running" \notin Terminal
            /\ ~(writer[r] # Idle \/ record[r].pending > 0)
      BY <1>1, <1>3, <1>7, <1>11 DEF OrderlyIn, Terminal
    <3> QED BY <1>3, <1>4, <1>7, <1>9, <1>11, <3>1 DEF OrderlyIn, Idle
  <2>2. Active(r)'
    BY <1>3, <1>4, <1>5, <1>8, <1>11 DEF Active, Terminal
  <2> QED BY <1>3, <1>5, <1>6, <1>9, <1>11, <2>1, <2>2 DEF LeavesOrder
<1> QED BY <1>10, <1>11, AloneStep

(* Nothing is known after a crash, and a stage no run was started for left *)
(* no artifact.                                                            *)
LEMMA CrashOrder ==
  ASSUME TypeOK, DiskFacts, OrderInv, Crash
  PROVE  OrderInv'
<1>1. /\ \A r \in Run : record'[r] = None
      /\ file' = file /\ manifest' = manifest /\ history' = history
  BY DEF Crash, disk
<1>2. ASSUME NEW d \in Run, NEW s \in Stage, Settled(d, s)'
      PROVE  file[d][s] = None
  <2> SUFFICES ASSUME file[d][s] # None PROVE FALSE
    OBVIOUS
  <2>1. FileTrue(history, d, s, file[d][s]) /\ file[d][s].run \in Run
    BY DEF DiskFacts, FilesTrue, TypeOK, Artifact
  <2> QED BY <1>1, <1>2, <2>1 DEF Settled, FileTrue
<1>3. OneActive' /\ InOrder'
  BY <1>1 DEF OneActive, InOrder
<1>4. AgreeWhenSettled'
  BY <1>1, <1>2 DEF AgreeWhenSettled, AgreesWith
<1> QED BY <1>3, <1>4 DEF OrderInv

LEMMA OrderStep ==
  TypeOK /\ TypeOK' /\ Mirrors /\ DiskFacts /\ OrderInv /\ [Next]_vars => OrderInv'
<1> SUFFICES ASSUME TypeOK, TypeOK', Mirrors, DiskFacts, OrderInv, [Next]_vars
             PROVE  OrderInv'
  OBVIOUS
<1>1. ASSUME NEW r \in Run, NEW s \in Stage, Start(r, s)
      PROVE  OrderInv'
  <2>1. Enters(r, s, r) /\ mixed' = mixed /\ history[r] = None
    BY <1>1 DEF Start, Enters
  <2>2. ASSUME NEW q \in Run, record[q] # None, record[q].dir = r
        PROVE  FALSE
    <3>1. history[q] # None /\ history[q].dir = r
      BY <2>2, KnownLemma DEF Live
    <3> QED BY <2>1, <3>1 DEF DiskFacts, OwnFirst
  <2> QED BY <2>1, <2>2, EntersOrder
<1>2. ASSUME NEW r \in Run, NEW s \in Stage, NEW from \in Stage, NEW d \in Run, Chain(r, s, d, from)
      PROVE  OrderInv'
  <2>1. Enters(r, s, d) /\ mixed \subseteq mixed'
    BY <1>2 DEF Chain
  <2>2. d \notin mixed' => \A q \in Run : record[q] # None /\ record[q].dir = d => ~Active(q)
    BY <1>2 DEF Chain, InDir, Live, Active
  <2> QED BY <2>1, <2>2, EntersOrder
<1>3. ASSUME NEW r \in Run, Suspend(r) \/ Approve(r) \/ Cancel(r)
                             \/ \E status \in Outcome : End(r, status)
      PROVE  OrderInv'
  <2>1. Outcome \cup {"running", "awaiting_approval", "cancelled"} \subseteq Status
    BY BoundsAssumption DEF Status, Terminal
  <2>2. \E status \in Status : \E rec : Moves(r, rec, status)
    BY <1>3, <2>1, StatusMoves
  <2> QED BY <2>2, MovesOrder
<1>4. ASSUME NEW r \in Run, TakeSnapshot(r) \/ PublishArtifact(r) \/ MergeEntry(r)
                             \/ PublishManifest(r) \/ WriteFails(r)
                             \/ ExportReads(r) \/ ExportWrites(r)
      PROVE  OrderInv'
  BY <1>4, TakeSnapshotOrder, PublishArtifactOrder, MergeEntryOrder, PublishManifestOrder,
     WriteFailsOrder, ExportReadsOrder, ExportWritesOrder
<1>5. ASSUME Crash PROVE OrderInv'
  BY <1>5, CrashOrder
<1>6. CASE UNCHANGED vars
  <2>1. \A r \in Run : Active(r)' <=> Active(r)
    BY <1>6 DEF vars, Active, Busy, Writing, Live
  <2>2. OneActive' /\ InOrder'
    BY <1>6, <2>1 DEF vars, OrderInv, OneActive, InOrder, Orderly
  <2>3. AgreeWhenSettled'
    BY <1>6, <2>1 DEF vars, OrderInv, AgreeWhenSettled, Settled
  <2> QED BY <2>2, <2>3 DEF OrderInv
<1> QED BY <1>1, <1>2, <1>3, <1>4, <1>5, <1>6 DEF Next, RunStep

(* When the stages of a chain follow one another, the manifest ends up     *)
(* saying what the artifacts say, and names the source of every exported   *)
(* spec (upsertManifestEntry, recordManifestSpecSource).                   *)
THEOREM ManifestsAgree == Spec => []ManifestAgrees
<1>1. ASSUME TypeOK, Mirrors, OrderInv, NEW d \in Run \ mixed,
             \A r \in Run : history[r] # None /\ history[r].dir = d =>
               history[r].status \in Terminal /\ r \in Live /\ ~Busy(r),
             NEW s \in Published(d)
      PROVE  /\ manifest[d] # None /\ manifest[d][s] # None
             /\ manifest[d][s].status = file[d][s].status
             /\ Pipeline[s].exports /\ file[d][s].status = "succeeded" =>
                  manifest[d][s].specSource
  <2>1. s \in Stage /\ file[d][s] # None
    BY DEF Published
  <2>2. Settled(d, s)
    BY <1>1, KnownLemma DEF Settled, Active, Live
  <2>3. AgreesWith(s, Read(manifest[d])[s], file[d][s])
    BY <1>1, <2>1, <2>2 DEF OrderInv, AgreeWhenSettled
  <2>4. manifest[d] # None
    <3>1. manifest[d] = None => Read(manifest[d])[s] = None
      BY <2>1 DEF Read
    <3> QED BY <2>1, <2>3, <3>1 DEF AgreesWith
  <2>5. Read(manifest[d]) = manifest[d]
    BY <1>1, <2>4, ReadLemma
  <2> QED BY <2>1, <2>3, <2>4, <2>5 DEF AgreesWith
<1>2. TypeOK /\ Mirrors /\ OrderInv => ManifestAgrees
  BY <1>1 DEF ManifestAgrees
<1>3. Init => TypeOK /\ Mirrors /\ DiskFacts /\ OrderInv
  BY TypeInit, DiskInit, OrderInit
<1>4. TypeOK /\ Mirrors /\ DiskFacts /\ OrderInv /\ [Next]_vars =>
        TypeOK' /\ Mirrors' /\ DiskFacts' /\ OrderInv'
  BY TypeStep, DiskStep, OrderStep
<1> QED BY <1>2, <1>3, <1>4, PTL DEF Spec
=============================================================================
