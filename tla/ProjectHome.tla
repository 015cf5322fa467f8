----------------------------- MODULE ProjectHome -----------------------------
(***************************************************************************)
(* The state directories of the projects of a machine: how a daemon that   *)
(* starts creates one and copies the runs of an older layout into it       *)
(* (src/runtime/projectState.ts), and how "agent-flows uninstall" deletes  *)
(* them (src/harness/uninstall.ts, src/serve/stop.ts).                     *)
(*                                                                         *)
(* A start is a process that takes one system call at a time: the copy     *)
(* goes to runs.partial and is renamed, under migrate.lock, a directory    *)
(* that is created or found.  A process may die anywhere, and a lock older *)
(* than ten minutes is reclaimed, whoever holds it.                        *)
(*                                                                         *)
(* Abstracted: what DaemonStart says of ports and records.  Here a record  *)
(* names a start, and a daemon that is up answers a probe or is too busy.  *)
(***************************************************************************)
EXTENDS Naturals, FiniteSets

CONSTANTS
  Project,    \* one state directory each
  Legacy,     \* those with runs in the old place
  File,       \* what there is to copy of them; symbolic links are skipped
  Start,      \* the starts of a daemon; one that is up is a daemon
  ProjectOf,  \* the project of each
  MaxDeaths,  \* BOUND: starts and daemons that are killed
  Absent

(* What a state directory holds: runs/, runs.partial, migrate.lock with    *)
(* who made it and whether it is ten minutes old, and the daemon's record. *)
StateDir ==
  [runs : {Absent} \cup SUBSET File, partial : {Absent} \cup SUBSET File,
   lock : Start \cup {Absent}, stale : BOOLEAN, record : Start \cup {Absent}]

ASSUME AbsentAssumption ==
  Absent \notin Start /\ Absent \notin StateDir /\ \A files \in SUBSET File : files # Absent
ASSUME LegacyAssumption == Legacy \subseteq Project
ASSUME StartsAssumption == ProjectOf \in [Start -> Project]
ASSUME DeathsAssumption == MaxDeaths \in Nat

VARIABLES
  dir,      \* project -> the content of its state directory, or Absent
  start,    \* the starts
  offer,    \* the questions of an uninstall
  library,  \* whether there is a personal workflow library
  deaths,   \* how many have been killed
  spoiled,  \* history: the projects of which a copy failed or was skipped,
            \* or a lock was taken from somebody alive
  seen      \* history: the daemons that answered the uninstall

home == <<dir, start, offer, library, deaths, spoiled, seen>>

Empty == [runs |-> Absent, partial |-> Absent, lock |-> Absent, stale |-> FALSE, record |-> Absent]

NoOffer == [at |-> "idle", listed |-> {}, left |-> {}, blocked |-> {}]

HomeInit ==
  /\ dir = [p \in Project |-> Absent]
  /\ start = [s \in Start |-> [pc |-> "off", copied |-> {}]]
  /\ offer = NoOffer
  /\ library = TRUE
  /\ deaths = 0
  /\ spoiled = {}
  /\ seen = {}

At(s, pc) == start[s].pc = pc
Alive(s) == start[s].pc \notin {"off", "dead"}
Dir(s) == dir[ProjectOf[s]]
Goto(s, pc) == start' = [start EXCEPT ![s].pc = pc]

---------------------------------------------------------------------------
(* A daemon starts (ensureProjectState, migrateLegacyRuns).                *)

(* A step of a start under way, and nobody else's.                         *)
StartOnly == UNCHANGED <<offer, library, deaths, seen>>

(* What a system call under the state directory finds: it may have been    *)
(* deleted since the start began.                                          *)
Exists(s) == Dir(s) # Absent

(* mkdir -p, which every write under the state directory begins with.      *)
Made(s) == IF Exists(s) THEN Dir(s) ELSE Empty

(* The directory, and the marker, which is written once.                   *)
EnsureProjectState(s) ==
  /\ At(s, "off")
  /\ dir' = [dir EXCEPT ![ProjectOf[s]] = Made(s)]
  /\ Goto(s, IF ProjectOf[s] \in Legacy THEN "lock" ELSE "record")
  /\ StartOnly /\ UNCHANGED spoiled

(* Variant: mkdir with "recursive" succeeds on a directory that is there.  *)
TakeAnyway(s, otherwise) ==
  /\ dir' = [dir EXCEPT ![ProjectOf[s]] =
       [Made(s) EXCEPT !.lock = s, !.stale = FALSE]]
  /\ Goto(s, "check")
  /\ StartOnly /\ UNCHANGED spoiled

(* mkdir of the lock without "recursive": an atomic test-and-set.          *)
TakeLock(s, otherwise) ==
  /\ IF Exists(s) /\ Dir(s).lock = Absent
     THEN /\ dir' = [dir EXCEPT ![ProjectOf[s]].lock = s, ![ProjectOf[s]].stale = FALSE]
          /\ Goto(s, "check")
          /\ UNCHANGED spoiled
     ELSE /\ Goto(s, otherwise)
          /\ spoiled' = IF otherwise = "record" THEN spoiled \cup {ProjectOf[s]} ELSE spoiled
          /\ UNCHANGED dir
  /\ StartOnly

(* acquireMigrationLock: any other error than EEXIST ends the start.       *)
AcquireLock(s) == At(s, "lock") /\ TakeLock(s, IF Exists(s) THEN "stat" ELSE "dead")

(* The age of the lock: one that is gone by now counts as old.             *)
StatLock(s) ==
  /\ At(s, "stat")
  /\ IF Exists(s) /\ Dir(s).lock # Absent /\ ~Dir(s).stale
     THEN Goto(s, "record") /\ spoiled' = spoiled \cup {ProjectOf[s]}
     ELSE Goto(s, "reclaim") /\ UNCHANGED spoiled
  /\ StartOnly /\ UNCHANGED dir

ReclaimLock(s) ==
  /\ At(s, "reclaim")
  /\ dir' = [dir EXCEPT ![ProjectOf[s]] = IF @ = Absent THEN Absent ELSE [@ EXCEPT !.lock = Absent]]
  /\ spoiled' = IF Exists(s) /\ Dir(s).lock # Absent /\ Alive(Dir(s).lock)
                THEN spoiled \cup {ProjectOf[s]} ELSE spoiled
  /\ Goto(s, "retake")
  /\ StartOnly

RetakeLock(s) == At(s, "retake") /\ TakeLock(s, "record")

(* Runs that are there have been copied; a partial copy is discarded, to   *)
(* no purpose or to be made again.                                         *)
DiscardPartial(s) ==
  /\ At(s, "check")
  /\ dir' = [dir EXCEPT ![ProjectOf[s]] = IF @ = Absent THEN Absent ELSE [@ EXCEPT !.partial = Absent]]
  /\ Goto(s, IF Exists(s) /\ Dir(s).runs # Absent THEN "unlock" ELSE "mkdir")
  /\ StartOnly /\ UNCHANGED spoiled

(* cpSync, file by file.  A file may not be copied (a full disk, a file    *)
(* that cannot be read), which ends the copy; the daemon goes on.          *)
MakePartial(s) ==
  /\ At(s, "mkdir")
  /\ dir' = [dir EXCEPT ![ProjectOf[s]] =
       [Made(s) EXCEPT !.partial = IF @ = Absent THEN {} ELSE @]]
  /\ start' = [start EXCEPT ![s] = [pc |-> "copy", copied |-> {}]]
  /\ StartOnly /\ UNCHANGED spoiled

CopyFile(s, f) ==
  /\ At(s, "copy")
  /\ f \in File \ start[s].copied
  /\ Exists(s) /\ Dir(s).partial # Absent
  /\ dir' = [dir EXCEPT ![ProjectOf[s]].partial = @ \cup {f}]
  /\ start' = [start EXCEPT ![s].copied = @ \cup {f}]
  /\ StartOnly /\ UNCHANGED spoiled

CopyFails(s) ==
  /\ At(s, "copy")
  /\ Goto(s, "unlock")
  /\ spoiled' = spoiled \cup {ProjectOf[s]}
  /\ StartOnly /\ UNCHANGED dir

(* rename fails where there is nothing to rename, or on a directory that   *)
(* is not empty.                                                           *)
RenamePartial(s) ==
  /\ At(s, "copy")
  /\ start[s].copied = File
  /\ IF Exists(s) /\ Dir(s).partial # Absent /\ Dir(s).runs = Absent
     THEN /\ dir' = [dir EXCEPT ![ProjectOf[s]].runs = Dir(s).partial,
                                ![ProjectOf[s]].partial = Absent]
          /\ UNCHANGED spoiled
     ELSE /\ spoiled' = spoiled \cup {ProjectOf[s]}
          /\ UNCHANGED dir
  /\ Goto(s, "unlock")
  /\ StartOnly

(* The finally of migrateLegacyRuns removes the lock, whoever's it is.     *)
Unlock(s) ==
  /\ At(s, "unlock")
  /\ dir' = [dir EXCEPT ![ProjectOf[s]] = IF @ = Absent THEN Absent ELSE [@ EXCEPT !.lock = Absent]]
  /\ Goto(s, "record")
  /\ StartOnly /\ UNCHANGED spoiled

(* The daemon listens and writes its record, into a directory that         *)
(* writeStateFile creates if it is gone.                                   *)
WriteRecord(s) ==
  /\ At(s, "record")
  /\ dir' = [dir EXCEPT ![ProjectOf[s]] = [Made(s) EXCEPT !.record = s]]
  /\ Goto(s, "up")
  /\ StartOnly /\ UNCHANGED spoiled

(* A daemon retires: its own record goes with it.                          *)
Retire(s) ==
  /\ At(s, "up")
  /\ dir' = [dir EXCEPT ![ProjectOf[s]] =
       IF @ # Absent /\ @.record = s THEN [@ EXCEPT !.record = Absent] ELSE @]
  /\ Goto(s, "dead")
  /\ StartOnly /\ UNCHANGED spoiled

(* The first run writes its directory, and with it runs/.                  *)
FirstRun(s) ==
  /\ At(s, "up")
  /\ Exists(s) => Dir(s).runs = Absent
  /\ dir' = [dir EXCEPT ![ProjectOf[s]] = [Made(s) EXCEPT !.runs = {}]]
  /\ StartOnly /\ UNCHANGED <<start, spoiled>>

Die(s) ==
  /\ Alive(s)
  /\ deaths < MaxDeaths
  /\ deaths' = deaths + 1
  /\ Goto(s, "dead")
  /\ UNCHANGED <<dir, offer, library, spoiled, seen>>

(* Ten minutes pass: also over a copy that takes longer.                   *)
LockAges(p) ==
  /\ dir[p] # Absent
  /\ dir[p].lock # Absent
  /\ ~dir[p].stale
  /\ dir' = [dir EXCEPT ![p].stale = TRUE]
  /\ UNCHANGED <<start, offer, library, deaths, spoiled, seen>>

StartStep(s) ==
  \/ EnsureProjectState(s) \/ AcquireLock(s) \/ StatLock(s) \/ ReclaimLock(s) \/ RetakeLock(s)
  \/ DiscardPartial(s) \/ MakePartial(s) \/ CopyFails(s) \/ RenamePartial(s) \/ Unlock(s)
  \/ \E f \in File : CopyFile(s, f)
  \/ WriteRecord(s) \/ Retire(s) \/ FirstRun(s) \/ Die(s)

---------------------------------------------------------------------------
(* Properties.                                                             *)

(* runs/ is never taken for a copy of the old runs while it lacks one of   *)
(* them, although a start may be killed anywhere and others may run beside *)
(* it: "an interrupted copy is never mistaken for a complete one"          *)
(* (migrateLegacyRuns).  Not so once a copy has failed or was skipped and  *)
(* the daemon then ran something, or a lock was taken from its holder.     *)
RunsAreWhole ==
  \A p \in Legacy \ spoiled :
    dir[p] # Absent /\ dir[p].runs # Absent => File \subseteq dir[p].runs
=============================================================================
