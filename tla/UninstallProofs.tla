--------------------------- MODULE UninstallProofs ---------------------------
(***************************************************************************)
(* Theorems about Uninstall, for any projects, any number of starts and    *)
(* daemons, any files to copy and any number of kills; and for any content *)
(* of opencode.json, any places the package can be installed at and any    *)
(* number of commands, interruptions and edits of the user's.              *)
(*                                                                         *)
(* 1. State directories.  The copy of the old runs is whole wherever       *)
(* nothing has failed, and no state directory is deleted under a daemon    *)
(* that answered.  The strengthening of the first follows one project:     *)
(* whoever is between the lock and its release holds the lock, which       *)
(* nobody takes from a live process without spoiling the project; what was *)
(* copied is in the partial copy; and a start that has got past the copy   *)
(* has left a runs/ behind, so that no first run makes one.                *)
(*                                                                         *)
(* 2. Texts.  Every edit of JsonMember is a splice: some tokens of the     *)
(* text make way for others, and the rest is shifted.  How deep objects    *)
(* nest is a difference of two counts, which adds up over stretches and    *)
(* does not change under a shift; where the tokens that go and those that  *)
(* come are balanced, every object around them ends where it ended, and    *)
(* the members of the others are where they were.  So deleteMember takes   *)
(* back what setMember has inserted, but for blanks.                       *)
(*                                                                         *)
(* 3. Registration.  opencode.json can only hold a text that bears nothing *)
(* of ours ("plain") or exactly one entry; which harnesses a command has   *)
(* reached is so when it reports (HarnessInv), and the file that the first *)
(* edit of an install has found is, until somebody else touches it, in the *)
(* backup, and in place again but for what install put in (FoundInv).      *)
(***************************************************************************)
EXTENDS Uninstall, WellFoundedInduction, FiniteSetTheorems, SequenceTheorems, TLAPS

Points ==
  {"off", "lock", "stat", "reclaim", "retake", "check", "mkdir", "copy", "unlock", "record", "up",
   "dead"}

Offers == {"idle", "library", "projects", "ask", "stop", "delete"}

HomeTypeOK ==
  /\ dir \in [Project -> StateDir \cup {Absent}]
  /\ start \in [Start -> [pc : Points, copied : SUBSET File]]
  /\ offer \in [at : Offers, listed : SUBSET Project, left : SUBSET Project,
                blocked : SUBSET Project]
  /\ library \in BOOLEAN
  /\ spoiled \subseteq Project /\ seen \subseteq Start

(* Between taking the lock and releasing it, and past the copy.            *)
Inside == {"check", "mkdir", "copy", "unlock"}
Past == {"unlock", "record", "up"}

(* What holds of a start s of an unspoiled project with old runs, when the *)
(* start stands at t and the project's state directory is d.               *)
Sound(s, t, d) ==
  /\ t.pc \in Inside => d # Absent /\ d.lock = s
  /\ t.pc = "copy" => d.partial # Absent /\ t.copied \subseteq d.partial
  /\ t.pc \in Past => d # Absent /\ d.runs # Absent

Whole(d) == (d # Absent /\ d.runs # Absent) => File \subseteq d.runs

CopyInv ==
  \A p \in Legacy \ spoiled :
    /\ Whole(dir[p])
    /\ \A s \in Start : ProjectOf[s] = p => Sound(s, start[s], dir[p])

(* A record names a daemon of its project.                                 *)
RecordsOurs ==
  \A p \in Project : dir[p] # Absent /\ dir[p].record # Absent => ProjectOf[dir[p].record] = p

(* Who answered the uninstall is stopped or has its project blocked; this  *)
(* is remembered while projects are stopped and deleted.                   *)
SeenInv ==
  /\ offer.at \notin {"stop", "delete"} => seen = {}
  /\ \A s \in seen : ProjectOf[s] \in offer.blocked \/ At(s, "dead")
  /\ offer.at # "idle" => job.at = "idle"

HomeInv == HomeTypeOK /\ CopyInv /\ RecordsOurs /\ SeenInv

(***************************************************************************)
(* The initial states.                                                     *)
(***************************************************************************)
LEMMA EmptyLemma == Empty \in StateDir /\ Empty # Absent /\ Empty.runs = Absent /\ Empty.record = Absent
<1>1. Empty \in StateDir
  BY DEF Empty, StateDir
<1>2. Absent \notin StateDir
  BY AbsentAssumption
<1>3. Empty.runs = Absent /\ Empty.record = Absent
  BY DEF Empty
<1> QED
  BY <1>1, <1>2, <1>3

LEMMA HomeBegins == Init => HomeInv
<1> SUFFICES ASSUME Init PROVE HomeInv
  OBVIOUS
<1>1. /\ dir = [p \in Project |-> Absent] /\ start = [s \in Start |-> [pc |-> "off", copied |-> {}]]
      /\ offer = NoOffer /\ library = TRUE /\ spoiled = {} /\ seen = {}
  BY DEF Init, HomeInit
<1>2. HomeTypeOK
  BY <1>1 DEF HomeTypeOK, NoOffer, Points, Offers
<1>3. CopyInv
  BY <1>1, LegacyAssumption DEF CopyInv, Sound, Whole, Inside, Past
<1>4. RecordsOurs /\ SeenInv
  BY <1>1 DEF RecordsOurs, SeenInv, NoOffer
<1> QED
  BY <1>2, <1>3, <1>4 DEF HomeInv

(***************************************************************************)
(* The steps of a start.                                                   *)
(***************************************************************************)
Standing == [pc : Points, copied : SUBSET File]

LEMMA DirShape ==
  ASSUME NEW d \in StateDir
  PROVE  /\ d # Absent
         /\ d.runs \in {Absent} \cup SUBSET File /\ d.partial \in {Absent} \cup SUBSET File
         /\ d.lock \in Start \cup {Absent} /\ d.record \in Start \cup {Absent}
<1>1. Absent \notin StateDir
  BY AbsentAssumption
<1>2. d # Absent
  BY <1>1
<1> QED
  BY <1>2 DEF StateDir

(* A step of s that leaves it at t and its project's directory with d: the *)
(* directory is not deleted, the only new record is its own, and if the    *)
(* project is unspoiled after it, all is sound there.                      *)
Moves(s, t, d) ==
  /\ dir' = [dir EXCEPT ![ProjectOf[s]] = d] /\ start' = [start EXCEPT ![s] = t]
  /\ spoiled' \in {spoiled, spoiled \cup {ProjectOf[s]}}
  /\ UNCHANGED <<offer, library, seen>>

Minds(s, t, d) ==
  /\ start[s].pc # "dead"
  /\ dir[ProjectOf[s]] # Absent => d # Absent
  /\ d # Absent /\ d.record # Absent =>
       d.record = s \/ (dir[ProjectOf[s]] # Absent /\ d.record = dir[ProjectOf[s]].record)
  /\ ProjectOf[s] \in Legacy \ spoiled' =>
       /\ Whole(d) /\ Sound(s, t, d)
       /\ \A u \in Start \ {s} : ProjectOf[u] = ProjectOf[s] => Sound(u, start[u], d)

OwnStep(s) ==
  \E t \in Standing, d \in StateDir \cup {Absent} : Moves(s, t, d) /\ Minds(s, t, d)

(* What the invariant says of a project, to start from.                    *)
LEMMA Before ==
  ASSUME HomeTypeOK, CopyInv, NEW s \in Start, NEW d0, d0 = dir[ProjectOf[s]]
  PROVE  /\ ProjectOf[s] \in Project /\ d0 \in StateDir \cup {Absent}
         /\ start[s] \in Standing
         /\ ProjectOf[s] \in Legacy \ spoiled =>
              /\ Whole(d0)
              /\ \A u \in Start : ProjectOf[u] = ProjectOf[s] => Sound(u, start[u], d0)
BY StartsAssumption DEF HomeTypeOK, CopyInv, Standing

(* Who is inside is there alone.                                           *)
LEMMA AloneInside ==
  ASSUME HomeTypeOK, CopyInv, NEW s \in Start, start[s].pc \in Inside, ProjectOf[s] \in Legacy \ spoiled
  PROVE  /\ dir[ProjectOf[s]] \in StateDir /\ dir[ProjectOf[s]].lock = s
         /\ \A u \in Start \ {s} : ProjectOf[u] = ProjectOf[s] => start[u].pc \notin Inside
BY Before DEF Sound

LEMMA StayLemma ==
  ASSUME HomeTypeOK, NEW s \in Start
  PROVE  dir = [dir EXCEPT ![ProjectOf[s]] = dir[ProjectOf[s]]] /\ start = [start EXCEPT ![s] = start[s]]
BY StartsAssumption DEF HomeTypeOK

LEMMA GotoLemma ==
  ASSUME HomeTypeOK, NEW s \in Start, NEW pc \in Points, Goto(s, pc), NEW t, t = [start[s] EXCEPT !.pc = pc]
  PROVE  /\ t \in Standing /\ t.pc = pc /\ t.copied = start[s].copied
         /\ start' = [start EXCEPT ![s] = t]
<1>1. start[s] \in Standing
  BY DEF HomeTypeOK, Standing
<1>2. t \in Standing /\ t.pc = pc /\ t.copied = start[s].copied
  BY <1>1 DEF Standing
<1>3. start' = [start EXCEPT ![s] = t]
  BY DEF Goto, HomeTypeOK
<1> QED
  BY <1>2, <1>3

LEMMA EnsureStep ==
  ASSUME HomeTypeOK, CopyInv, NEW s \in Start, EnsureProjectState(s)
  PROVE  OwnStep(s)
<1> DEFINE d0 == dir[ProjectOf[s]]
           d == IF d0 = Absent THEN Empty ELSE d0
           pc == IF ProjectOf[s] \in Legacy THEN "lock" ELSE "record"
           t == [start[s] EXCEPT !.pc = pc]
<1>1. d \in StateDir \cup {Absent} /\ d # Absent /\ (d = d0 \/ (d0 = Absent /\ d.runs = Absent /\ d.record = Absent))
  BY EmptyLemma, Before
<1>2. pc \in Points /\ Goto(s, pc) /\ start[s].pc = "off"
  BY DEF EnsureProjectState, At, Points
<1>3. dir' = [dir EXCEPT ![ProjectOf[s]] = d] /\ spoiled' = spoiled /\ UNCHANGED <<offer, library, seen>>
  BY DEF EnsureProjectState, StartOnly, Made, Exists, Dir
<1> HIDE DEF d, pc
<1>4. t \in Standing /\ t.pc = pc /\ start' = [start EXCEPT ![s] = t]
  BY <1>2, GotoLemma
<1> HIDE DEF t
<1>5. Moves(s, t, d)
  BY <1>3, <1>4 DEF Moves
<1>6. ASSUME ProjectOf[s] \in Legacy \ spoiled'
      PROVE  /\ Whole(d) /\ Sound(s, t, d)
             /\ \A u \in Start \ {s} : ProjectOf[u] = ProjectOf[s] => Sound(u, start[u], d)
  <2>1. Whole(d0) /\ \A u \in Start : ProjectOf[u] = ProjectOf[s] => Sound(u, start[u], d0)
    BY <1>3, <1>6, Before
  <2>2. t.pc = "lock"
    BY <1>4, <1>6 DEF pc
  <2> QED
    BY <1>1, <2>1, <2>2 DEF Whole, Sound, Inside, Past
<1>7. Minds(s, t, d)
  BY <1>1, <1>2, <1>6 DEF Minds
<1> QED
  BY <1>1, <1>4, <1>5, <1>7 DEF OwnStep

(* A step that leaves the directory alone and does not go inside or past.  *)
LEMMA OutsideStep ==
  ASSUME HomeTypeOK, CopyInv, NEW s \in Start, NEW pc \in Points, Goto(s, pc), start[s].pc # "dead",
         dir' = dir, spoiled' \in {spoiled, spoiled \cup {ProjectOf[s]}}, UNCHANGED <<offer, library, seen>>,
         pc \in {"stat", "reclaim", "dead"} \/ ProjectOf[s] \in spoiled'
  PROVE  OwnStep(s)
<1> DEFINE d == dir[ProjectOf[s]]
           t == [start[s] EXCEPT !.pc = pc]
<1>1. d \in StateDir \cup {Absent}
  BY Before
<1>2. t \in Standing /\ t.pc = pc /\ start' = [start EXCEPT ![s] = t]
  BY GotoLemma
<1>3. Moves(s, t, d)
  BY <1>2, StayLemma DEF Moves
<1> HIDE DEF t
<1>4. Minds(s, t, d)
  BY <1>2, Before DEF Minds, Sound, Inside, Past
<1> QED
  BY <1>1, <1>2, <1>3, <1>4 DEF OwnStep

LEMMA TakeStep ==
  ASSUME HomeTypeOK, CopyInv, NEW s \in Start, start[s].pc \notin Inside \cup {"dead"},
         NEW otherwise \in {"stat", "dead", "record"}, TakeLock(s, otherwise)
  PROVE  OwnStep(s)
<1> DEFINE d0 == dir[ProjectOf[s]]
           d == [d0 EXCEPT !.lock = s, !.stale = FALSE]
           t == [start[s] EXCEPT !.pc = "check"]
<1>1. CASE ~ (Exists(s) /\ Dir(s).lock = Absent)
  <2>1. /\ Goto(s, otherwise) /\ dir' = dir /\ UNCHANGED <<offer, library, seen>>
        /\ spoiled' = IF otherwise = "record" THEN spoiled \cup {ProjectOf[s]} ELSE spoiled
    BY <1>1 DEF TakeLock, StartOnly
  <2>2. otherwise \in Points
    BY DEF Points
  <2> QED
    BY <2>1, <2>2, OutsideStep
<1>2. CASE Exists(s) /\ Dir(s).lock = Absent
  <2>1. d0 \in StateDir /\ d0.lock = Absent
    BY <1>2, Before DEF Exists, Dir
  <2>2. /\ dir' = [dir EXCEPT ![ProjectOf[s]].lock = s, ![ProjectOf[s]].stale = FALSE]
        /\ Goto(s, "check") /\ spoiled' = spoiled /\ UNCHANGED <<offer, library, seen>>
    BY <1>2 DEF TakeLock, StartOnly
  <2>3. d \in StateDir /\ d.lock = s /\ d.runs = d0.runs /\ d.partial = d0.partial /\ d.record = d0.record
    BY <2>1 DEF StateDir
  <2>4. dir' = [dir EXCEPT ![ProjectOf[s]] = d]
    BY <2>2, StartsAssumption DEF HomeTypeOK
  <2>5. t \in Standing /\ t.pc = "check" /\ start' = [start EXCEPT ![s] = t]
    BY <2>2, GotoLemma DEF Points
  <2> HIDE DEF d, t
  <2>6. Moves(s, t, d)
    BY <2>2, <2>4, <2>5 DEF Moves
  <2>7. d # Absent /\ d0 # Absent
    BY <2>1, <2>3, DirShape
  <2>8. ASSUME ProjectOf[s] \in Legacy \ spoiled'
        PROVE  /\ Whole(d) /\ Sound(s, t, d)
               /\ \A u \in Start \ {s} : ProjectOf[u] = ProjectOf[s] => Sound(u, start[u], d)
    <3>1. Whole(d0) /\ \A u \in Start : ProjectOf[u] = ProjectOf[s] => Sound(u, start[u], d0)
      BY <2>2, <2>8, Before
    <3>2. \A u \in Start : ProjectOf[u] = ProjectOf[s] => start[u].pc \notin Inside
      BY <2>1, <3>1, AbsentAssumption DEF Sound
    <3> QED
      BY <2>3, <2>5, <2>7, <3>1, <3>2 DEF Whole, Sound, Inside, Past
  <2>9. Minds(s, t, d)
    BY <2>3, <2>7, <2>8 DEF Minds
  <2> QED
    BY <2>3, <2>5, <2>6, <2>9 DEF OwnStep
<1> QED
  BY <1>1, <1>2

LEMMA ReclaimStep ==
  ASSUME HomeTypeOK, CopyInv, NEW s \in Start, ReclaimLock(s)
  PROVE  OwnStep(s)
<1> DEFINE d0 == dir[ProjectOf[s]]
           d == IF d0 = Absent THEN Absent ELSE [d0 EXCEPT !.lock = Absent]
           t == [start[s] EXCEPT !.pc = "retake"]
<1>1. /\ start[s].pc = "reclaim" /\ Goto(s, "retake") /\ UNCHANGED <<offer, library, seen>>
      /\ dir' = [dir EXCEPT ![ProjectOf[s]] = d]
      /\ spoiled' = IF d0 # Absent /\ d0.lock # Absent /\ Alive(d0.lock)
                    THEN spoiled \cup {ProjectOf[s]} ELSE spoiled
  BY DEF ReclaimLock, At, Exists, Dir, StartOnly
<1>2. t \in Standing /\ t.pc = "retake" /\ start' = [start EXCEPT ![s] = t]
  BY <1>1, GotoLemma DEF Points
<1>3. \/ d0 = Absent /\ d = Absent
      \/ /\ d0 \in StateDir /\ d0 # Absent /\ d \in StateDir /\ d # Absent
         /\ d.runs = d0.runs /\ d.record = d0.record
  <2>1. CASE d0 # Absent
    <3>1. d0 \in StateDir
      BY <2>1, Before
    <3>2. [d0 EXCEPT !.lock = Absent] \in StateDir
            /\ [d0 EXCEPT !.lock = Absent].runs = d0.runs /\ [d0 EXCEPT !.lock = Absent].record = d0.record
      BY <3>1 DEF StateDir
    <3> QED
      BY <2>1, <3>1, <3>2, DirShape
  <2> QED
    BY <2>1
<1> HIDE DEF d, t
<1>4. Moves(s, t, d)
  BY <1>1, <1>2 DEF Moves
<1>5. ASSUME ProjectOf[s] \in Legacy \ spoiled'
      PROVE  /\ Whole(d) /\ Sound(s, t, d)
             /\ \A u \in Start \ {s} : ProjectOf[u] = ProjectOf[s] => Sound(u, start[u], d)
  <2>1. Whole(d0) /\ \A u \in Start : ProjectOf[u] = ProjectOf[s] => Sound(u, start[u], d0)
    BY <1>1, <1>5, Before
  <2>2. ~ (d0 # Absent /\ d0.lock # Absent /\ Alive(d0.lock))
    BY <1>1, <1>5
  <2>3. \A u \in Start : ProjectOf[u] = ProjectOf[s] => start[u].pc \notin Inside
    BY <2>1, <2>2, AbsentAssumption DEF Sound, Alive, Inside
  <2> QED
    BY <1>2, <1>3, <2>1, <2>3 DEF Whole, Sound, Inside, Past
<1>6. Minds(s, t, d)
  BY <1>1, <1>3, <1>5 DEF Minds
<1> QED
  BY <1>2, <1>3, <1>4, <1>6 DEF OwnStep

LEMMA DiscardStep ==
  ASSUME HomeTypeOK, CopyInv, NEW s \in Start, DiscardPartial(s)
  PROVE  OwnStep(s)
<1> DEFINE d0 == dir[ProjectOf[s]]
           d == IF d0 = Absent THEN Absent ELSE [d0 EXCEPT !.partial = Absent]
           pc == IF d0 # Absent /\ d0.runs # Absent THEN "unlock" ELSE "mkdir"
           t == [start[s] EXCEPT !.pc = pc]
<1>1. /\ start[s].pc = "check" /\ Goto(s, pc) /\ UNCHANGED <<offer, library, seen>>
      /\ dir' = [dir EXCEPT ![ProjectOf[s]] = d] /\ spoiled' = spoiled
  BY DEF DiscardPartial, At, Exists, Dir, StartOnly
<1>2. t \in Standing /\ t.pc = pc /\ start' = [start EXCEPT ![s] = t]
  <2>1. pc \in Points
    BY DEF Points
  <2> HIDE DEF pc
  <2> QED
    BY <1>1, <2>1, GotoLemma
<1>3. \/ d0 = Absent /\ d = Absent
      \/ /\ d0 \in StateDir /\ d0 # Absent /\ d \in StateDir /\ d # Absent
         /\ d.runs = d0.runs /\ d.record = d0.record /\ d.lock = d0.lock
  <2>1. CASE d0 # Absent
    <3>1. d0 \in StateDir
      BY <2>1, Before
    <3> DEFINE e == [d0 EXCEPT !.partial = Absent]
    <3>2. e \in StateDir /\ e.runs = d0.runs /\ e.record = d0.record /\ e.lock = d0.lock
      BY <3>1 DEF StateDir
    <3> QED
      BY <2>1, <3>1, <3>2, DirShape
  <2> QED
    BY <2>1
<1>7. (pc = "unlock" /\ d0 # Absent /\ d0.runs # Absent) \/ pc = "mkdir"
  OBVIOUS
<1> HIDE DEF d, t, pc
<1>4. Moves(s, t, d)
  BY <1>1, <1>2 DEF Moves
<1>5. ASSUME ProjectOf[s] \in Legacy \ spoiled'
      PROVE  /\ Whole(d) /\ Sound(s, t, d)
             /\ \A u \in Start \ {s} : ProjectOf[u] = ProjectOf[s] => Sound(u, start[u], d)
  <2>1. Whole(d0) /\ \A u \in Start : ProjectOf[u] = ProjectOf[s] => Sound(u, start[u], d0)
    BY <1>1, <1>5, Before
  <2>2. /\ d0 # Absent /\ d0.lock = s
        /\ \A u \in Start \ {s} : ProjectOf[u] = ProjectOf[s] => start[u].pc \notin Inside
    BY <1>1, <1>5, AloneInside, DirShape DEF Inside
  <2> QED
    BY <1>2, <1>3, <1>7, <2>1, <2>2 DEF Whole, Sound, Inside, Past
<1>6. Minds(s, t, d)
  BY <1>1, <1>3, <1>5 DEF Minds
<1> QED
  BY <1>2, <1>3, <1>4, <1>6 DEF OwnStep

(* A step from the inside, which nobody else of the project shares.        *)
LEMMA InsideStep ==
  ASSUME HomeTypeOK, CopyInv, NEW s \in Start, start[s].pc \in Inside,
         NEW t \in Standing, NEW d \in StateDir \cup {Absent}, Moves(s, t, d),
         NEW d0, d0 = dir[ProjectOf[s]],
         d0 # Absent => d # Absent,
         (d # Absent /\ d.record # Absent) => (d0 # Absent /\ d.record = d0.record),
         ProjectOf[s] \in Legacy \ spoiled' =>
           /\ d # Absent /\ Sound(s, t, d)
           /\ d.runs = d0.runs \/ (d.runs # Absent /\ File \subseteq d.runs)
  PROVE  OwnStep(s)
<1>1. start[s].pc # "dead"
  BY DEF Inside
<1>2. ASSUME ProjectOf[s] \in Legacy \ spoiled'
      PROVE  /\ Whole(d) /\ Sound(s, t, d)
             /\ \A u \in Start \ {s} : ProjectOf[u] = ProjectOf[s] => Sound(u, start[u], d)
  <2>1. ProjectOf[s] \in Legacy \ spoiled
    BY <1>2 DEF Moves
  <2>2. Whole(d0) /\ \A u \in Start : ProjectOf[u] = ProjectOf[s] => Sound(u, start[u], d0)
    BY <2>1, Before
  <2>3. d0 # Absent /\ \A u \in Start \ {s} : ProjectOf[u] = ProjectOf[s] => start[u].pc \notin Inside
    BY <2>1, AloneInside, DirShape
  <2>4. /\ d # Absent /\ Sound(s, t, d)
        /\ d.runs = d0.runs \/ (d.runs # Absent /\ File \subseteq d.runs)
    BY <1>2
  <2>5. Whole(d)
    BY <2>2, <2>3, <2>4 DEF Whole
  <2>6. ASSUME NEW u \in Start \ {s}, ProjectOf[u] = ProjectOf[s]
        PROVE  Sound(u, start[u], d)
    <3>1. start[u].pc \notin Inside /\ Sound(u, start[u], d0)
      BY <2>2, <2>3, <2>6
    <3> QED
      BY <2>4, <3>1 DEF Sound, Inside
  <2> QED
    BY <2>4, <2>5, <2>6
<1>3. Minds(s, t, d)
  BY <1>1, <1>2 DEF Minds
<1> QED
  BY <1>3 DEF OwnStep

(* A directory that is there, or an empty one.                             *)
LEMMA MadeLemma ==
  ASSUME NEW d0 \in StateDir \cup {Absent}, NEW e, e = IF d0 = Absent THEN Empty ELSE d0
  PROVE  /\ e \in StateDir
         /\ (e = d0 /\ d0 # Absent) \/ (d0 = Absent /\ e.runs = Absent /\ e.record = Absent)
BY EmptyLemma

LEMMA MakeStep ==
  ASSUME HomeTypeOK, CopyInv, NEW s \in Start, MakePartial(s)
  PROVE  OwnStep(s)
<1> DEFINE d0 == dir[ProjectOf[s]]
           e == IF d0 = Absent THEN Empty ELSE d0
           f == IF e.partial = Absent THEN {} ELSE e.partial
           d == [e EXCEPT !.partial = f]
           t == [pc |-> "copy", copied |-> {}]
<1>1. d0 \in StateDir \cup {Absent}
  BY Before
<1>2. /\ e \in StateDir
      /\ (e = d0 /\ d0 # Absent) \/ (d0 = Absent /\ e.runs = Absent /\ e.record = Absent)
  BY <1>1, MadeLemma
<1>3. /\ start[s].pc = "mkdir" /\ UNCHANGED <<offer, library, seen>> /\ spoiled' = spoiled
      /\ start' = [start EXCEPT ![s] = t]
      /\ dir' = [dir EXCEPT ![ProjectOf[s]] = d]
  BY <1>1, StartsAssumption DEF MakePartial, At, StartOnly, HomeTypeOK, Made, Exists, Dir
<1>4. f \in SUBSET File /\ f \in {Absent} \cup SUBSET File /\ f # Absent
  BY <1>2, AbsentAssumption, DirShape
<1>5. /\ d \in StateDir /\ d.partial = f /\ d.runs = e.runs /\ d.lock = e.lock /\ d.record = e.record
  BY <1>2, <1>4 DEF StateDir
<1>6. t \in Standing /\ t.pc = "copy" /\ t.copied = {}
  BY DEF Standing, Points
<1> HIDE DEF e, f, d, t
<1>7. Moves(s, t, d)
  BY <1>3 DEF Moves
<1>8. d # Absent
  BY <1>5, DirShape
<1>9. ASSUME ProjectOf[s] \in Legacy \ spoiled'
      PROVE  Sound(s, t, d) /\ d.runs = d0.runs
  <2>1. d0 # Absent /\ d0.lock = s
    BY <1>3, <1>9, AloneInside, DirShape DEF Inside
  <2> QED
    BY <1>2, <1>4, <1>5, <1>6, <1>8, <2>1 DEF Sound, Past
<1>10. (d # Absent /\ d.record # Absent) => (d0 # Absent /\ d.record = d0.record)
  BY <1>2, <1>5
<1>11. start[s].pc \in Inside
  BY <1>3 DEF Inside
<1> QED
  BY <1>5, <1>6, <1>7, <1>8, <1>9, <1>10, <1>11, InsideStep

LEMMA CopyStep ==
  ASSUME HomeTypeOK, CopyInv, NEW s \in Start, NEW f \in File, CopyFile(s, f)
  PROVE  OwnStep(s)
<1> DEFINE d0 == dir[ProjectOf[s]]
           d == [d0 EXCEPT !.partial = d0.partial \cup {f}]
           t == [start[s] EXCEPT !.copied = start[s].copied \cup {f}]
<1>1. d0 \in StateDir /\ d0 # Absent /\ d0.partial # Absent
  BY Before DEF CopyFile, Exists, Dir
<1>2. d0.partial \cup {f} \in {Absent} \cup SUBSET File /\ d0.partial \cup {f} # Absent
  BY <1>1, AbsentAssumption, DirShape
<1>3. /\ d \in StateDir /\ d.partial = d0.partial \cup {f} /\ d.runs = d0.runs /\ d.lock = d0.lock
      /\ d.record = d0.record
  BY <1>1, <1>2 DEF StateDir
<1>4. start[s] \in Standing
  BY Before
<1>5. t \in Standing /\ t.pc = start[s].pc /\ t.copied = start[s].copied \cup {f}
  BY <1>4 DEF Standing
<1>6. /\ start[s].pc = "copy" /\ UNCHANGED <<offer, library, seen>> /\ spoiled' = spoiled
      /\ dir' = [dir EXCEPT ![ProjectOf[s]] = d] /\ start' = [start EXCEPT ![s] = t]
  BY StartsAssumption DEF CopyFile, At, StartOnly, HomeTypeOK
<1> HIDE DEF d, t
<1>7. Moves(s, t, d)
  BY <1>6 DEF Moves
<1>8. d # Absent
  BY <1>3, DirShape
<1>9. ASSUME ProjectOf[s] \in Legacy \ spoiled'
      PROVE  Sound(s, t, d)
  <2>1. Sound(s, start[s], d0)
    BY <1>6, <1>9, Before
  <2> QED
    BY <1>2, <1>3, <1>5, <1>6, <1>8, <2>1 DEF Sound, Inside, Past
<1>10. start[s].pc \in Inside
  BY <1>6 DEF Inside
<1> QED
  BY <1>1, <1>3, <1>5, <1>7, <1>8, <1>9, <1>10, InsideStep

LEMMA RenameStep ==
  ASSUME HomeTypeOK, CopyInv, NEW s \in Start, RenamePartial(s)
  PROVE  OwnStep(s)
<1> DEFINE d0 == dir[ProjectOf[s]]
           d == [d0 EXCEPT !.runs = d0.partial, !.partial = Absent]
           t == [start[s] EXCEPT !.pc = "unlock"]
           moved == Exists(s) /\ Dir(s).partial # Absent /\ Dir(s).runs = Absent
<1>1. /\ start[s].pc = "copy" /\ start[s].copied = File /\ Goto(s, "unlock")
      /\ UNCHANGED <<offer, library, seen>>
  BY DEF RenamePartial, At, StartOnly
<1>2. CASE ~moved
  <2>1. dir' = dir /\ spoiled' = spoiled \cup {ProjectOf[s]}
    BY <1>2 DEF RenamePartial
  <2>2. "unlock" \in Points
    BY DEF Points
  <2> QED
    BY <1>1, <2>1, <2>2, StartsAssumption, OutsideStep
<1>3. CASE moved
  <2>1. d0 \in StateDir /\ d0 # Absent /\ d0.partial # Absent
    BY <1>3, Before DEF Exists, Dir
  <2>2. d0.partial \in {Absent} \cup SUBSET File
    BY <2>1, DirShape
  <2>3. d \in StateDir /\ d.runs = d0.partial /\ d.lock = d0.lock /\ d.record = d0.record
    BY <2>1, <2>2 DEF StateDir
  <2>4. t \in Standing /\ t.pc = "unlock" /\ start' = [start EXCEPT ![s] = t]
    BY <1>1, GotoLemma DEF Points
  <2>5. spoiled' = spoiled /\ dir' = [dir EXCEPT ![ProjectOf[s]] = d]
    BY <1>3, StartsAssumption DEF RenamePartial, HomeTypeOK, Dir
  <2> HIDE DEF d, t
  <2>6. Moves(s, t, d)
    BY <1>1, <2>4, <2>5 DEF Moves
  <2>7. d # Absent
    BY <2>3, DirShape
  <2>8. ASSUME ProjectOf[s] \in Legacy \ spoiled'
        PROVE  Sound(s, t, d) /\ d.runs # Absent /\ File \subseteq d.runs
    <3>1. Sound(s, start[s], d0)
      BY <2>5, <2>8, Before
    <3> QED
      BY <1>1, <2>1, <2>3, <2>4, <2>7, <3>1 DEF Sound, Inside, Past
  <2>9. start[s].pc \in Inside
    BY <1>1 DEF Inside
  <2> QED
    BY <2>1, <2>3, <2>4, <2>6, <2>7, <2>8, <2>9, InsideStep
<1> QED
  BY <1>2, <1>3

LEMMA UnlockStep ==
  ASSUME HomeTypeOK, CopyInv, NEW s \in Start, Unlock(s)
  PROVE  OwnStep(s)
<1> DEFINE d0 == dir[ProjectOf[s]]
           d == IF d0 = Absent THEN Absent ELSE [d0 EXCEPT !.lock = Absent]
           t == [start[s] EXCEPT !.pc = "record"]
<1>1. /\ start[s].pc = "unlock" /\ Goto(s, "record") /\ UNCHANGED <<offer, library, seen>>
      /\ dir' = [dir EXCEPT ![ProjectOf[s]] = d] /\ spoiled' = spoiled
  BY DEF Unlock, At, StartOnly
<1>2. t \in Standing /\ t.pc = "record" /\ start' = [start EXCEPT ![s] = t]
  BY <1>1, GotoLemma DEF Points
<1>3. \/ d0 = Absent /\ d = Absent
      \/ /\ d0 \in StateDir /\ d0 # Absent /\ d \in StateDir /\ d # Absent
         /\ d.runs = d0.runs /\ d.record = d0.record
  <2>1. CASE d0 # Absent
    <3>1. d0 \in StateDir
      BY <2>1, Before
    <3> DEFINE e == [d0 EXCEPT !.lock = Absent]
    <3>2. e \in StateDir /\ e.runs = d0.runs /\ e.record = d0.record
      BY <3>1 DEF StateDir
    <3> QED
      BY <2>1, <3>1, <3>2, DirShape
  <2> QED
    BY <2>1
<1> HIDE DEF d, t
<1>4. Moves(s, t, d)
  BY <1>1, <1>2 DEF Moves
<1>5. ASSUME ProjectOf[s] \in Legacy \ spoiled'
      PROVE  d # Absent /\ Sound(s, t, d) /\ d.runs = d0.runs
  <2>1. Sound(s, start[s], d0)
    BY <1>1, <1>5, Before
  <2>2. d0 # Absent /\ d0.runs # Absent
    BY <1>1, <2>1 DEF Sound, Past
  <2> QED
    BY <1>2, <1>3, <2>2 DEF Sound, Inside, Past
<1>6. start[s].pc \in Inside /\ d \in StateDir \cup {Absent}
  BY <1>1, <1>3 DEF Inside
<1>7. /\ d0 # Absent => d # Absent
      /\ (d # Absent /\ d.record # Absent) => (d0 # Absent /\ d.record = d0.record)
  BY <1>3
<1> QED
  BY <1>2, <1>4, <1>5, <1>6, <1>7, InsideStep

(* A step of a start that is not inside, after which no runs/ is there     *)
(* that was not before, unless the project is spoiled.                     *)
LEMMA OtherStep ==
  ASSUME HomeTypeOK, CopyInv, NEW s \in Start, start[s].pc \notin Inside \cup {"dead"},
         NEW t \in Standing, t.pc \notin Inside, NEW d \in StateDir \cup {Absent}, Moves(s, t, d),
         NEW d0, d0 = dir[ProjectOf[s]],
         d0 # Absent => d # Absent,
         (d # Absent /\ d.record # Absent) => (d.record = s \/ (d0 # Absent /\ d.record = d0.record)),
         ProjectOf[s] \in Legacy \ spoiled' =>
           /\ d # Absent /\ d0 # Absent /\ d.runs = d0.runs /\ d.lock = d0.lock /\ d.partial = d0.partial
           /\ t.pc \in Past => d0.runs # Absent
  PROVE  OwnStep(s)
<1>1. ASSUME ProjectOf[s] \in Legacy \ spoiled'
      PROVE  /\ Whole(d) /\ Sound(s, t, d)
             /\ \A u \in Start \ {s} : ProjectOf[u] = ProjectOf[s] => Sound(u, start[u], d)
  <2>1. ProjectOf[s] \in Legacy \ spoiled
    BY <1>1 DEF Moves
  <2>2. Whole(d0) /\ \A u \in Start : ProjectOf[u] = ProjectOf[s] => Sound(u, start[u], d0)
    BY <2>1, Before
  <2>3. /\ d # Absent /\ d0 # Absent /\ d.runs = d0.runs /\ d.lock = d0.lock /\ d.partial = d0.partial
        /\ t.pc \in Past => d0.runs # Absent
    BY <1>1
  <2>4. Whole(d)
    BY <2>2, <2>3 DEF Whole
  <2>5. Sound(s, t, d)
    BY <2>3 DEF Sound, Inside
  <2>6. ASSUME NEW u \in Start \ {s}, ProjectOf[u] = ProjectOf[s]
        PROVE  Sound(u, start[u], d)
    <3>1. Sound(u, start[u], d0)
      BY <2>2, <2>6
    <3> QED
      BY <2>3, <3>1 DEF Sound
  <2> QED
    BY <2>4, <2>5, <2>6
<1>2. Minds(s, t, d)
  BY <1>1 DEF Minds
<1> QED
  BY <1>2 DEF OwnStep

LEMMA RecordStep ==
  ASSUME HomeTypeOK, CopyInv, NEW s \in Start, WriteRecord(s)
  PROVE  OwnStep(s)
<1> DEFINE d0 == dir[ProjectOf[s]]
           e == IF d0 = Absent THEN Empty ELSE d0
           d == [e EXCEPT !.record = s]
           t == [start[s] EXCEPT !.pc = "up"]
<1>1. d0 \in StateDir \cup {Absent}
  BY Before
<1>2. e \in StateDir /\ (d0 # Absent => e = d0)
  BY <1>1, MadeLemma
<1>3. /\ start[s].pc = "record" /\ Goto(s, "up") /\ UNCHANGED <<offer, library, seen>>
      /\ spoiled' = spoiled /\ dir' = [dir EXCEPT ![ProjectOf[s]] = d]
  BY DEF WriteRecord, At, StartOnly, Made, Exists, Dir
<1>4. d \in StateDir /\ d.record = s /\ d.runs = e.runs /\ d.lock = e.lock /\ d.partial = e.partial
  BY <1>2 DEF StateDir
<1>5. t \in Standing /\ t.pc = "up" /\ start' = [start EXCEPT ![s] = t]
  BY <1>3, GotoLemma DEF Points
<1> HIDE DEF e, d, t
<1>6. Moves(s, t, d)
  BY <1>3, <1>5 DEF Moves
<1>7. d # Absent
  BY <1>4, DirShape
<1>8. ASSUME ProjectOf[s] \in Legacy \ spoiled'
      PROVE  /\ d # Absent /\ d0 # Absent /\ d.runs = d0.runs /\ d.lock = d0.lock /\ d.partial = d0.partial
             /\ d0.runs # Absent
  <2>1. Sound(s, start[s], d0)
    BY <1>3, <1>8, Before
  <2>2. d0 # Absent /\ d0.runs # Absent
    BY <1>3, <2>1 DEF Sound, Past
  <2> QED
    BY <1>2, <1>4, <1>7, <2>2
<1>9. start[s].pc \notin Inside \cup {"dead"} /\ t.pc \notin Inside
  BY <1>3, <1>5 DEF Inside
<1> QED
  BY <1>4, <1>5, <1>6, <1>7, <1>8, <1>9, OtherStep

LEMMA RetireStep ==
  ASSUME HomeTypeOK, CopyInv, NEW s \in Start, Retire(s)
  PROVE  OwnStep(s)
<1> DEFINE d0 == dir[ProjectOf[s]]
           d == IF d0 # Absent /\ d0.record = s THEN [d0 EXCEPT !.record = Absent] ELSE d0
           t == [start[s] EXCEPT !.pc = "dead"]
<1>1. d0 \in StateDir \cup {Absent}
  BY Before
<1>2. /\ start[s].pc = "up" /\ Goto(s, "dead") /\ UNCHANGED <<offer, library, seen>>
      /\ spoiled' = spoiled /\ dir' = [dir EXCEPT ![ProjectOf[s]] = d]
  BY DEF Retire, At, StartOnly
<1>3. \/ d = d0
      \/ /\ d0 # Absent /\ d \in StateDir /\ d.record = Absent /\ d.runs = d0.runs /\ d.lock = d0.lock
         /\ d.partial = d0.partial
  <2>1. CASE d0 # Absent /\ d0.record = s
    <3>1. d0 \in StateDir
      BY <1>1, <2>1
    <3>2. d = [d0 EXCEPT !.record = Absent]
      BY <2>1
    <3> HIDE DEF d
    <3> QED
      BY <2>1, <3>1, <3>2 DEF StateDir
  <2> QED
    BY <2>1
<1>4. t \in Standing /\ t.pc = "dead" /\ start' = [start EXCEPT ![s] = t]
  BY <1>2, GotoLemma DEF Points
<1> HIDE DEF d, t
<1>5. Moves(s, t, d)
  BY <1>2, <1>4 DEF Moves
<1>6. /\ d \in StateDir \cup {Absent} /\ (d0 # Absent => d # Absent)
      /\ (d # Absent /\ d.record # Absent) => (d0 # Absent /\ d.record = d0.record)
  BY <1>1, <1>3, DirShape
<1>7. ASSUME ProjectOf[s] \in Legacy \ spoiled'
      PROVE  d0 # Absent
  <2>1. Sound(s, start[s], d0)
    BY <1>2, <1>7, Before
  <2> QED
    BY <1>2, <2>1 DEF Sound, Past
<1>8. start[s].pc \notin Inside \cup {"dead"} /\ t.pc \notin Inside /\ t.pc \notin Past
  BY <1>2, <1>4 DEF Inside, Past
<1>9. ProjectOf[s] \in Legacy \ spoiled' =>
        /\ d # Absent /\ d0 # Absent /\ d.runs = d0.runs /\ d.lock = d0.lock /\ d.partial = d0.partial
        /\ t.pc \in Past => d0.runs # Absent
  BY <1>3, <1>6, <1>7, <1>8
<1> QED
  BY <1>4, <1>5, <1>6, <1>8, <1>9, OtherStep

(* Only where the project is spoiled does a first run make runs/.          *)
LEMMA FirstRunStep ==
  ASSUME HomeTypeOK, CopyInv, NEW s \in Start, FirstRun(s)
  PROVE  OwnStep(s)
<1> DEFINE d0 == dir[ProjectOf[s]]
           e == IF d0 = Absent THEN Empty ELSE d0
           d == [e EXCEPT !.runs = {}]
           t == start[s]
<1>1. d0 \in StateDir \cup {Absent} /\ t \in Standing
  BY Before
<1>2. /\ e \in StateDir
      /\ (e = d0 /\ d0 # Absent) \/ (d0 = Absent /\ e.runs = Absent /\ e.record = Absent)
  BY <1>1, MadeLemma
<1>3. /\ start[s].pc = "up" /\ start' = start /\ UNCHANGED <<offer, library, seen>>
      /\ spoiled' = spoiled /\ dir' = [dir EXCEPT ![ProjectOf[s]] = d]
      /\ d0 # Absent => d0.runs = Absent
  BY DEF FirstRun, At, StartOnly, Made, Exists, Dir
<1>4. d \in StateDir /\ d.record = e.record
  BY <1>2 DEF StateDir
<1> HIDE DEF e, d
<1>5. Moves(s, t, d)
  BY <1>3, StayLemma DEF Moves
<1>6. ProjectOf[s] \notin Legacy \ spoiled'
  <2> SUFFICES ASSUME ProjectOf[s] \in Legacy \ spoiled'
               PROVE  FALSE
    OBVIOUS
  <2>1. Sound(s, start[s], d0)
    BY <1>3, Before
  <2> QED
    BY <1>3, <2>1 DEF Sound, Past
<1>7. d # Absent
  BY <1>4, DirShape
<1>8. /\ (d # Absent /\ d.record # Absent) => (d0 # Absent /\ d.record = d0.record)
      /\ t.pc \notin Inside \cup {"dead"}
  BY <1>2, <1>3, <1>4 DEF Inside
<1> QED
  BY <1>1, <1>4, <1>5, <1>6, <1>7, <1>8, OtherStep

LEMMA StartStepLemma ==
  ASSUME HomeTypeOK, CopyInv, NEW s \in Start, StartStep(s)
  PROVE  OwnStep(s)
<1>1. CASE EnsureProjectState(s)
  BY <1>1, EnsureStep
<1>2. CASE AcquireLock(s)
  <2> DEFINE otherwise == IF Exists(s) THEN "stat" ELSE "dead"
  <2>1. start[s].pc = "lock" /\ TakeLock(s, otherwise)
    BY <1>2 DEF AcquireLock, At
  <2>2. otherwise \in {"stat", "dead", "record"} /\ start[s].pc \notin Inside \cup {"dead"}
    BY <2>1 DEF Inside
  <2> HIDE DEF otherwise
  <2> QED
    BY <2>1, <2>2, TakeStep
<1>3. CASE StatLock(s)
  <2>1. /\ start[s].pc = "stat" /\ dir' = dir /\ UNCHANGED <<offer, library, seen>>
        /\ \/ Goto(s, "record") /\ spoiled' = spoiled \cup {ProjectOf[s]}
           \/ Goto(s, "reclaim") /\ spoiled' = spoiled
    BY <1>3 DEF StatLock, At, StartOnly
  <2>2. "record" \in Points /\ "reclaim" \in Points
    BY DEF Points
  <2> QED
    BY <2>1, <2>2, OutsideStep
<1>4. CASE ReclaimLock(s)
  BY <1>4, ReclaimStep
<1>5. CASE RetakeLock(s)
  <2>1. start[s].pc = "retake" /\ TakeLock(s, "record")
    BY <1>5 DEF RetakeLock, At
  <2>2. start[s].pc \notin Inside \cup {"dead"}
    BY <2>1 DEF Inside
  <2> QED
    BY <2>1, <2>2, TakeStep
<1>6. CASE DiscardPartial(s)
  BY <1>6, DiscardStep
<1>7. CASE MakePartial(s)
  BY <1>7, MakeStep
<1>8. CASE CopyFails(s)
  <2>1. /\ start[s].pc = "copy" /\ Goto(s, "unlock") /\ spoiled' = spoiled \cup {ProjectOf[s]}
        /\ dir' = dir /\ UNCHANGED <<offer, library, seen>>
    BY <1>8 DEF CopyFails, At, StartOnly
  <2>2. "unlock" \in Points
    BY DEF Points
  <2> QED
    BY <2>1, <2>2, OutsideStep
<1>9. CASE RenamePartial(s)
  BY <1>9, RenameStep
<1>10. CASE Unlock(s)
  BY <1>10, UnlockStep
<1>11. ASSUME NEW f \in File, CopyFile(s, f)
       PROVE  OwnStep(s)
  BY <1>11, CopyStep
<1>12. CASE WriteRecord(s)
  BY <1>12, RecordStep
<1>13. CASE Retire(s)
  BY <1>13, RetireStep
<1>14. CASE FirstRun(s)
  BY <1>14, FirstRunStep
<1>15. CASE Die(s)
  <2>1. /\ start[s].pc # "dead" /\ Goto(s, "dead") /\ spoiled' = spoiled /\ dir' = dir
        /\ UNCHANGED <<offer, library, seen>>
    BY <1>15 DEF Die, Alive
  <2>2. "dead" \in Points
    BY DEF Points
  <2> QED
    BY <2>1, <2>2, OutsideStep
<1> QED
  BY <1>1, <1>2, <1>3, <1>4, <1>5, <1>6, <1>7, <1>8, <1>9, <1>10, <1>11, <1>12, <1>13, <1>14, <1>15
     DEF StartStep

(* The invariant survives such a step, for the other projects too.         *)
LEMMA OwnKeeps ==
  ASSUME HomeInv, NEW s \in Start, OwnStep(s), job' = job
  PROVE  HomeInv'
<1>1. PICK t \in Standing, d \in StateDir \cup {Absent} : Moves(s, t, d) /\ Minds(s, t, d)
  BY DEF OwnStep
<1>2. HomeTypeOK /\ CopyInv /\ RecordsOurs /\ SeenInv /\ ProjectOf \in [Start -> Project]
  BY StartsAssumption DEF HomeInv
<1>3. /\ dir' = [dir EXCEPT ![ProjectOf[s]] = d] /\ start' = [start EXCEPT ![s] = t]
      /\ spoiled' \in {spoiled, spoiled \cup {ProjectOf[s]}}
      /\ offer' = offer /\ library' = library /\ seen' = seen
  BY <1>1 DEF Moves
<1>4. HomeTypeOK'
  BY <1>2, <1>3 DEF HomeTypeOK, Standing
<1>5. /\ \A p \in Project : dir'[p] = IF p = ProjectOf[s] THEN d ELSE dir[p]
      /\ \A u \in Start : start'[u] = IF u = s THEN t ELSE start[u]
  BY <1>2, <1>3 DEF HomeTypeOK
<1>6. CopyInv'
  <2> SUFFICES ASSUME NEW p \in Legacy \ spoiled'
               PROVE  /\ Whole(dir'[p])
                      /\ \A u \in Start : ProjectOf[u] = p => Sound(u, start'[u], dir'[p])
    BY DEF CopyInv
  <2>1. p \in Project /\ p \in Legacy \ spoiled
    BY <1>3, LegacyAssumption
  <2>2. CASE p = ProjectOf[s]
    <3>1. /\ Whole(d) /\ Sound(s, t, d)
          /\ \A u \in Start \ {s} : ProjectOf[u] = ProjectOf[s] => Sound(u, start[u], d)
      BY <1>1, <2>2 DEF Minds
    <3> QED
      BY <1>5, <2>1, <2>2, <3>1
  <2>3. CASE p # ProjectOf[s]
    <3>1. Whole(dir[p]) /\ \A u \in Start : ProjectOf[u] = p => Sound(u, start[u], dir[p])
      BY <1>2, <2>1 DEF CopyInv
    <3> QED
      BY <1>5, <2>1, <2>3, <3>1
  <2> QED
    BY <2>2, <2>3
<1>7. RecordsOurs'
  <2> SUFFICES ASSUME NEW p \in Project, dir'[p] # Absent, dir'[p].record # Absent
               PROVE  ProjectOf[dir'[p].record] = p
    BY DEF RecordsOurs
  <2>1. CASE p # ProjectOf[s]
    BY <1>2, <1>5, <2>1 DEF RecordsOurs
  <2>2. CASE p = ProjectOf[s]
    <3>1. d.record = s \/ (dir[p] # Absent /\ d.record = dir[p].record)
      BY <1>1, <1>5, <2>2 DEF Minds
    <3> QED
      BY <1>2, <1>5, <2>2, <3>1 DEF RecordsOurs
  <2> QED
    BY <2>1, <2>2
<1>8. SeenInv'
  <2>1. \A u \in seen : u \in Start /\ (At(u, "dead") => At(u, "dead")')
    BY <1>1, <1>2, <1>5 DEF Minds, At, HomeTypeOK
  <2> QED
    BY <1>2, <1>3, <2>1 DEF SeenInv
<1> QED
  BY <1>4, <1>6, <1>7, <1>8 DEF HomeInv

(* No start deletes a directory.                                           *)
LEMMA OwnDeletesNothing ==
  ASSUME HomeInv, NEW s \in Start, OwnStep(s), NEW p \in Project, dir[p] # Absent
  PROVE  dir'[p] # Absent
<1>1. PICK t \in Standing, d \in StateDir \cup {Absent} : Moves(s, t, d) /\ Minds(s, t, d)
  BY DEF OwnStep
<1> QED
  BY <1>1, StartsAssumption DEF Moves, Minds, HomeInv, HomeTypeOK

LEMMA AgesKeeps ==
  ASSUME HomeInv, NEW p \in Project, LockAges(p), job' = job
  PROVE  HomeInv' /\ \A q \in Project : dir[q] # Absent => dir'[q] # Absent
<1> DEFINE d0 == dir[p]
           d == [d0 EXCEPT !.stale = TRUE]
<1>1. HomeTypeOK /\ CopyInv /\ RecordsOurs /\ SeenInv
  BY DEF HomeInv
<1>2. d0 \in StateDir /\ d0 # Absent
  BY <1>1 DEF LockAges, HomeTypeOK
<1>3. d \in StateDir /\ d.record = d0.record /\ d.runs = d0.runs /\ d.partial = d0.partial /\ d.lock = d0.lock
  BY <1>2 DEF StateDir
<1>4. /\ dir' = [dir EXCEPT ![p] = d]
      /\ start' = start /\ offer' = offer /\ library' = library /\ spoiled' = spoiled /\ seen' = seen
  BY DEF LockAges
<1> HIDE DEF d
<1>5. d # Absent
  BY <1>3, DirShape
<1>6. \A q \in Project : dir'[q] = IF q = p THEN d ELSE dir[q]
  BY <1>1, <1>4 DEF HomeTypeOK
<1>7. HomeTypeOK'
  BY <1>1, <1>3, <1>4 DEF HomeTypeOK
<1>8. CopyInv'
  <2> SUFFICES ASSUME NEW q \in Legacy \ spoiled
               PROVE  /\ Whole(dir'[q])
                      /\ \A u \in Start : ProjectOf[u] = q => Sound(u, start[u], dir'[q])
    BY <1>4 DEF CopyInv
  <2>1. q \in Project /\ Whole(dir[q]) /\ \A u \in Start : ProjectOf[u] = q => Sound(u, start[u], dir[q])
    BY <1>1, LegacyAssumption DEF CopyInv
  <2>2. CASE q # p
    BY <1>6, <2>1, <2>2
  <2>3. CASE q = p
    BY <1>2, <1>3, <1>5, <1>6, <2>1, <2>3 DEF Whole, Sound
  <2> QED
    BY <2>2, <2>3
<1>9. RecordsOurs'
  BY <1>1, <1>2, <1>3, <1>6 DEF RecordsOurs
<1>10. SeenInv'
  BY <1>1, <1>4 DEF SeenInv, At
<1> QED
  BY <1>5, <1>6, <1>7, <1>8, <1>9, <1>10 DEF HomeInv

(***************************************************************************)
(* The steps of an uninstall.                                              *)
(***************************************************************************)
Offered ==
  [at : Offers, listed : SUBSET Project, left : SUBSET Project, blocked : SUBSET Project]

(* A step that leaves directories and daemons alone.                       *)
LEMMA TalkKeeps ==
  ASSUME HomeInv, UNCHANGED <<dir, start, spoiled>>, offer' \in Offered, library' \in BOOLEAN,
         seen' \subseteq Start, SeenInv'
  PROVE  HomeInv'
<1>1. HomeTypeOK /\ CopyInv /\ RecordsOurs
  BY DEF HomeInv
<1>2. HomeTypeOK'
  BY <1>1 DEF HomeTypeOK, Offered
<1>3. CopyInv' /\ RecordsOurs'
  BY <1>1 DEF CopyInv, RecordsOurs
<1> QED
  BY <1>2, <1>3 DEF HomeInv

(* Edits of the offer.                                                     *)
LEMMA OfferShape ==
  ASSUME HomeTypeOK
  PROVE  /\ offer \in Offered /\ NoOffer \in Offered /\ NoOffer.at = "idle"
         /\ [NoOffer EXCEPT !.at = "library"] \in Offered /\ [NoOffer EXCEPT !.at = "library"].at = "library"
         /\ offer.at \in Offers /\ offer.left \in SUBSET Project /\ offer.blocked \in SUBSET Project
BY DEF HomeTypeOK, Offered, NoOffer, Offers

LEMMA QuestionKeeps ==
  ASSUME HomeInv, OfferLibrary \/ OfferProjects \/ Keep \/ StopAllDaemons \/ AllStopped \/ EndUninstall
  PROVE  HomeInv' /\ dir' = dir
<1>1. HomeTypeOK /\ SeenInv /\ offer \in Offered /\ NoOffer \in Offered /\ NoOffer.at = "idle"
  BY OfferShape DEF HomeInv
<1>2. /\ UNCHANGED <<dir, start, spoiled>> /\ job' = job /\ Existing \in SUBSET Project
      /\ library' \in BOOLEAN /\ (seen' = seen \/ seen' = {})
  BY <1>1 DEF OfferLibrary, OfferProjects, Keep, StopAllDaemons, AllStopped, EndUninstall, AskOnly, harnesses,
     Existing, HomeTypeOK
<1>3. offer.at # "idle" /\ seen' \subseteq Start
  BY <1>1, <1>2 DEF OfferLibrary, OfferProjects, Keep, StopAllDaemons, AllStopped, EndUninstall, HomeTypeOK
<1>4. job'.at = "idle"
  BY <1>1, <1>2, <1>3 DEF SeenInv
<1>5. CASE offer.at \in {"library", "projects", "ask"}
  <2>1. offer' \in Offered
    <3>1. /\ [offer EXCEPT !.at = "projects"] \in Offered
          /\ [offer EXCEPT !.at = "ask", !.listed = Existing] \in Offered
          /\ [offer EXCEPT !.at = "stop", !.left = Existing] \in Offered
      BY <1>1, <1>2 DEF Offered, Offers
    <3> QED
      BY <1>1, <1>5, <3>1 DEF OfferLibrary, OfferProjects, Keep, StopAllDaemons, AllStopped, EndUninstall
  <2>2. seen = {}
    BY <1>1, <1>5 DEF SeenInv
  <2>3. SeenInv'
    BY <1>2, <1>4, <2>2 DEF SeenInv
  <2> QED
    BY <1>2, <1>3, <2>1, <2>3, TalkKeeps
<1>6. CASE AllStopped
  <2>1. /\ offer' = [offer EXCEPT !.at = "delete", !.left = offer.listed] /\ seen' = seen
    BY <1>6 DEF AllStopped
  <2>2. offer' \in Offered /\ offer'.at = "delete" /\ offer'.blocked = offer.blocked
    BY <1>1, <2>1 DEF Offered, Offers
  <2>3. SeenInv'
    BY <1>1, <1>2, <1>4, <2>1, <2>2 DEF SeenInv, At
  <2> QED
    BY <1>2, <1>3, <2>2, <2>3, TalkKeeps
<1>7. CASE EndUninstall
  <2>1. offer' = NoOffer /\ seen' = {}
    BY <1>7 DEF EndUninstall
  <2>2. SeenInv'
    BY <1>4, <2>1 DEF SeenInv
  <2> QED
    BY <1>1, <1>2, <2>1, <2>2, TalkKeeps
<1> QED
  BY <1>2, <1>5, <1>6, <1>7 DEF OfferLibrary, OfferProjects, Keep, StopAllDaemons

(* Of a project that was not blocked, a daemon that answered is dead.      *)
LEMMA StopKeeps ==
  ASSUME HomeInv, NEW p \in Project, StopProjectDaemon(p)
  PROVE  HomeInv' /\ \A q \in Project : dir[q] # Absent => dir'[q] # Absent
<1>1. HomeTypeOK /\ CopyInv /\ RecordsOurs /\ SeenInv /\ offer \in Offered
  BY OfferShape DEF HomeInv
<1>2. /\ offer.at = "stop" /\ job' = job /\ library' = library /\ spoiled' = spoiled
      /\ job.at = "idle" /\ seen \subseteq Start
  BY <1>1 DEF StopProjectDaemon, AskOnly, harnesses, SeenInv, HomeTypeOK
<1> DEFINE s == dir[p].record
           passed == [offer EXCEPT !.left = @ \ {p}]
           blocked == [offer EXCEPT !.left = @ \ {p}, !.blocked = @ \cup {p}]
<1>3. /\ passed \in Offered /\ passed.at = "stop" /\ passed.blocked = offer.blocked
      /\ blocked \in Offered /\ blocked.at = "stop" /\ blocked.blocked = offer.blocked \cup {p}
  BY <1>1, <1>2 DEF Offered
<1> HIDE DEF passed, blocked
<1>4. \/ UNCHANGED <<dir, start, seen>> /\ offer' \in {passed, blocked}
      \/ /\ UNCHANGED <<dir, start>> /\ offer' = blocked /\ seen' = seen \cup {s}
         /\ dir[p] # Absent /\ s # Absent
      \/ /\ dir[p] # Absent /\ s # Absent /\ offer' = passed /\ seen' = seen \cup {s}
         /\ start' = [start EXCEPT ![s].pc = "dead"] /\ dir' = [dir EXCEPT ![p].record = Absent]
  BY DEF StopProjectDaemon, NoDaemon, Unresolved, Stopped, passed, blocked
<1>5. CASE UNCHANGED <<dir, start, seen>> /\ offer' \in {passed, blocked}
  <2>1. SeenInv'
    BY <1>1, <1>2, <1>3, <1>5 DEF SeenInv, At
  <2> QED
    BY <1>1, <1>2, <1>3, <1>5, <2>1, TalkKeeps DEF HomeTypeOK
<1>6. ASSUME dir[p] # Absent, s # Absent
      PROVE  s \in Start /\ ProjectOf[s] = p /\ dir[p] \in StateDir
  BY <1>1, <1>6, DirShape DEF HomeTypeOK, RecordsOurs
<1>7. CASE /\ UNCHANGED <<dir, start>> /\ offer' = blocked /\ seen' = seen \cup {s}
           /\ dir[p] # Absent /\ s # Absent
  <2>1. SeenInv'
    BY <1>1, <1>2, <1>3, <1>6, <1>7 DEF SeenInv, At
  <2> QED
    BY <1>1, <1>2, <1>3, <1>6, <1>7, <2>1, TalkKeeps DEF HomeTypeOK
<1>8. CASE /\ dir[p] # Absent /\ s # Absent /\ offer' = passed /\ seen' = seen \cup {s}
           /\ start' = [start EXCEPT ![s].pc = "dead"] /\ dir' = [dir EXCEPT ![p].record = Absent]
  <2> DEFINE d0 == dir[p]
             d == [d0 EXCEPT !.record = Absent]
             t == [start[s] EXCEPT !.pc = "dead"]
  <2>1. s \in Start /\ ProjectOf[s] = p /\ d0 \in StateDir /\ start[s] \in Standing
    BY <1>1, <1>6, <1>8 DEF HomeTypeOK, Standing
  <2>2. /\ d \in StateDir /\ d.record = Absent /\ d.runs = d0.runs /\ d.partial = d0.partial /\ d.lock = d0.lock
    BY <2>1 DEF StateDir
  <2>3. t \in Standing /\ t.pc = "dead"
    BY <2>1 DEF Standing, Points
  <2>4. dir' = [dir EXCEPT ![p] = d] /\ start' = [start EXCEPT ![s] = t]
    BY <1>1, <1>8, <2>1 DEF HomeTypeOK
  <2> HIDE DEF d, t
  <2>5. d # Absent
    BY <2>2, DirShape
  <2>6. /\ \A q \in Project : dir'[q] = IF q = p THEN d ELSE dir[q]
        /\ \A u \in Start : start'[u] = IF u = s THEN t ELSE start[u]
    BY <1>1, <2>1, <2>4 DEF HomeTypeOK
  <2>7. HomeTypeOK'
    BY <1>1, <1>2, <1>3, <1>8, <2>1, <2>2, <2>3, <2>4 DEF HomeTypeOK, Offered, Standing
  <2>8. CopyInv'
    <3> SUFFICES ASSUME NEW q \in Legacy \ spoiled
                 PROVE  /\ Whole(dir'[q])
                        /\ \A u \in Start : ProjectOf[u] = q => Sound(u, start'[u], dir'[q])
      BY <1>2 DEF CopyInv
    <3>1. q \in Project /\ Whole(dir[q]) /\ \A u \in Start : ProjectOf[u] = q => Sound(u, start[u], dir[q])
      BY <1>1, LegacyAssumption DEF CopyInv
    <3>2. Whole(dir'[q])
      BY <1>8, <2>2, <2>5, <2>6, <3>1 DEF Whole
    <3>3. ASSUME NEW u \in Start, ProjectOf[u] = q
          PROVE  Sound(u, start[u], dir'[q])
      BY <1>8, <2>2, <2>5, <2>6, <3>1, <3>3 DEF Sound
    <3>4. ASSUME NEW u \in Start, ProjectOf[u] = q
          PROVE  Sound(u, start'[u], dir'[q])
      <4>1. CASE u = s
        BY <2>3, <2>6, <4>1 DEF Sound, Inside, Past
      <4> QED
        BY <2>6, <3>3, <3>4, <4>1
    <3> QED
      BY <3>2, <3>4
  <2>9. RecordsOurs'
    BY <1>1, <2>2, <2>6 DEF RecordsOurs
  <2>10. SeenInv'
    <3>1. \A u \in seen \cup {s} : ProjectOf[u] \in offer.blocked \/ start'[u].pc = "dead"
      BY <1>1, <1>2, <2>1, <2>3, <2>6 DEF SeenInv, At
    <3> QED
      BY <1>2, <1>3, <1>8, <3>1 DEF SeenInv, At
  <2> QED
    BY <2>5, <2>6, <2>7, <2>8, <2>9, <2>10 DEF HomeInv
<1> QED
  BY <1>4, <1>5, <1>7, <1>8

(* Only what is not kept is deleted, and it is spoiled then.               *)
LEMMA DeleteKeeps ==
  ASSUME HomeInv, NEW p \in Project, DeleteState(p)
  PROVE  HomeInv' /\ \A q \in Project : (dir[q] # Absent /\ dir'[q] = Absent) => q \notin offer.blocked
<1>1. HomeTypeOK /\ CopyInv /\ RecordsOurs /\ SeenInv /\ offer \in Offered
  BY OfferShape DEF HomeInv
<1> DEFINE o == [offer EXCEPT !.left = @ \ {p}]
<1>2. /\ offer.at = "delete" /\ offer' = o /\ job' = job
      /\ library' = library /\ start' = start /\ seen' = seen
      /\ \/ UNCHANGED <<dir, spoiled>>
         \/ p \notin offer.blocked /\ dir' = [dir EXCEPT ![p] = Absent] /\ spoiled' = spoiled \cup {p}
  BY DEF DeleteState, Kept, AskOnly, harnesses
<1>3. o \in Offered /\ o.at = "delete" /\ o.blocked = offer.blocked
  BY <1>1, <1>2 DEF Offered
<1> HIDE DEF o
<1>4. SeenInv'
  BY <1>1, <1>2, <1>3 DEF SeenInv, At
<1>5. CASE UNCHANGED <<dir, spoiled>>
  BY <1>1, <1>2, <1>3, <1>4, <1>5, TalkKeeps DEF HomeTypeOK
<1>6. CASE p \notin offer.blocked /\ dir' = [dir EXCEPT ![p] = Absent] /\ spoiled' = spoiled \cup {p}
  <2>1. \A q \in Project : dir'[q] = IF q = p THEN Absent ELSE dir[q]
    BY <1>1, <1>6 DEF HomeTypeOK
  <2>2. HomeTypeOK'
    BY <1>1, <1>2, <1>3, <1>6 DEF HomeTypeOK, Offered
  <2>3. CopyInv' /\ RecordsOurs'
    BY <1>1, <1>2, <1>6, <2>1, LegacyAssumption DEF CopyInv, RecordsOurs
  <2> QED
    BY <1>4, <1>6, <2>1, <2>2, <2>3 DEF HomeInv
<1> QED
  BY <1>2, <1>5, <1>6

(* The commands of Harnesses: the questions come after the report.         *)
LEMMA CommandKeeps ==
  ASSUME HomeInv,
         \/ \E verb \in {"install", "uninstall"} : BeginCommand(verb)
         \/ (HarnessStep \/ UserStep) /\ UNCHANGED home
         \/ Report
  PROVE  HomeInv' /\ dir' = dir
<1>1. HomeTypeOK /\ SeenInv /\ offer \in Offered
  BY DEF HomeInv, HomeTypeOK, Offered
<1>2. UNCHANGED <<dir, start, spoiled, library, seen>>
  BY DEF BeginCommand, Report, home
<1>3. CASE Report
  <2>1. job.at = "report" /\ offer.at = "idle" /\ job'.at = "idle"
    BY <1>1, <1>3 DEF Report, SeenInv, Idle
  <2>2. offer' = offer \/ offer' = [NoOffer EXCEPT !.at = "library"]
    BY <1>3 DEF Report
  <2>3. offer' \in Offered /\ offer'.at \in {"idle", "library"}
    BY <1>1, <2>1, <2>2, OfferShape
  <2>4. SeenInv'
    BY <1>1, <1>2, <2>1, <2>3 DEF SeenInv
  <2> QED
    BY <1>1, <1>2, <2>3, <2>4, TalkKeeps DEF HomeTypeOK
<1>4. CASE \E verb \in {"install", "uninstall"} : BeginCommand(verb)
  <2>1. offer.at = "idle" /\ offer' = offer
    BY <1>4 DEF BeginCommand, home
  <2>2. SeenInv'
    BY <1>1, <1>2, <2>1 DEF SeenInv
  <2> QED
    BY <1>1, <1>2, <2>1, <2>2, TalkKeeps DEF HomeTypeOK
<1>5. CASE (HarnessStep \/ UserStep) /\ UNCHANGED home
  <2>1. offer' = offer
    BY <1>5 DEF home
  <2>2. ASSUME job.at = "idle"
        PROVE  job'.at = "idle"
    <3>1. ~HarnessStep
      BY <2>2 DEF HarnessStep, SetupCli, ReplaceOld, AddEntry, SetupOpencode, RemoveCli, RemoveOpencode,
         DiscardBackup, WriteConfig, Doing
    <3>2. UserStep
      BY <1>5, <3>1
    <3>3. job' = job
      BY <2>2, <3>2 DEF UserStep, Interrupt, MovePackage, ChangeHarness, LayOutEntry, EditConfig
    <3> QED
      BY <2>2, <3>3
  <2>3. SeenInv'
    BY <1>1, <1>2, <2>1, <2>2 DEF SeenInv, At
  <2> QED
    BY <1>1, <1>2, <2>1, <2>3, TalkKeeps DEF HomeTypeOK
<1> QED
  BY <1>3, <1>4, <1>5

(***************************************************************************)
(* Every step.                                                             *)
(***************************************************************************)
DeletedAreDead ==
  \A s \in seen : dir[ProjectOf[s]] # Absent /\ dir'[ProjectOf[s]] = Absent => At(s, "dead")

LEMMA HomeStep ==
  ASSUME HomeInv, [Next]_vars
  PROVE  HomeInv' /\ DeletedAreDead
<1>1. \A s \in seen : s \in Start /\ ProjectOf[s] \in Project
  BY StartsAssumption DEF HomeInv, HomeTypeOK
<1>2. ASSUME \A q \in Project : dir[q] # Absent => dir'[q] # Absent
      PROVE  DeletedAreDead
  BY <1>1, <1>2 DEF DeletedAreDead
<1>3. CASE UNCHANGED vars
  <2>1. UNCHANGED <<dir, start, offer, library, spoiled, seen, job>>
    BY <1>3 DEF vars, home, harnesses
  <2>2. HomeInv'
    BY <2>1 DEF HomeInv, HomeTypeOK, CopyInv, RecordsOurs, SeenInv, At
  <2> QED
    BY <1>2, <2>1, <2>2
<1>4. CASE \/ \E verb \in {"install", "uninstall"} : BeginCommand(verb)
           \/ (HarnessStep \/ UserStep) /\ UNCHANGED home
           \/ Report
  <2>1. HomeInv' /\ dir' = dir
    BY <1>4, CommandKeeps
  <2> QED
    BY <1>2, <2>1
<1>5. CASE OfferLibrary \/ OfferProjects \/ Keep \/ StopAllDaemons \/ AllStopped \/ EndUninstall
  <2>1. HomeInv' /\ dir' = dir
    BY <1>5, QuestionKeeps
  <2> QED
    BY <1>2, <2>1
<1>6. ASSUME NEW p \in Project, StopProjectDaemon(p)
      PROVE  HomeInv' /\ DeletedAreDead
  BY <1>2, <1>6, StopKeeps
<1>7. ASSUME NEW p \in Project, DeleteState(p)
      PROVE  HomeInv' /\ DeletedAreDead
  <2>1. HomeInv' /\ \A q \in Project : (dir[q] # Absent /\ dir'[q] = Absent) => q \notin offer.blocked
    BY <1>7, DeleteKeeps
  <2>2. \A s \in seen : ProjectOf[s] \in offer.blocked \/ At(s, "dead")
    BY DEF HomeInv, SeenInv
  <2> QED
    BY <1>1, <2>1, <2>2 DEF DeletedAreDead
<1>8. ASSUME NEW s \in Start, StartStep(s), UNCHANGED harnesses
      PROVE  HomeInv' /\ DeletedAreDead
  <2>1. OwnStep(s)
    BY <1>8, StartStepLemma DEF HomeInv
  <2>2. job' = job
    BY <1>8 DEF harnesses
  <2> QED
    BY <1>2, <2>1, <2>2, OwnKeeps, OwnDeletesNothing
<1>9. ASSUME NEW p \in Project, LockAges(p), UNCHANGED harnesses
      PROVE  HomeInv' /\ DeletedAreDead
  <2>1. job' = job
    BY <1>9 DEF harnesses
  <2> QED
    BY <1>2, <1>9, <2>1, AgesKeeps
<1> QED
  BY <1>3, <1>4, <1>5, <1>6, <1>7, <1>8, <1>9 DEF Next, Ask

(* Whatever is killed, fills a disk or takes ten minutes: a runs/ in the   *)
(* new place is never taken for a copy of the old runs while it lacks one  *)
(* of them, unless the copy of that project failed or was skipped or its   *)
(* lock was taken from somebody alive (migrateLegacyRuns).                 *)
THEOREM CopiesAreWhole == Spec => []RunsAreWhole
<1>1. HomeInv => RunsAreWhole
  BY DEF HomeInv, CopyInv, Whole, RunsAreWhole
<1>2. HomeInv /\ [Next]_vars => HomeInv'
  BY HomeStep
<1> QED
  BY HomeBegins, <1>1, <1>2, PTL DEF Spec

(* No state directory is deleted while a daemon lives that answered this   *)
(* uninstall: it was stopped, or its project is kept (offerProjects).      *)
THEOREM NoLiveStateIsDeleted == Spec => LiveStateIsKept
<1>1. HomeInv /\ [Next]_vars =>
        [\A s \in seen :
           dir[ProjectOf[s]] # Absent /\ dir'[ProjectOf[s]] = Absent => At(s, "dead")]_vars
  BY HomeStep DEF DeletedAreDead
<1>2. HomeInv /\ [Next]_vars => HomeInv'
  BY HomeStep
<1> QED
  BY HomeBegins, <1>1, <1>2, PTL DEF Spec, LiveStateIsKept

---------------------------------------------------------------------------
(* Texts.                                                                  *)

(* A set of numbers has a least one.                                       *)
LEMMA LeastOf ==
  ASSUME NEW S, S \subseteq Nat, S # {}
  PROVE  \E x \in S : \A y \in S : x <= y
<1>1. \E x \in S : \A y \in S : ~(<<y, x>> \in OpToRel(<, Nat))
  BY WFMin, NatLessThanWellFounded
<1>2. \A x, y \in S : <<y, x>> \in OpToRel(<, Nat) <=> y < x
  BY DEF OpToRel
<1>3. \A x, y \in S : ~(y < x) => x <= y
  OBVIOUS
<1>4. \E x \in S : \A y \in S : ~(y < x)
  BY <1>1, <1>2, Zenon
<1> QED
  BY <1>3, <1>4

(***************************************************************************)
(* Counting.                                                               *)
(***************************************************************************)
Weight(token) == IF token = Open THEN 1 ELSE IF token = Close THEN -1 ELSE 0
Spots(text, from, to, token) == {k \in from .. to : text[k] = token}

LEMMA SpotsFinite ==
  ASSUME NEW text, NEW i \in Int, NEW j \in Int, NEW token
  PROVE  /\ IsFiniteSet(Spots(text, i, j, token))
         /\ Cardinality(Spots(text, i, j, token)) \in Nat
<1>1. IsFiniteSet(i .. j)
  BY FS_Interval
<1>2. Spots(text, i, j, token) \in SUBSET (i .. j)
  BY DEF Spots
<1> QED
  BY <1>1, <1>2, FS_Subset, FS_CardinalityType

LEMMA NestingIs ==
  ASSUME NEW text, NEW i \in Int, NEW j \in Int
  PROVE  /\ Nesting(text, i, j) = Cardinality(Spots(text, i, j, Open))
                                    - Cardinality(Spots(text, i, j, Close))
         /\ Nesting(text, i, j) \in Int
         /\ j < i => Nesting(text, i, j) = 0
<1>1. Nesting(text, i, j) = Cardinality(Spots(text, i, j, Open))
                              - Cardinality(Spots(text, i, j, Close))
  BY DEF Nesting, Spots
<1>2. ASSUME j < i, NEW token PROVE Spots(text, i, j, token) = {}
  BY <1>2 DEF Spots
<1> QED
  BY <1>1, <1>2, SpotsFinite, FS_EmptySet

LEMMA BracesDiffer == Open # Close /\ Open # Comma /\ Open # Blank /\ Close # Comma /\ Close # Blank
                        /\ Comma # Blank
BY DEF Open, Close, Comma, Blank

LEMMA SpotsSplit ==
  ASSUME NEW text, NEW i \in Int, NEW m \in Int, NEW j \in Int, i <= m + 1, m <= j, NEW token
  PROVE  Cardinality(Spots(text, i, j, token)) =
           Cardinality(Spots(text, i, m, token)) + Cardinality(Spots(text, m + 1, j, token))
<1> DEFINE S == Spots(text, i, m, token)
           U == Spots(text, m + 1, j, token)
<1>1. Spots(text, i, j, token) = S \cup U /\ S \cap U = {}
  BY DEF Spots
<1>2. IsFiniteSet(S) /\ IsFiniteSet(U) /\ Cardinality(S) \in Nat /\ Cardinality(U) \in Nat
  BY SpotsFinite
<1>3. Cardinality(S \cup U) = Cardinality(S) + Cardinality(U) - Cardinality(S \cap U)
  BY <1>2, FS_Union
<1>4. Cardinality(S \cap U) = 0
  BY <1>1, FS_EmptySet
<1> HIDE DEF S, U
<1>5. Cardinality(S \cup U) = Cardinality(S) + Cardinality(U)
  BY <1>2, <1>3, <1>4
<1> QED
  BY <1>1, <1>5 DEF S, U

(* Nesting adds up.                                                        *)
LEMMA NestingSplit ==
  ASSUME NEW text, NEW i \in Int, NEW m \in Int, NEW j \in Int, i <= m + 1, m <= j
  PROVE  Nesting(text, i, j) = Nesting(text, i, m) + Nesting(text, m + 1, j)
<1>1. \A token : Cardinality(Spots(text, i, j, token)) =
           Cardinality(Spots(text, i, m, token)) + Cardinality(Spots(text, m + 1, j, token))
  BY SpotsSplit
<1>2. /\ Cardinality(Spots(text, i, m, Open)) \in Nat /\ Cardinality(Spots(text, m + 1, j, Open)) \in Nat
      /\ Cardinality(Spots(text, i, m, Close)) \in Nat /\ Cardinality(Spots(text, m + 1, j, Close)) \in Nat
  BY SpotsFinite
<1>3. /\ Nesting(text, i, j) = Cardinality(Spots(text, i, j, Open)) - Cardinality(Spots(text, i, j, Close))
      /\ Nesting(text, i, m) = Cardinality(Spots(text, i, m, Open)) - Cardinality(Spots(text, i, m, Close))
      /\ Nesting(text, m + 1, j) = Cardinality(Spots(text, m + 1, j, Open)) - Cardinality(Spots(text, m + 1, j, Close))
  BY NestingIs
<1> QED
  BY <1>1, <1>2, <1>3

LEMMA NestingOne ==
  ASSUME NEW text, NEW i \in Int
  PROVE  Nesting(text, i, i) = Weight(text[i])
<1>1. \A token : Spots(text, i, i, token) = IF text[i] = token THEN {i} ELSE {}
  BY DEF Spots
<1>2. Nesting(text, i, i) = Cardinality(Spots(text, i, i, Open)) - Cardinality(Spots(text, i, i, Close))
  BY NestingIs
<1>3. Cardinality({}) = 0 /\ Cardinality({i}) = 1
  BY FS_EmptySet, FS_Singleton
<1> QED
  BY <1>1, <1>2, <1>3, BracesDiffer DEF Weight

(* One more token on the right.                                            *)
LEMMA NestingNext ==
  ASSUME NEW text, NEW i \in Int, NEW j \in Int, i <= j
  PROVE  Nesting(text, i, j) = Nesting(text, i, j - 1) + Weight(text[j])
<1>1. Nesting(text, i, j) = Nesting(text, i, j - 1) + Nesting(text, (j - 1) + 1, j)
  BY NestingSplit
<1>2. (j - 1) + 1 = j
  OBVIOUS
<1> QED
  BY <1>1, <1>2, NestingOne

LEMMA SpotsShift ==
  ASSUME NEW text, NEW other, NEW i \in Int, NEW j \in Int, NEW d \in Int, NEW token,
         \A k \in i .. j : other[k + d] = text[k]
  PROVE  Cardinality(Spots(other, i + d, j + d, token)) = Cardinality(Spots(text, i, j, token))
<1> DEFINE S == Spots(text, i, j, token)
           U == Spots(other, i + d, j + d, token)
           f == [k \in S |-> k + d]
<1>1. \A k \in S : k \in i .. j /\ k + d \in U
  BY DEF Spots
<1>2. \A k \in U : k - d \in S /\ (k - d) + d = k
  BY DEF Spots
<1>3. f \in [S -> U]
  BY <1>1
<1>4. \A k, l \in S : f[k] = f[l] => k = l
  BY <1>1
<1>5. \A k \in U : \E l \in S : f[l] = k
  BY <1>2
<1>6. f \in Bijection(S, U)
  BY <1>3, <1>4, <1>5 DEF Bijection, Injection, Surjection, IsInjective
<1>7. IsFiniteSet(S)
  BY SpotsFinite
<1> HIDE DEF S, U, f
<1> QED
  BY <1>6, <1>7, FS_Bijection DEF ExistsBijection, S, U

(* The tokens of text from i to j stand in the other one from i2 on.       *)
Copied(text, i, j, other, i2) == \A k \in i .. j : other[k + (i2 - i)] = text[k]

(* It does not change where the tokens are shifted.                        *)
LEMMA NestingShift ==
  ASSUME NEW text, NEW other, NEW i, NEW j, NEW i2, NEW j2,
         i \in Int, j \in Int, i2 \in Int, j2 \in Int,
         j2 - i2 = j - i, Copied(text, i, j, other, i2)
  PROVE  Nesting(other, i2, j2) = Nesting(text, i, j)
<1> DEFINE d == i2 - i
<1>1. \A token : Cardinality(Spots(other, i + d, j + d, token)) = Cardinality(Spots(text, i, j, token))
  <2>1. d \in Int /\ \A k \in i .. j : other[k + d] = text[k]
    BY DEF Copied
  <2> HIDE DEF d
  <2> QED
    BY <2>1, SpotsShift
<1>2. i + d = i2 /\ j + d = j2
  OBVIOUS
<1> HIDE DEF d
<1> QED
  BY <1>1, <1>2, NestingIs

LEMMA NestingSame ==
  ASSUME NEW text, NEW other, NEW i \in Int, NEW j \in Int,
         \A k \in i .. j : other[k] = text[k]
  PROVE  Nesting(other, i, j) = Nesting(text, i, j)
<1>1. \A token : Spots(other, i, j, token) = Spots(text, i, j, token)
  BY DEF Spots
<1> QED
  BY <1>1, NestingIs

LEMMA Heads ==
  /\ Open[1] = "{" /\ Close[1] = "}" /\ Comma[1] = "," /\ Blank[1] = "blank"
  /\ \A n : Name(n)[1] = "name"
BY DEF Open, Close, Comma, Blank, Name

(***************************************************************************)
(* Objects, and where values and blanks end.                               *)
(***************************************************************************)
Tokens(text) == {text[k] : k \in DOMAIN text}
IsText(text) == text \in Seq(Tokens(text))

LEMMA TextDomain ==
  ASSUME NEW text, IsText(text)
  PROVE  Len(text) \in Nat /\ DOMAIN text = 1 .. Len(text)
BY DEF IsText

LEMMA ObjectFacts ==
  ASSUME NEW text, IsText(text), NEW a, NEW b, ObjectAt(text, a, b)
  PROVE  /\ a \in 1 .. Len(text) /\ b \in 1 .. Len(text) /\ a < b
         /\ Nesting(text, a, b - 1) = 1 /\ text[b] = Close
         /\ ValueEnd(text, a) = b
<1>1. /\ a \in 1 .. Len(text) /\ b \in 1 .. Len(text) /\ a < b
      /\ Nesting(text, a, b) = 0 /\ \A k \in a .. b - 1 : Nesting(text, a, k) > 0
  BY TextDomain DEF ObjectAt
<1>2. Nesting(text, a, b) = Nesting(text, a, b - 1) + Weight(text[b])
  BY <1>1, NestingNext
<1>3. Nesting(text, a, b - 1) \in Int /\ Nesting(text, a, b - 1) > 0
  BY <1>1, NestingIs
<1>4. Nesting(text, a, b - 1) = 1 /\ text[b] = Close
  BY <1>1, <1>2, <1>3 DEF Weight
<1>5. ASSUME NEW j \in a .. Len(text), Nesting(text, a, j) = 0,
             \A k \in a .. j - 1 : Nesting(text, a, k) > 0
      PROVE  j = b
  BY <1>1, <1>5
<1>6. ValueEnd(text, a) = b
  BY <1>1, <1>5 DEF ValueEnd
<1> QED
  BY <1>1, <1>4, <1>6

LEMMA ScalarEnds ==
  ASSUME NEW text, IsText(text), NEW i \in 1 .. Len(text), IsScalar(text[i])
  PROVE  ValueEnd(text, i) = i /\ Nesting(text, i, i) = 0
<1>0. text[i] # Open /\ text[i] # Close
  BY Heads DEF IsScalar
<1>1. Nesting(text, i, i) = 0
  BY <1>0, NestingOne DEF Weight
<1>2. ASSUME NEW j \in i .. Len(text), \A k \in i .. j - 1 : Nesting(text, i, k) > 0
      PROVE  j = i
  BY <1>1, <1>2
<1>3. i \in i .. Len(text) /\ \A k \in i .. i - 1 : Nesting(text, i, k) > 0
  OBVIOUS
<1>4. ValueEnd(text, i) = i
  BY <1>1, <1>2, <1>3 DEF ValueEnd
<1> QED
  BY <1>1, <1>4

(* An object inside an object ends inside it.                              *)
LEMMA InnerObject ==
  ASSUME NEW text, IsText(text), NEW a, NEW b, ObjectAt(text, a, b),
         NEW i \in a + 1 .. b, text[i] = Open
  PROVE  \E j \in i + 1 .. b - 1 : ObjectAt(text, i, j)
<1>1. /\ a \in 1 .. Len(text) /\ b \in 1 .. Len(text) /\ a < b
      /\ Nesting(text, a, b) = 0 /\ \A k \in a .. b - 1 : Nesting(text, a, k) > 0
  BY TextDomain DEF ObjectAt
<1> DEFINE N(k) == Nesting(text, i, k)
           S == {k \in i .. b : N(k) <= 0}
<1>2. Nesting(text, a, i - 1) \in Int /\ Nesting(text, a, i - 1) > 0
  BY <1>1, NestingIs
<1>3. Nesting(text, a, b) = Nesting(text, a, i - 1) + Nesting(text, (i - 1) + 1, b)
  BY <1>1, NestingSplit
<1>4. N(b) \in Int /\ N(b) < 0
  <2>1. (i - 1) + 1 = i
    BY <1>1
  <2> QED
    BY <1>1, <1>2, <1>3, <2>1, NestingIs
<1>5. N(i) = 1
  BY NestingOne DEF Weight
<1>6. S \subseteq Nat /\ b \in S
  BY <1>1, <1>4
<1>7. PICK j \in S : \A k \in S : j <= k
  BY <1>6, LeastOf
<1>8. j \in i + 1 .. b /\ \A k \in i .. j - 1 : ~(N(k) <= 0)
  BY <1>1, <1>5, <1>7
<1>9. \A k \in i .. j : N(k) \in Int
  BY <1>1, NestingIs
<1>10. N(j) = N(j - 1) + Weight(text[j])
  BY <1>1, <1>8, NestingNext
<1>11. N(j) = 0
  <2>1. N(j - 1) \in Int /\ N(j - 1) > 0 /\ N(j) <= 0
    BY <1>1, <1>7, <1>8, <1>9
  <2> QED
    BY <1>10, <2>1 DEF Weight
<1>12. j # b
  BY <1>4, <1>11
<1>13. \A k \in i .. j - 1 : N(k) > 0
  BY <1>1, <1>8, <1>9
<1>14. ObjectAt(text, i, j)
  BY <1>1, <1>8, <1>11, <1>13, TextDomain DEF ObjectAt
<1> QED
  BY <1>1, <1>8, <1>12, <1>14

(* Where the blanks end.                                                   *)
LEMMA SkipTo ==
  ASSUME NEW text, IsText(text), NEW i \in 1 .. Len(text) + 1, NEW j \in i .. Len(text) + 1,
         j > Len(text) \/ text[j] # Blank, \A k \in i .. j - 1 : text[k] = Blank
  PROVE  SkipBlanks(text, i) = j
<1>1. Len(text) \in Nat
  BY TextDomain
<1>2. ASSUME NEW l \in i .. Len(text) + 1, l > Len(text) \/ text[l] # Blank,
             \A k \in i .. l - 1 : text[k] = Blank
      PROVE  l = j
  BY <1>1, <1>2
<1> QED
  BY <1>2 DEF SkipBlanks

LEMMA SkipFacts ==
  ASSUME NEW text, IsText(text), NEW i \in 1 .. Len(text) + 1
  PROVE  LET j == SkipBlanks(text, i)
         IN  /\ j \in i .. Len(text) + 1 /\ (j > Len(text) \/ text[j] # Blank)
             /\ \A k \in i .. j - 1 : text[k] = Blank
<1>1. Len(text) \in Nat
  BY TextDomain
<1> DEFINE S == {k \in i .. Len(text) + 1 : k > Len(text) \/ text[k] # Blank}
<1>2. S \subseteq Nat /\ Len(text) + 1 \in S
  BY <1>1
<1>3. PICK j \in S : \A k \in S : j <= k
  BY <1>2, LeastOf
<1>4. \A k \in i .. j - 1 : text[k] = Blank
  BY <1>1, <1>3
<1>5. SkipBlanks(text, i) = j
  BY <1>3, <1>4, SkipTo
<1> QED
  BY <1>1, <1>3, <1>4, <1>5

LEMMA RootIs ==
  ASSUME NEW text, IsText(text), NEW a, NEW b, RootAt(text, a, b)
  PROVE  RootObjectStart(text) = a
<1>1. a \in 1 .. Len(text) /\ text[a] = Open
  BY ObjectFacts DEF RootAt, ObjectAt
<1>2. \A k \in 1 .. a - 1 : text[k] = Blank
  BY <1>1, TextDomain DEF RootAt
<1>3. SkipBlanks(text, 1) = a
  <2>1. 1 \in 1 .. Len(text) + 1 /\ a \in 1 .. Len(text) + 1
    BY <1>1, TextDomain
  <2> QED
    BY <1>1, <1>2, <2>1, BracesDiffer, SkipTo
<1> QED
  BY <1>1, <1>3, TextDomain DEF RootObjectStart

LEMMA BlanksBeforeFacts ==
  ASSUME NEW text, IsText(text), NEW a \in 1 .. Len(text), NEW i \in a + 1 .. Len(text)
  PROVE  LET j == BlanksBefore(text, a, i)
         IN  /\ j \in a + 1 .. i /\ (j = a + 1 \/ text[j - 1] # Blank)
             /\ \A k \in j .. i - 1 : text[k] = Blank
<1>1. Len(text) \in Nat
  BY TextDomain
<1> DEFINE S == {j \in a + 1 .. i : \A k \in j .. i - 1 : text[k] = Blank}
<1>2. S \subseteq Nat /\ i \in S
  BY <1>1
<1>3. PICK j \in S : \A k \in S : j <= k
  BY <1>2, LeastOf
<1>4. j = a + 1 \/ text[j - 1] # Blank
  <2> SUFFICES ASSUME j # a + 1, text[j - 1] = Blank PROVE FALSE
    OBVIOUS
  <2>1. j - 1 \in S
    BY <1>1, <1>3
  <2>2. j \in Nat
    BY <1>2, <1>3
  <2> HIDE DEF S
  <2>3. j <= j - 1
    BY <1>3, <2>1
  <2> QED
    BY <2>2, <2>3
<1>5. \E l \in a + 1 .. i : /\ \A k \in l .. i - 1 : text[k] = Blank
                            /\ l = a + 1 \/ text[l - 1] # Blank
  BY <1>3, <1>4
<1> QED
  BY <1>5 DEF BlanksBefore

LEMMA BlanksBeforeIs ==
  ASSUME NEW text, IsText(text), NEW a \in 1 .. Len(text), NEW i \in a + 1 .. Len(text),
         NEW j \in a + 1 .. i, j = a + 1 \/ text[j - 1] # Blank,
         \A k \in j .. i - 1 : text[k] = Blank
  PROVE  BlanksBefore(text, a, i) = j
<1>1. Len(text) \in Nat
  BY TextDomain
<1>2. ASSUME NEW l \in a + 1 .. i, l = a + 1 \/ text[l - 1] # Blank,
             \A k \in l .. i - 1 : text[k] = Blank
      PROVE  l = j
  BY <1>1, <1>2
<1> QED
  BY <1>2 DEF BlanksBefore

LEMMA MemberFacts ==
  ASSUME NEW text, IsText(text), NEW a, NEW b, ObjectAt(text, a, b), NEW name
  PROVE  Members(text, a, name) =
           {k \in a + 1 .. b - 1 : text[k] = Name(name) /\ Nesting(text, a, k) = 1}
<1>1. /\ a \in 1 .. Len(text) /\ b \in 1 .. Len(text) /\ text[b] = Close /\ ValueEnd(text, a) = b
  BY ObjectFacts
<1>2. text[b] # Name(name)
  BY <1>1, Heads
<1> QED
  BY <1>1, <1>2 DEF Members

(***************************************************************************)
(* A text u that has n tokens where t has those from p + 1 to q.           *)
(***************************************************************************)
Spliced(t, u, p, q, n) ==
  /\ p \in Nat /\ q \in p .. Len(t) /\ n \in Nat
  /\ Len(u) = Len(t) + n - (q - p)
  /\ \A k \in 1 .. p : u[k] = t[k]
  /\ \A k \in q + 1 .. Len(t) : u[k + (n - (q - p))] = t[k]

(* A stretch in which every object that begins also ends.                  *)
Inert(text, i, j) ==
  Nesting(text, i, j) = 0 /\ \A k \in i .. j : Nesting(text, i, k) >= 0

LEMMA SplicedBack ==
  ASSUME NEW t, IsText(t), NEW u, NEW p, NEW q, NEW n, Spliced(t, u, p, q, n)
  PROVE  Spliced(u, t, p, p + n, q - p)
<1>0. Len(t) \in Nat
  BY TextDomain
<1>1. /\ p \in Nat /\ q \in p .. Len(t) /\ n \in Nat
      /\ Len(u) = Len(t) + n - (q - p)
  BY DEF Spliced
<1>2. ASSUME NEW k \in (p + n) + 1 .. Len(u) PROVE t[k + ((q - p) - ((p + n) - p))] = u[k]
  <2>1. k - (n - (q - p)) \in q + 1 .. Len(t)
    BY <1>0, <1>1
  <2>2. (k - (n - (q - p))) + (n - (q - p)) = k /\ k + ((q - p) - ((p + n) - p)) = k - (n - (q - p))
    BY <1>0, <1>1
  <2> QED
    BY <2>1, <2>2 DEF Spliced
<1> QED
  BY <1>0, <1>1, <1>2 DEF Spliced

LEMMA SplicedNesting ==
  ASSUME NEW t, IsText(t), NEW u, NEW p, NEW q, NEW n, Spliced(t, u, p, q, n),
         Inert(t, p + 1, q), Inert(u, p + 1, p + n), NEW a \in 1 .. p
  PROVE  /\ \A k \in a .. p : Nesting(u, a, k) = Nesting(t, a, k)
         /\ \A k \in p .. p + n : Nesting(u, a, k) = Nesting(t, a, p) + Nesting(u, p + 1, k)
         /\ \A k \in q .. Len(t) : Nesting(u, a, k + (n - (q - p))) = Nesting(t, a, k)
<1>0. Len(t) \in Nat
  BY TextDomain
<1>1. /\ p \in Nat /\ q \in p .. Len(t) /\ n \in Nat
  BY DEF Spliced
<1>2. ASSUME NEW k \in a .. p PROVE Nesting(u, a, k) = Nesting(t, a, k)
  <2>1. \A l \in a .. k : u[l] = t[l]
    BY <1>1 DEF Spliced
  <2> QED
    BY <1>1, <2>1, NestingSame
<1>3. ASSUME NEW k \in p .. p + n PROVE Nesting(u, a, k) = Nesting(t, a, p) + Nesting(u, p + 1, k)
  <2>1. Nesting(u, a, k) = Nesting(u, a, p) + Nesting(u, p + 1, k)
    BY <1>1, NestingSplit
  <2> QED
    BY <1>1, <1>2, <2>1
<1>4. ASSUME NEW k \in q .. Len(t) PROVE Nesting(u, a, k + (n - (q - p))) = Nesting(t, a, k)
  <2> DEFINE d == n - (q - p)
  <2>1. Nesting(t, a, k) = Nesting(t, a, p) + Nesting(t, p + 1, k)
    BY <1>0, <1>1, NestingSplit
  <2>2. Nesting(t, p + 1, k) = Nesting(t, p + 1, q) + Nesting(t, q + 1, k)
    BY <1>0, <1>1, NestingSplit
  <2>3. Nesting(u, a, k + d) = Nesting(u, a, p + n) + Nesting(u, (p + n) + 1, k + d)
    BY <1>0, <1>1, NestingSplit
  <2>4. Nesting(u, (q + 1) + d, k + d) = Nesting(t, q + 1, k)
    <3>1. \A l \in q + 1 .. k : u[l + d] = t[l]
      BY <1>0, <1>1 DEF Spliced
    <3>2. q + 1 \in Int /\ k \in Int /\ d \in Int
      BY <1>0, <1>1
    <3>3. (q + 1) + d \in Int /\ k + d \in Int /\ (k + d) - ((q + 1) + d) = k - (q + 1)
          /\ ((q + 1) + d) - (q + 1) = d
      BY <3>2
    <3>4. Copied(t, q + 1, k, u, (q + 1) + d)
      BY <3>1, <3>3 DEF Copied
    <3> HIDE DEF d
    <3> QED
      BY <1>0, <1>1, <3>2, <3>3, <3>4, NestingShift
  <2>5. (q + 1) + d = (p + n) + 1
    BY <1>0, <1>1
  <2>6. Nesting(u, a, p + n) = Nesting(t, a, p) + Nesting(u, p + 1, p + n)
    BY <1>1, <1>3
  <2>7. Nesting(t, a, p) \in Int /\ Nesting(t, q + 1, k) \in Int
    BY <1>0, <1>1, NestingIs
  <2>8. Nesting(t, p + 1, q) = 0 /\ Nesting(u, p + 1, p + n) = 0
    BY DEF Inert
  <2> HIDE DEF d
  <2>9. Nesting(u, a, k + d) = Nesting(t, a, k)
    BY <2>1, <2>2, <2>3, <2>4, <2>5, <2>6, <2>7, <2>8
  <2> QED
    BY <2>9 DEF d
<1> QED
  BY <1>2, <1>3, <1>4

(* A splice inside an object: the object ends where it ended, but for the  *)
(* shift.                                                                  *)
LEMMA SplicedInside ==
  ASSUME NEW t, IsText(t), NEW u, IsText(u), NEW p, NEW q, NEW n, Spliced(t, u, p, q, n),
         Inert(t, p + 1, q), Inert(u, p + 1, p + n),
         NEW a, NEW b, ObjectAt(t, a, b), a <= p, q < b
  PROVE  ObjectAt(u, a, b + (n - (q - p)))
<1>0. Len(t) \in Nat /\ DOMAIN u = 1 .. Len(u)
  BY TextDomain
<1>1. /\ p \in Nat /\ q \in p .. Len(t) /\ n \in Nat /\ Len(u) = Len(t) + n - (q - p)
      /\ \A k \in 1 .. p : u[k] = t[k]
  BY DEF Spliced
<1>2. /\ a \in 1 .. Len(t) /\ b \in 1 .. Len(t) /\ t[a] = Open /\ Nesting(t, a, b) = 0
      /\ \A k \in a .. b - 1 : Nesting(t, a, k) > 0
  BY TextDomain DEF ObjectAt
<1> DEFINE d == n - (q - p)
<1>3. a \in 1 .. p
  BY <1>1, <1>2
<1>4. /\ \A k \in a .. p : Nesting(u, a, k) = Nesting(t, a, k)
      /\ \A k \in p .. p + n : Nesting(u, a, k) = Nesting(t, a, p) + Nesting(u, p + 1, k)
      /\ \A k \in q .. Len(t) : Nesting(u, a, k + d) = Nesting(t, a, k)
  BY <1>3, SplicedNesting
<1>5. ASSUME NEW k \in a .. (b + d) - 1 PROVE Nesting(u, a, k) > 0
  <2>1. CASE k <= p
    <3>1. k \in a .. p /\ k \in a .. b - 1
      BY <1>1, <1>2, <2>1
    <3> QED
      BY <1>2, <1>4, <3>1
  <2>2. CASE k > p /\ k <= p + n
    <3>1. Nesting(u, p + 1, k) \in Int /\ Nesting(u, p + 1, k) >= 0
      BY <1>0, <1>1, <1>2, <2>2, NestingIs DEF Inert
    <3>2. Nesting(t, a, p) \in Int /\ Nesting(t, a, p) > 0
      BY <1>0, <1>1, <1>2, NestingIs
    <3>3. Nesting(u, a, k) = Nesting(t, a, p) + Nesting(u, p + 1, k)
      BY <1>0, <1>1, <1>2, <1>4, <2>2
    <3> QED
      BY <3>1, <3>2, <3>3
  <2>3. CASE k > p + n
    <3>1. k - d \in q + 1 .. b - 1 /\ (k - d) + d = k
      BY <1>0, <1>1, <1>2, <2>3
    <3>2. Nesting(u, a, (k - d) + d) = Nesting(t, a, k - d)
      BY <1>0, <1>1, <1>2, <1>4, <3>1
    <3>3. Nesting(t, a, k - d) > 0
      BY <1>0, <1>1, <1>2, <3>1
    <3> QED
      BY <3>1, <3>2, <3>3
  <2> QED
    BY <1>0, <1>1, <1>2, <2>1, <2>2, <2>3
<1>6. Nesting(u, a, b + d) = 0
  BY <1>0, <1>1, <1>2, <1>4
<1>7. u[a] = Open
  BY <1>1, <1>2, <1>3
<1>8. a \in 1 .. Len(u) /\ b + d \in 1 .. Len(u) /\ a < b + d
  BY <1>0, <1>1, <1>2
<1> QED
  BY <1>0, <1>5, <1>6, <1>7, <1>8 DEF ObjectAt

(* A splice behind an object leaves it alone.                              *)
LEMMA SplicedBehind ==
  ASSUME NEW t, IsText(t), NEW u, IsText(u), NEW p, NEW q, NEW n, Spliced(t, u, p, q, n),
         NEW a, NEW b, ObjectAt(t, a, b), b <= p
  PROVE  ObjectAt(u, a, b) /\ \A k \in a .. b : Nesting(u, a, k) = Nesting(t, a, k)
<1>0. Len(t) \in Nat /\ DOMAIN u = 1 .. Len(u)
  BY TextDomain
<1>1. /\ p \in Nat /\ q \in p .. Len(t) /\ n \in Nat /\ Len(u) = Len(t) + n - (q - p)
      /\ \A k \in 1 .. p : u[k] = t[k]
  BY DEF Spliced
<1>2. /\ a \in 1 .. Len(t) /\ b \in 1 .. Len(t) /\ a < b /\ t[a] = Open /\ Nesting(t, a, b) = 0
      /\ \A k \in a .. b - 1 : Nesting(t, a, k) > 0
  BY TextDomain DEF ObjectAt
<1>3. ASSUME NEW k \in a .. b PROVE Nesting(u, a, k) = Nesting(t, a, k)
  <2>1. \A l \in a .. k : u[l] = t[l]
    <3>1. a .. k \subseteq 1 .. p
      BY <1>0, <1>1, <1>2
    <3> QED
      BY <1>1, <3>1
  <2> QED
    BY <1>2, <2>1, NestingSame
<1>4. \A k \in a .. b - 1 : Nesting(u, a, k) > 0
  BY <1>2, <1>3
<1>5. u[a] = Open /\ Nesting(u, a, b) = 0
  BY <1>0, <1>1, <1>2, <1>3
<1>6. a \in 1 .. Len(u) /\ b \in 1 .. Len(u)
  BY <1>0, <1>1, <1>2
<1> QED
  BY <1>0, <1>2, <1>3, <1>4, <1>5, <1>6 DEF ObjectAt

(* A splice in front of an object shifts it.                               *)
LEMMA SplicedBefore ==
  ASSUME NEW t, IsText(t), NEW u, IsText(u), NEW p, NEW q, NEW n, Spliced(t, u, p, q, n),
         NEW a, NEW b, ObjectAt(t, a, b), q < a
  PROVE  /\ ObjectAt(u, a + (n - (q - p)), b + (n - (q - p)))
         /\ \A k \in a .. b :
              Nesting(u, a + (n - (q - p)), k + (n - (q - p))) = Nesting(t, a, k)
<1>0. Len(t) \in Nat /\ DOMAIN u = 1 .. Len(u)
  BY TextDomain
<1> DEFINE d == n - (q - p)
<1>1. /\ p \in Nat /\ q \in p .. Len(t) /\ n \in Nat /\ Len(u) = Len(t) + n - (q - p)
      /\ \A k \in q + 1 .. Len(t) : u[k + d] = t[k]
  BY DEF Spliced
<1>2. /\ a \in 1 .. Len(t) /\ b \in 1 .. Len(t) /\ a < b /\ t[a] = Open /\ Nesting(t, a, b) = 0
      /\ \A k \in a .. b - 1 : Nesting(t, a, k) > 0
  BY TextDomain DEF ObjectAt
<1>3. ASSUME NEW k \in a .. b PROVE Nesting(u, a + d, k + d) = Nesting(t, a, k)
  <2>1. \A l \in a .. k : u[l + d] = t[l]
    <3>1. a .. k \subseteq q + 1 .. Len(t)
      BY <1>0, <1>1, <1>2
    <3> QED
      BY <1>1, <3>1
  <2>2. d \in Int /\ a \in Int /\ k \in Int /\ a + d \in Int /\ k + d \in Int /\ (k + d) - (a + d) = k - a /\ (a + d) - a = d
    BY <1>0, <1>1, <1>2
  <2>3. Copied(t, a, k, u, a + d)
    BY <2>1, <2>2 DEF Copied
  <2> HIDE DEF d
  <2> QED
    BY <1>0, <1>2, <2>2, <2>3, NestingShift
<1>4. ASSUME NEW k \in a + d .. (b + d) - 1 PROVE Nesting(u, a + d, k) > 0
  <2>1. k - d \in a .. b - 1 /\ (k - d) + d = k
    BY <1>0, <1>1, <1>2
  <2> QED
    BY <1>2, <1>3, <2>1
<1>5. u[a + d] = Open /\ Nesting(u, a + d, b + d) = 0
  BY <1>0, <1>1, <1>2, <1>3
<1>6. a + d \in 1 .. Len(u) /\ b + d \in 1 .. Len(u) /\ a + d < b + d
  BY <1>0, <1>1, <1>2
<1> QED
  BY <1>0, <1>3, <1>4, <1>5, <1>6 DEF ObjectAt

(* The members of an object whose inside is spliced.                       *)
LEMMA SplicedMembers ==
  ASSUME NEW t, IsText(t), NEW u, IsText(u), NEW p, NEW q, NEW n, Spliced(t, u, p, q, n),
         Inert(t, p + 1, q), Inert(u, p + 1, p + n),
         NEW a, NEW b, ObjectAt(t, a, b), a <= p, q < b, NEW name
  PROVE  Members(u, a, name) =
           {k \in Members(t, a, name) : k <= p}
           \cup {k \in p + 1 .. p + n :
                   u[k] = Name(name) /\ Nesting(t, a, p) + Nesting(u, p + 1, k) = 1}
           \cup {k + (n - (q - p)) : k \in {k \in Members(t, a, name) : k > q}}
<1>0. Len(t) \in Nat
  BY TextDomain
<1> DEFINE d == n - (q - p)
<1>1. /\ p \in Nat /\ q \in p .. Len(t) /\ n \in Nat /\ Len(u) = Len(t) + n - (q - p)
      /\ \A k \in 1 .. p : u[k] = t[k]
      /\ \A k \in q + 1 .. Len(t) : u[k + d] = t[k]
  BY DEF Spliced
<1>2. a \in 1 .. Len(t) /\ b \in 1 .. Len(t) /\ a \in 1 .. p
  BY <1>1, ObjectFacts
<1>3. /\ \A k \in a .. p : Nesting(u, a, k) = Nesting(t, a, k)
      /\ \A k \in p .. p + n : Nesting(u, a, k) = Nesting(t, a, p) + Nesting(u, p + 1, k)
      /\ \A k \in q .. Len(t) : Nesting(u, a, k + d) = Nesting(t, a, k)
  BY <1>2, SplicedNesting
<1>4. Members(u, a, name) =
           {k \in a + 1 .. (b + d) - 1 : u[k] = Name(name) /\ Nesting(u, a, k) = 1}
  BY SplicedInside, MemberFacts
<1>5. Members(t, a, name) =
           {k \in a + 1 .. b - 1 : t[k] = Name(name) /\ Nesting(t, a, k) = 1}
  BY MemberFacts
<1>6. ASSUME NEW k \in a + 1 .. p PROVE k \in Members(u, a, name) <=> k \in Members(t, a, name)
  BY <1>0, <1>1, <1>2, <1>3, <1>4, <1>5
<1>7. ASSUME NEW k \in p + 1 .. p + n
      PROVE  k \in Members(u, a, name) <=>
               u[k] = Name(name) /\ Nesting(t, a, p) + Nesting(u, p + 1, k) = 1
  BY <1>0, <1>1, <1>2, <1>3, <1>4
<1>8. ASSUME NEW k \in q + 1 .. b - 1 PROVE k + d \in Members(u, a, name) <=> k \in Members(t, a, name)
  <2>1. k + d \in a + 1 .. (b + d) - 1 /\ k \in q .. Len(t) /\ k \in q + 1 .. Len(t) /\ k \in a + 1 .. b - 1
    BY <1>0, <1>1, <1>2
  <2>2. u[k + d] = t[k] /\ Nesting(u, a, k + d) = Nesting(t, a, k)
    BY <1>1, <1>3, <2>1
  <2> QED
    BY <1>4, <1>5, <2>1, <2>2
<1>9. \A k \in p + n + 1 .. (b + d) - 1 : k - d \in q + 1 .. b - 1 /\ (k - d) + d = k
  BY <1>0, <1>1, <1>2
<1>10. Members(u, a, name) \subseteq a + 1 .. (b + d) - 1 /\ Members(t, a, name) \subseteq a + 1 .. b - 1
  BY <1>4, <1>5
<1> DEFINE Low == {k \in Members(t, a, name) : k <= p}
           Mid == {k \in p + 1 .. p + n :
                   u[k] = Name(name) /\ Nesting(t, a, p) + Nesting(u, p + 1, k) = 1}
           High == {k + d : k \in {k \in Members(t, a, name) : k > q}}
<1>11. ASSUME NEW k \in Members(u, a, name) PROVE k \in Low \cup Mid \cup High
  <2>1. k \in a + 1 .. (b + d) - 1
    BY <1>10
  <2>2. CASE k <= p
    BY <1>1, <1>2, <1>6, <2>1, <2>2
  <2>3. CASE k > p /\ k <= p + n
    BY <1>1, <1>2, <1>7, <2>1, <2>3
  <2>4. CASE k > p + n
    <3>1. k - d \in q + 1 .. b - 1 /\ (k - d) + d = k
      BY <1>0, <1>1, <1>2, <1>9, <2>1, <2>4
    <3>2. k - d \in Members(t, a, name) /\ k - d > q
      BY <1>8, <3>1, <1>0, <1>1, <1>2
    <3>3. (k - d) + d \in High
      BY <3>2
    <3> QED
      BY <3>1, <3>3
  <2> QED
    BY <1>1, <1>2, <2>1, <2>2, <2>3, <2>4
<1>12. ASSUME NEW k \in Low PROVE k \in Members(u, a, name)
  BY <1>1, <1>2, <1>6, <1>10
<1>13. ASSUME NEW k \in Mid PROVE k \in Members(u, a, name)
  BY <1>7
<1>14. ASSUME NEW k \in Members(t, a, name), k > q PROVE k + d \in Members(u, a, name)
  BY <1>0, <1>1, <1>2, <1>8, <1>10, <1>14
<1>15. \A k \in High : k \in Members(u, a, name)
  BY <1>14
<1> HIDE DEF Low, Mid, High
<1>16. Members(u, a, name) = Low \cup Mid \cup High
  BY <1>11, <1>12, <1>13, <1>15
<1> QED
  BY <1>16 DEF Low, Mid, High

(* A splice inside the root.                                               *)
LEMMA SplicedRoot ==
  ASSUME NEW t, IsText(t), NEW u, IsText(u), NEW p, NEW q, NEW n, Spliced(t, u, p, q, n),
         Inert(t, p + 1, q), Inert(u, p + 1, p + n),
         NEW a, NEW b, RootAt(t, a, b), a <= p, q < b
  PROVE  RootAt(u, a, b + (n - (q - p)))
<1>0. Len(t) \in Nat /\ DOMAIN u = 1 .. Len(u) /\ DOMAIN t = 1 .. Len(t)
  BY TextDomain
<1> DEFINE d == n - (q - p)
<1>1. /\ p \in Nat /\ q \in p .. Len(t) /\ n \in Nat /\ Len(u) = Len(t) + n - (q - p)
      /\ \A k \in 1 .. p : u[k] = t[k]
      /\ \A k \in q + 1 .. Len(t) : u[k + d] = t[k]
  BY DEF Spliced
<1>2. ObjectAt(t, a, b) /\ \A k \in DOMAIN t : k < a \/ k > b => t[k] = Blank
  BY DEF RootAt
<1>3. ObjectAt(u, a, b + d)
  BY <1>2, SplicedInside
<1>4. a \in 1 .. Len(t) /\ b \in 1 .. Len(t) /\ d \in Int /\ d = n - (q - p) /\ Len(u) = Len(t) + d
  BY <1>0, <1>1, <1>2, ObjectFacts
<1> HIDE DEF d
<1>5. ASSUME NEW k \in 1 .. Len(u), k < a \/ k > b + d PROVE u[k] = Blank
  <2>1. CASE k < a
    <3>1. k \in 1 .. p /\ k \in DOMAIN t
      BY <1>0, <1>1, <1>4, <2>1
    <3> QED
      BY <1>1, <1>2, <2>1, <3>1
  <2>2. CASE k > b + d
    <3>1. k - d \in q + 1 .. Len(t) /\ (k - d) + d = k /\ k - d > b
      BY <1>0, <1>1, <1>4, <2>2
    <3>2. u[(k - d) + d] = t[k - d]
      BY <1>1, <3>1
    <3>3. k - d \in DOMAIN t
      BY <1>0, <1>1, <3>1
    <3>4. t[k - d] = Blank
      BY <1>2, <3>1, <3>3
    <3> QED
      BY <3>1, <3>2, <3>4
  <2> QED
    BY <1>5, <2>1, <2>2
<1> QED
  BY <1>0, <1>3, <1>4, <1>5 DEF RootAt

(***************************************************************************)
(* Stretches without braces.                                               *)
(***************************************************************************)
LEMMA FlatNesting ==
  ASSUME NEW text, NEW i, NEW j, i \in Int, j \in Int, \A k \in i .. j : Weight(text[k]) = 0
  PROVE  Nesting(text, i, j) = 0
<1>1. Spots(text, i, j, Open) = {} /\ Spots(text, i, j, Close) = {}
  BY BracesDiffer DEF Spots, Weight
<1> QED
  BY <1>1, NestingIs, FS_EmptySet

(* A stretch that is inert from x to y and has no braces beside it.        *)
LEMMA InertAround ==
  ASSUME NEW text, NEW i, NEW j, NEW x, NEW y, i \in Int, j \in Int, x \in Int, y \in Int,
         i <= x, x <= y + 1, y <= j, Inert(text, x, y),
         \A k \in i .. x - 1 : Weight(text[k]) = 0, \A k \in y + 1 .. j : Weight(text[k]) = 0
  PROVE  /\ Inert(text, i, j)
         /\ \A k \in i .. x - 1 : Nesting(text, i, k) = 0
         /\ \A k \in x .. y : Nesting(text, i, k) = Nesting(text, x, k)
         /\ \A k \in y + 1 .. j : Nesting(text, i, k) = 0
<1>1. ASSUME NEW k \in i - 1 .. x - 1 PROVE Nesting(text, i, k) = 0
  <2>1. \A l \in i .. k : Weight(text[l]) = 0
    OBVIOUS
  <2> QED
    BY <2>1, FlatNesting
<1>2. ASSUME NEW k \in x - 1 .. y PROVE Nesting(text, i, k) = Nesting(text, x, k)
  <2>1. Nesting(text, i, k) = Nesting(text, i, x - 1) + Nesting(text, (x - 1) + 1, k)
    BY NestingSplit
  <2>2. Nesting(text, i, x - 1) = 0 /\ (x - 1) + 1 = x
    BY <1>1
  <2>3. Nesting(text, x, k) \in Int
    BY NestingIs
  <2> QED
    BY <2>1, <2>2, <2>3
<1>3. Nesting(text, i, y) = 0
  <2>1. Nesting(text, i, y) = Nesting(text, x, y)
    BY <1>2
  <2> QED
    BY <2>1 DEF Inert
<1>4. ASSUME NEW k \in y .. j PROVE Nesting(text, i, k) = 0
  <2>1. Nesting(text, i, k) = Nesting(text, i, y) + Nesting(text, y + 1, k)
    BY NestingSplit
  <2>2. \A l \in y + 1 .. k : Weight(text[l]) = 0
    OBVIOUS
  <2>3. Nesting(text, y + 1, k) = 0
    BY <2>2, FlatNesting
  <2> QED
    BY <1>3, <2>1, <2>3
<1>5. ASSUME NEW k \in i .. j PROVE Nesting(text, i, k) >= 0
  <2>1. CASE k <= x - 1
    BY <1>1, <2>1
  <2>2. CASE k >= x /\ k <= y
    <3>1. Nesting(text, x, k) >= 0
      BY <2>2 DEF Inert
    <3> QED
      BY <1>2, <2>2, <3>1
  <2>3. CASE k > y
    BY <1>4, <2>3
  <2> QED
    BY <2>1, <2>2, <2>3
<1>6. Nesting(text, i, j) = 0
  BY <1>4
<1> QED
  BY <1>1, <1>2, <1>4, <1>5, <1>6 DEF Inert

LEMMA FlatIsInert ==
  ASSUME NEW text, NEW i, NEW j, i \in Int, j \in Int, \A k \in i .. j : Weight(text[k]) = 0
  PROVE  Inert(text, i, j)
<1>1. ASSUME NEW k \in i .. j PROVE Nesting(text, i, k) = 0
  <2>1. \A l \in i .. k : Weight(text[l]) = 0
    OBVIOUS
  <2> QED
    BY <2>1, FlatNesting
<1>2. Nesting(text, i, j) = 0
  BY FlatNesting
<1> QED
  BY <1>1, <1>2 DEF Inert

LEMMA ObjectIsInert ==
  ASSUME NEW text, IsText(text), NEW a, NEW b, ObjectAt(text, a, b)
  PROVE  Inert(text, a, b)
<1>1. /\ a \in 1 .. Len(text) /\ b \in 1 .. Len(text) /\ a < b /\ Nesting(text, a, b) = 0
      /\ \A k \in a .. b - 1 : Nesting(text, a, k) > 0
  BY TextDomain DEF ObjectAt
<1>2. \A k \in a .. b : Nesting(text, a, k) \in Int
  BY <1>1, NestingIs
<1> QED
  BY <1>1, <1>2 DEF Inert

(***************************************************************************)
(* What the edits do, as splices.                                          *)
(***************************************************************************)
LEMMA AnySequence ==
  ASSUME NEW S, NEW u \in Seq(S)
  PROVE  IsText(u)
BY DEF IsText, Tokens

LEMMA CutFacts ==
  ASSUME NEW S, NEW t \in Seq(S), NEW p, p \in Nat, p <= Len(t)
  PROVE  /\ Cut(t, 1, p) \in Seq(S) /\ Len(Cut(t, 1, p)) = p
         /\ \A k \in 1 .. p : Cut(t, 1, p)[k] = t[k]
<1>1. \A k \in 1 .. p : t[k] \in S
  OBVIOUS
<1>2. /\ SubSeq(t, 1, p) \in Seq(S)
      /\ Len(SubSeq(t, 1, p)) = IF 1 <= p THEN p - 1 + 1 ELSE 0
      /\ \A k \in 1 .. p - 1 + 1 : SubSeq(t, 1, p)[k] = t[1 + k - 1]
  BY <1>1, SubSeqProperties
<1> QED
  BY <1>2 DEF Cut

LEMMA RestFacts ==
  ASSUME NEW S, NEW t \in Seq(S), NEW q, q \in Nat, q <= Len(t)
  PROVE  /\ Rest(t, q + 1) \in Seq(S) /\ Len(Rest(t, q + 1)) = Len(t) - q
         /\ \A k \in 1 .. Len(t) - q : Rest(t, q + 1)[k] = t[q + k]
<1>1. \A k \in q + 1 .. Len(t) : t[k] \in S
  OBVIOUS
<1>2. /\ SubSeq(t, q + 1, Len(t)) \in Seq(S)
      /\ Len(SubSeq(t, q + 1, Len(t))) = IF q + 1 <= Len(t) THEN Len(t) - (q + 1) + 1 ELSE 0
      /\ \A k \in 1 .. Len(t) - (q + 1) + 1 : SubSeq(t, q + 1, Len(t))[k] = t[(q + 1) + k - 1]
  BY <1>1, SubSeqProperties
<1> QED
  BY <1>2 DEF Rest

(* Kept opaque: to cite what they say the provers need the fact itself.    *)
IsJoin(z, x, y) == z = x \o y
IsSplice(u, t, p, q, w) == u = Cut(t, 1, p) \o w \o Rest(t, q + 1)
Placed(w, u, p) == \A k \in 1 .. Len(w) : u[p + k] = w[k]
IsWord(w, name, value, s) == w = <<Blank, Name(name)>> \o value \o <<s>>

LEMMA SpliceFacts ==
  ASSUME NEW S, NEW t \in Seq(S), NEW w \in Seq(S), NEW p, NEW q, p \in Nat, q \in p .. Len(t),
         NEW u, IsSplice(u, t, p, q, w)
  PROVE  u \in Seq(S) /\ Spliced(t, u, p, q, Len(w)) /\ Placed(w, u, p)
<1> DEFINE A == Cut(t, 1, p)
           R == Rest(t, q + 1)
<1>3. Len(w) \in Nat /\ Len(t) \in Nat
  OBVIOUS
<1>0. q \in Nat /\ p <= q /\ q <= Len(t) /\ p <= Len(t)
  BY <1>3
<1>1. /\ A \in Seq(S) /\ Len(A) = p /\ \A k \in 1 .. p : A[k] = t[k]
  BY <1>0, CutFacts
<1>2. /\ R \in Seq(S) /\ Len(R) = Len(t) - q /\ \A k \in 1 .. Len(t) - q : R[k] = t[q + k]
  BY <1>0, RestFacts
<1> HIDE DEF A, R
<1>4. /\ A \o w \in Seq(S) /\ Len(A \o w) = p + Len(w)
      /\ \A k \in 1 .. p + Len(w) : (A \o w)[k] = IF k <= p THEN A[k] ELSE w[k - p]
  BY <1>1, ConcatProperties
<1> DEFINE B == A \o w
           l == p + Len(w)
<1>5. u = B \o R /\ B \in Seq(S) /\ Len(B) = l /\ l \in Nat /\ l = p + Len(w)
  <2>1. u = B \o R
    BY DEF A, R, IsSplice
  <2> QED
    BY <1>3, <1>4, <2>1
<1>6. \A k \in 1 .. p + Len(w) : B[k] = IF k <= p THEN A[k] ELSE w[k - p]
  BY <1>4, Zenon
<1> HIDE DEF B, l
<1>7. /\ B \o R \in Seq(S) /\ Len(B \o R) = l + Len(R)
      /\ \A k \in 1 .. l + Len(R) : (B \o R)[k] = IF k <= l THEN B[k] ELSE R[k - l]
  BY <1>2, <1>5, ConcatProperties, SMTT(30)
<1>8. /\ u \in Seq(S) /\ Len(u) = Len(t) + Len(w) - (q - p) /\ Len(u) = l + (Len(t) - q)
      /\ \A k \in 1 .. Len(u) : u[k] = IF k <= l THEN B[k] ELSE R[k - l]
  <2>1. u \in Seq(S) /\ Len(u) = l + Len(R)
    BY <1>5, <1>7
  <2>2. \A k \in 1 .. Len(u) : u[k] = IF k <= l THEN B[k] ELSE R[k - l]
    <3>1. \A k \in 1 .. l + Len(R) : u[k] = IF k <= l THEN B[k] ELSE R[k - l]
      BY <1>5, <1>7
    <3> QED
      BY <2>1, <3>1
  <2>3. Len(u) = Len(t) + Len(w) - (q - p) /\ Len(u) = l + (Len(t) - q)
    <3>1. Len(R) = Len(t) - q /\ l = p + Len(w) /\ Len(u) = l + Len(R)
      BY <1>2, <1>5, <2>1
    <3> QED
      BY <1>0, <1>3, <3>1
  <2> QED
    BY <2>1, <2>2, <2>3
<1>12. l = p + Len(w) /\ l \in Nat /\ Len(u) = l + (Len(t) - q)
  BY <1>5, <1>8
<1>9. ASSUME NEW k \in 1 .. p PROVE u[k] = t[k]
  <2>1. k \in 1 .. Len(u) /\ k <= l /\ k \in 1 .. p + Len(w)
    BY <1>0, <1>3, <1>12
  <2> QED
    BY <1>1, <1>6, <1>8, <2>1
<1>10. ASSUME NEW k \in 1 .. Len(w) PROVE u[p + k] = w[k]
  <2>1. p + k \in 1 .. Len(u) /\ p + k <= l /\ p + k \in 1 .. p + Len(w) /\ ~(p + k <= p) /\ (p + k) - p = k
    BY <1>0, <1>3, <1>12
  <2> QED
    BY <1>6, <1>8, <2>1
<1>11. ASSUME NEW k \in q + 1 .. Len(t) PROVE u[k + (Len(w) - (q - p))] = t[k]
  <2> DEFINE m == k + (Len(w) - (q - p))
  <2>1. /\ m \in 1 .. Len(u) /\ ~(m <= l) /\ m - l = k - q /\ k - q \in 1 .. Len(t) - q /\ q + (k - q) = k
    BY <1>0, <1>3, <1>12
  <2> HIDE DEF m
  <2>2. u[m] = R[k - q] /\ R[k - q] = t[k]
    BY <1>2, <1>8, <2>1
  <2> QED
    BY <2>2 DEF m
<1> QED
  BY <1>0, <1>3, <1>8, <1>9, <1>10, <1>11 DEF Spliced, Placed

(***************************************************************************)
(* Finding a member, and the value behind its name.                        *)
(***************************************************************************)
IsValue(token) == token = Open \/ IsScalar(token)

(* Every name of the text has a value behind it.                           *)
Valued(text) ==
  \A k \in DOMAIN text : IsName(text[k]) => k < Len(text) /\ IsValue(text[k + 1])

LEMMA ScalarIsFlat ==
  ASSUME NEW token, IsScalar(token)
  PROVE  /\ Weight(token) = 0 /\ ~IsName(token)
         /\ token \notin {Open, Close, Comma, Blank} /\ \A n : token # Name(n)
BY Heads DEF Weight, IsScalar, IsName

LEMMA NamesAreFlat ==
  ASSUME NEW n
  PROVE  /\ Weight(Name(n)) = 0 /\ IsName(Name(n)) /\ ~IsScalar(Name(n))
         /\ Name(n) \notin {Open, Close, Comma, Blank}
BY Heads DEF Weight, IsScalar, IsName

LEMMA MarksAreFlat ==
  /\ Weight(Comma) = 0 /\ Weight(Blank) = 0
  /\ \A token \in {Open, Close, Comma, Blank} : ~IsName(token) /\ ~IsScalar(token)
BY Heads, BracesDiffer DEF Weight, IsScalar, IsName

(* What findMember finds.                                                  *)
LEMMA FindOnly ==
  ASSUME NEW text, NEW open, NEW name, NEW k, Members(text, open, name) = {k}, k \in Int
  PROVE  FindMember(text, open, name) = k
BY DEF FindMember

LEMMA FindNone ==
  ASSUME NEW text, NEW open, NEW name, Members(text, open, name) = {}
  PROVE  FindMember(text, open, name) = 0
BY DEF FindMember

LEMMA FindSome ==
  ASSUME NEW text, IsText(text), NEW a, NEW b, ObjectAt(text, a, b), NEW name,
         Members(text, a, name) # {}
  PROVE  FindMember(text, a, name) \in Members(text, a, name)
<1>1. a \in Nat /\ b \in Nat
  BY ObjectFacts, TextDomain
<1>2. Members(text, a, name) \subseteq Nat
  BY <1>1, MemberFacts
<1>3. \E x \in Members(text, a, name) : \A y \in Members(text, a, name) : x <= y
  BY <1>2, LeastOf
<1> QED
  BY <1>3 DEF FindMember

LEMMA ObjectEndsOnce ==
  ASSUME NEW text, IsText(text), NEW a, NEW b, NEW c, ObjectAt(text, a, b), ObjectAt(text, a, c)
  PROVE  b = c
BY ObjectFacts

(* The value of a member: it is inert, ends inside the object, and no      *)
(* member of the object stands in it.                                      *)
LEMMA ValueSpan ==
  ASSUME NEW text, IsText(text), Valued(text), NEW a, NEW b, ObjectAt(text, a, b),
         NEW name, NEW k, k \in Members(text, a, name)
  PROVE  LET v == ValueEnd(text, k + 1)
         IN  /\ k \in a + 1 .. b - 1 /\ v \in k + 1 .. b - 1
             /\ Inert(text, k + 1, v) /\ Nesting(text, a, v) = 1
             /\ (IsScalar(text[k + 1]) /\ v = k + 1) \/ ObjectAt(text, k + 1, v)
             /\ \A j \in k .. v : \A other : j \in Members(text, a, other) => j = k
<1> DEFINE v == ValueEnd(text, k + 1)
<1>1. /\ a \in 1 .. Len(text) /\ b \in 1 .. Len(text) /\ Len(text) \in Nat
      /\ DOMAIN text = 1 .. Len(text) /\ text[b] = Close
      /\ \A j \in a .. b - 1 : Nesting(text, a, j) > 0
  BY ObjectFacts, TextDomain DEF ObjectAt
<1>2. k \in a + 1 .. b - 1 /\ text[k] = Name(name) /\ Nesting(text, a, k) = 1
  BY MemberFacts
<1>3. k \in Int /\ k + 1 \in 1 .. Len(text) /\ IsValue(text[k + 1])
  BY <1>1, <1>2, NamesAreFlat DEF Valued
<1>4. ~IsScalar(text[b]) /\ text[b] # Open
  BY <1>1, MarksAreFlat, BracesDiffer
<1>5. k + 1 \in a + 1 .. b - 1
  BY <1>1, <1>2, <1>3, <1>4 DEF IsValue
<1>6. ASSUME NEW j, NEW other, j \in Members(text, a, other)
      PROVE  j \in Int /\ text[j] = Name(other) /\ Nesting(text, a, j) = 1
  BY <1>1, <1>6, MemberFacts
<1>7. CASE IsScalar(text[k + 1])
  <2>1. v = k + 1 /\ Nesting(text, k + 1, k + 1) = 0
    BY <1>3, <1>7, ScalarEnds
  <2>2. Inert(text, k + 1, k + 1)
    BY <1>3, <2>1 DEF Inert
  <2>3. Nesting(text, a, k + 1) = Nesting(text, a, k) + Nesting(text, k + 1, k + 1)
    BY <1>1, <1>2, <1>3, NestingSplit
  <2>4. Nesting(text, a, k + 1) = 1
    BY <1>2, <2>1, <2>3
  <2>5. \A other : text[k + 1] # Name(other)
    BY <1>7, ScalarIsFlat
  <2> HIDE DEF v
  <2>6. \A j \in k .. v : \A other : j \in Members(text, a, other) => j = k
    BY <1>3, <1>6, <2>1, <2>5
  <2> QED
    BY <1>2, <1>5, <1>7, <2>1, <2>2, <2>4, <2>6 DEF v
<1>8. CASE text[k + 1] = Open
  <2>1. PICK z \in (k + 1) + 1 .. b - 1 : ObjectAt(text, k + 1, z)
    BY <1>5, <1>8, <1>1, InnerObject
  <2>2. v = z
    BY <2>1, ObjectFacts
  <2>3. Inert(text, k + 1, z)
    BY <2>1, ObjectIsInert
  <2>4. /\ Nesting(text, k + 1, z) = 0
        /\ \A j \in k + 1 .. z - 1 : Nesting(text, k + 1, j) > 0 /\ Nesting(text, k + 1, j) \in Int
    BY <1>1, <1>3, <2>1, NestingIs DEF ObjectAt
  <2>5. ASSUME NEW j \in k + 1 .. z PROVE Nesting(text, a, j) = 1 + Nesting(text, k + 1, j)
    <3>1. Nesting(text, a, j) = Nesting(text, a, k) + Nesting(text, k + 1, j)
      BY <1>1, <1>2, <1>3, NestingSplit
    <3> QED
      BY <1>2, <3>1
  <2>6. z \in k + 1 .. z /\ Nesting(text, a, z) = 1
    <3>1. z \in k + 1 .. z
      BY <1>1, <1>3, <2>1
    <3> QED
      BY <3>1, <2>4, <2>5
  <2>7. text[z] = Close
    BY <2>1, ObjectFacts
  <2>8. ASSUME NEW j \in k .. z, NEW other, j \in Members(text, a, other) PROVE j = k
    <3>1. j # z
      BY <1>6, <2>7, <2>8, NamesAreFlat
    <3>2. CASE j \in k + 1 .. z - 1
      BY <1>6, <2>4, <2>5, <2>8, <3>2, <1>1, <1>3, <2>1
    <3> QED
      BY <3>1, <3>2, <1>1, <1>3, <2>1
  <2> HIDE DEF v
  <2> QED
    BY <1>2, <1>3, <1>1, <2>1, <2>2, <2>3, <2>6, <2>8 DEF v
<1> QED
  BY <1>3, <1>7, <1>8 DEF IsValue

ValuedFrom(text, i, j) ==
  \A k \in i .. j : IsName(text[k]) => k < j /\ IsValue(text[k + 1])

LEMMA ValuedSplice ==
  ASSUME NEW t, IsText(t), NEW u, IsText(u), NEW p, NEW q, NEW n, Spliced(t, u, p, q, n),
         Valued(t), p > 0, ~IsName(t[p]), ValuedFrom(u, p + 1, p + n)
  PROVE  Valued(u)
<1> DEFINE d == n - (q - p)
<1>1. /\ p \in Nat /\ q \in p .. Len(t) /\ n \in Nat /\ Len(u) = Len(t) + d
      /\ \A k \in 1 .. p : u[k] = t[k]
      /\ \A k \in q + 1 .. Len(t) : u[k + d] = t[k]
  BY TextDomain DEF Spliced
<1>2. Len(t) \in Nat /\ DOMAIN t = 1 .. Len(t) /\ DOMAIN u = 1 .. Len(u) /\ d \in Int /\ d = n - (q - p)
  BY <1>1, TextDomain
<1>3. \A k \in 1 .. Len(t) : IsName(t[k]) => k < Len(t) /\ IsValue(t[k + 1])
  BY <1>2 DEF Valued
<1> HIDE DEF d
<1>4. ASSUME NEW k \in 1 .. Len(u), IsName(u[k]) PROVE k < Len(u) /\ IsValue(u[k + 1])
  <2>1. CASE k <= p
    <3>1. k # p
      BY <1>1, <1>4
    <3>2. k \in 1 .. p /\ k + 1 \in 1 .. p /\ k \in 1 .. Len(t)
      BY <1>1, <1>2, <2>1, <3>1
    <3> QED
      BY <1>1, <1>2, <1>3, <1>4, <3>2
  <2>2. CASE k \in p + 1 .. p + n
    BY <1>1, <1>2, <1>4, <2>2 DEF ValuedFrom
  <2>3. CASE k > p + n
    <3>1. k - d \in q + 1 .. Len(t) /\ (k - d) + d = k /\ ((k - d) + 1) + d = k + 1 /\ k - d \in 1 .. Len(t)
      BY <1>1, <1>2, <2>3
    <3>2. u[k] = t[k - d]
      BY <1>1, <3>1
    <3>3. k - d < Len(t) /\ IsValue(t[(k - d) + 1])
      BY <1>3, <1>4, <3>1, <3>2
    <3>4. (k - d) + 1 \in q + 1 .. Len(t)
      BY <1>1, <1>2, <3>1, <3>3
    <3>6. u[((k - d) + 1) + d] = t[(k - d) + 1]
      BY <1>1, <3>4
    <3>5. u[k + 1] = t[(k - d) + 1]
      BY <3>1, <3>6
    <3> QED
      BY <1>1, <1>2, <3>1, <3>3, <3>5
  <2> QED
    BY <1>1, <1>2, <2>1, <2>2, <2>3
<1> QED
  BY <1>2, <1>4 DEF Valued

(***************************************************************************)
(* The edits of JsonMember, as splices.                                    *)
(***************************************************************************)
(* What goes with the value: blanks, and one comma.                        *)
Loose(token) == token = Blank \/ token = Comma

(* A member that is deleted takes nothing but blanks and a comma with it.  *)
LEMMA DeleteIsSplice ==
  ASSUME NEW S, NEW text \in Seq(S), Valued(text), NEW a, NEW b, ObjectAt(text, a, b), NEW name,
         NEW k, k = FindMember(text, a, name), Members(text, a, name) # {}
  PROVE  LET v == ValueEnd(text, k + 1)
         IN  \E p \in a .. k - 1, q \in v .. b - 1 :
               /\ IsSplice(DeleteMember(text, a, name), text, p, q, <<>>)
               /\ \A j \in p + 1 .. k - 1 : Loose(text[j])
               /\ \A j \in v + 1 .. q : Loose(text[j])
<1>0. IsText(text)
  BY AnySequence
<1>1. k \in Members(text, a, name)
  BY <1>0, FindSome
<1> DEFINE v == ValueEnd(text, k + 1)
           first == BlanksBefore(text, a, k)
           after == SkipBlanks(text, v + 1)
<1>2. /\ a \in 1 .. Len(text) /\ b \in 1 .. Len(text) /\ Len(text) \in Nat /\ text[b] = Close
      /\ text[a] = Open
  BY <1>0, ObjectFacts, TextDomain DEF ObjectAt
<1>3. k \in a + 1 .. b - 1 /\ v \in k + 1 .. b - 1
  BY <1>0, <1>1, ValueSpan
<1>4. k \in a + 1 .. Len(text) /\ v + 1 \in 1 .. Len(text) + 1
  BY <1>2, <1>3
<1>5. /\ first \in a + 1 .. k /\ (first = a + 1 \/ text[first - 1] # Blank)
      /\ \A j \in first .. k - 1 : text[j] = Blank
  BY <1>0, <1>2, <1>4, BlanksBeforeFacts
<1>6. /\ after \in v + 1 .. Len(text) + 1 /\ (after > Len(text) \/ text[after] # Blank)
      /\ \A j \in v + 1 .. after - 1 : text[j] = Blank
  BY <1>0, <1>4, SkipFacts
<1>7. DeleteMember(text, a, name) = Deleted(text, first, after, v)
  <2>1. k # 0
    BY <1>2, <1>3
  <2> QED
    BY <2>1 DEF DeleteMember
<1> HIDE DEF v, first, after
<1>8. after <= b
  BY <1>2, <1>3, <1>6, BracesDiffer
<1>9. ASSUME NEW p, p \in 0 .. Len(text) PROVE Cut(text, 1, p) \in Seq(S)
  <2>1. p \in Nat /\ p <= Len(text)
    BY <1>2, <1>9
  <2> QED
    BY <2>1, CutFacts
<1>10. ASSUME NEW p, NEW q, p \in 0 .. Len(text)
       PROVE  IsSplice(Cut(text, 1, p) \o Rest(text, q + 1), text, p, q, <<>>)
  <2>1. Cut(text, 1, p) \o <<>> = Cut(text, 1, p)
    BY <1>9, <1>10, ConcatEmptySeq
  <2> QED
    BY <2>1 DEF IsSplice
<1>11. CASE text[after] = Comma
  <2>1. Deleted(text, first, after, v) = Cut(text, 1, first - 1) \o Rest(text, after + 1)
    BY <1>11 DEF Deleted
  <2>2. first - 1 \in a .. k - 1 /\ first - 1 \in 0 .. Len(text) /\ (first - 1) + 1 = first
    BY <1>2, <1>3, <1>5
  <2>3. after # b
    BY <1>2, <1>11, BracesDiffer
  <2>4. after \in v .. b - 1
    BY <1>2, <1>3, <1>6, <1>8, <2>3
  <2>5. IsSplice(DeleteMember(text, a, name), text, first - 1, after, <<>>)
    BY <1>7, <1>10, <2>1, <2>2
  <2>6. \A j \in (first - 1) + 1 .. k - 1 : Loose(text[j])
    BY <1>5, <2>2 DEF Loose
  <2>7. \A j \in v + 1 .. after : Loose(text[j])
    BY <1>3, <1>6, <1>11 DEF Loose
  <2> QED
    BY <2>2, <2>4, <2>5, <2>6, <2>7 DEF v
<1>12. CASE text[after] # Comma /\ text[first - 1] = Comma
  <2>1. Deleted(text, first, after, v) = Cut(text, 1, first - 2) \o Rest(text, v + 1)
    BY <1>12 DEF Deleted
  <2>2. first - 1 # a
    BY <1>2, <1>12, BracesDiffer
  <2>3. first - 2 \in a .. k - 1 /\ first - 2 \in 0 .. Len(text) /\ (first - 2) + 1 = first - 1
    BY <1>2, <1>3, <1>5, <2>2
  <2>4. v \in v .. b - 1
    BY <1>2, <1>3
  <2>5. IsSplice(DeleteMember(text, a, name), text, first - 2, v, <<>>)
    BY <1>7, <1>10, <2>1, <2>3
  <2>6. \A j \in (first - 2) + 1 .. k - 1 : Loose(text[j])
    BY <1>3, <1>5, <1>12, <2>3 DEF Loose
  <2>7. \A j \in v + 1 .. v : Loose(text[j])
    BY <1>3
  <2> QED
    BY <2>3, <2>4, <2>5, <2>6, <2>7 DEF v
<1>13. CASE text[after] # Comma /\ text[first - 1] # Comma
  <2>1. Deleted(text, first, after, v) = Cut(text, 1, first - 1) \o Rest(text, after)
    BY <1>13 DEF Deleted
  <2>2. /\ first - 1 \in a .. k - 1 /\ first - 1 \in 0 .. Len(text) /\ (first - 1) + 1 = first
        /\ (after - 1) + 1 = after
    BY <1>2, <1>3, <1>5, <1>6
  <2>4. after - 1 \in v .. b - 1
    BY <1>2, <1>3, <1>6, <1>8
  <2>5. IsSplice(DeleteMember(text, a, name), text, first - 1, after - 1, <<>>)
    BY <1>7, <1>10, <2>1, <2>2
  <2>6. \A j \in (first - 1) + 1 .. k - 1 : Loose(text[j])
    BY <1>5, <2>2 DEF Loose
  <2>7. \A j \in v + 1 .. after - 1 : Loose(text[j])
    BY <1>3, <1>6 DEF Loose
  <2> QED
    BY <2>2, <2>4, <2>5, <2>6, <2>7 DEF v
<1> QED
  BY <1>11, <1>12, <1>13

LEMMA OneAndOne ==
  ASSUME NEW S, NEW x \in S, NEW y \in S
  PROVE  <<x>> \o <<y>> = <<x, y>>
<1> DEFINE X == <<x>>
           Y == <<y>>
           Z == <<x, y>>
<1>1. /\ X \in Seq(S) /\ Y \in Seq(S) /\ Z \in Seq(S) /\ Len(X) = 1 /\ Len(Y) = 1 /\ Len(Z) = 2
      /\ X[1] = x /\ Y[1] = y /\ Z[1] = x /\ Z[2] = y
  OBVIOUS
<1> HIDE DEF X, Y, Z
<1>2. X \o Y \in Seq(S) /\ Len(X \o Y) = 2 /\ (X \o Y)[1] = x /\ (X \o Y)[2] = y
  BY <1>1, ConcatProperties
<1>3. X \o Y = Z
  BY <1>1, <1>2, SeqEqual
<1> QED
  BY <1>3 DEF X, Y, Z

(* Concatenation, kept opaque.                                             *)
Texts(S) == Seq(S)
Join(x, y) == x \o y

LEMMA JoinFacts ==
  ASSUME NEW S, NEW x \in Texts(S), NEW y \in Texts(S)
  PROVE  Join(x, y) \in Texts(S)
BY ConcatProperties DEF Texts, Join

LEMMA JoinAssociative ==
  ASSUME NEW S, NEW x \in Texts(S), NEW y \in Texts(S), NEW z \in Texts(S)
  PROVE  Join(Join(x, y), z) = Join(x, Join(y, z))
BY ConcatAssociative DEF Texts, Join

LEMMA Regroup ==
  ASSUME NEW S, NEW A \in Texts(S), NEW B \in Texts(S), NEW N \in Texts(S), NEW V \in Texts(S),
         NEW Z \in Texts(S), NEW R \in Texts(S)
  PROVE  Join(Join(Join(A, B), Join(N, V)), Join(Z, R)) = Join(Join(A, Join(Join(Join(B, N), V), Z)), R)
<1>1. Join(B, N) \in Texts(S) /\ Join(N, V) \in Texts(S) /\ Join(Z, R) \in Texts(S) /\ Join(A, B) \in Texts(S)
  BY JoinFacts
<1>2. Join(Join(B, N), V) \in Texts(S) /\ Join(Join(A, B), Join(N, V)) \in Texts(S)
  BY <1>1, JoinFacts
<1>3. Join(Join(A, B), Join(N, V)) = Join(A, Join(B, Join(N, V)))
  BY <1>1, JoinAssociative
<1>4. Join(B, Join(N, V)) = Join(Join(B, N), V)
  BY JoinAssociative
<1>5. Join(Join(Join(A, B), Join(N, V)), Join(Z, R)) = Join(Join(Join(Join(A, B), Join(N, V)), Z), R)
  BY <1>2, JoinAssociative
<1>6. Join(Join(A, Join(Join(B, N), V)), Z) = Join(A, Join(Join(Join(B, N), V), Z))
  BY <1>2, JoinAssociative
<1> QED
  BY <1>3, <1>4, <1>5, <1>6

(* The text is cut after the brace, and behind the blanks if the object    *)
(* has no member.                                                          *)
Inserted(u, t, p, q, name, value, s) ==
  \E w : IsWord(w, name, value, s) /\ IsSplice(u, t, p, q, w)

LEMMA SetIsSplice ==
  ASSUME NEW S, NEW text \in Seq(S), NEW a, NEW b, ObjectAt(text, a, b), NEW name,
         Members(text, a, name) = {}, NEW value \in Seq(S),
         Blank \in S, Comma \in S, Name(name) \in S
  PROVE  \E q \in a .. b - 1, s \in {Comma, Blank} :
           /\ Inserted(SetMember(text, a, name, value), text, a, q, name, value, s)
           /\ \A j \in a + 1 .. q : text[j] = Blank
           /\ s = Comma => q = a /\ text[SkipBlanks(text, a + 1)] # Close
           /\ s = Blank => text[q + 1] = Close
<1>0. IsText(text)
  BY AnySequence
<1> DEFINE after == SkipBlanks(text, a + 1)
<1>2. /\ a \in 1 .. Len(text) /\ b \in 1 .. Len(text) /\ Len(text) \in Nat /\ text[b] = Close
      /\ a < b
  BY <1>0, ObjectFacts, TextDomain DEF ObjectAt
<1>3. /\ after \in a + 1 .. Len(text) + 1 /\ (after > Len(text) \/ text[after] # Blank)
      /\ \A j \in a + 1 .. after - 1 : text[j] = Blank
  BY <1>0, <1>2, SkipFacts
<1>4. FindMember(text, a, name) = 0
  BY FindNone
<1>5. SetMember(text, a, name, value) =
        Cut(text, 1, a) \o <<Blank>> \o (<<Name(name)>> \o value) \o
           (IF text[after] = Close THEN <<Blank>> \o Rest(text, after)
            ELSE <<Comma>> \o Rest(text, a + 1))
  BY <1>4 DEF SetMember
<1> HIDE DEF after
<1>6. after <= b
  BY <1>2, <1>3, BracesDiffer
<1>7. ASSUME NEW s \in {Comma, Blank}, NEW q, q \in Nat, q <= Len(text)
      PROVE  Inserted(Cut(text, 1, a) \o <<Blank>> \o (<<Name(name)>> \o value)
                        \o (<<s>> \o Rest(text, q + 1)), text, a, q, name, value, s)
  <2> DEFINE A == Cut(text, 1, a)
             R == Rest(text, q + 1)
             B == <<Blank>>
             N == <<Name(name)>>
             Z == <<s>>
  <2>0. a \in Nat /\ a <= Len(text)
    BY <1>2
  <2>1. A \in Seq(S)
    BY <2>0, CutFacts
  <2>2. R \in Seq(S)
    BY <1>7, RestFacts
  <2>3. B \in Seq(S) /\ N \in Seq(S) /\ Z \in Seq(S)
    OBVIOUS
  <2>4. B \o N = <<Blank, Name(name)>>
    BY OneAndOne
  <2> HIDE DEF A, R, B, N, Z
  <2>5. A \in Texts(S) /\ R \in Texts(S) /\ B \in Texts(S) /\ N \in Texts(S) /\ Z \in Texts(S) /\ value \in Texts(S)
    BY <2>1, <2>2, <2>3 DEF Texts
  <2>6. Join(Join(Join(A, B), Join(N, value)), Join(Z, R)) = Join(Join(A, Join(Join(Join(B, N), value), Z)), R)
    BY <2>5, Regroup
  <2>8. ((A \o B) \o (N \o value)) \o (Z \o R) = (A \o (((B \o N) \o value) \o Z)) \o R
    BY <2>6 DEF Join
  <2> DEFINE w == ((B \o N) \o value) \o Z
             u == ((A \o B) \o (N \o value)) \o (Z \o R)
  <2>9. IsWord(w, name, value, s)
    BY <2>4 DEF IsWord, Z
  <2>10. IsSplice(u, text, a, q, w)
    BY <2>8 DEF IsSplice, A, R
  <2> HIDE DEF w
  <2>11. Inserted(u, text, a, q, name, value, s)
    BY <2>9, <2>10 DEF Inserted
  <2> QED
    BY <2>11 DEF A, B, N, Z, R
<1>8. CASE text[after] = Close
  <2>1. after - 1 \in a .. b - 1 /\ after - 1 \in Nat /\ after - 1 <= Len(text) /\ (after - 1) + 1 = after
    BY <1>2, <1>3, <1>6
  <2>2. Inserted(SetMember(text, a, name, value), text, a, after - 1, name, value, Blank)
    BY <1>5, <1>7, <1>8, <2>1
  <2>3. Blank # Comma
    BY BracesDiffer
  <2> QED
    BY <1>3, <1>8, <2>1, <2>2, <2>3
<1>9. CASE text[after] # Close
  <2>1. a \in a .. b - 1 /\ a \in Nat /\ a <= Len(text)
    BY <1>2
  <2>2. Inserted(SetMember(text, a, name, value), text, a, a, name, value, Comma)
    BY <1>5, <1>7, <1>9, <2>1
  <2>3. Blank # Comma /\ \A j \in a + 1 .. a : text[j] = Blank
    BY <2>1, BracesDiffer
  <2>4. text[SkipBlanks(text, a + 1)] # Close
    BY <1>9 DEF after
  <2> QED
    BY <2>1, <2>2, <2>3, <2>4
<1> QED
  BY <1>8, <1>9

(* A member that is replaced takes its old value with it.                  *)
LEMMA ReplaceIsSplice ==
  ASSUME NEW S, NEW text \in Seq(S), Valued(text), NEW a, NEW b, ObjectAt(text, a, b), NEW name,
         NEW k, k = FindMember(text, a, name), Members(text, a, name) # {}, NEW value
  PROVE  /\ k \in Members(text, a, name)
         /\ IsSplice(SetMember(text, a, name, value), text, k - 1, ValueEnd(text, k + 1),
                     <<Name(name)>> \o value)
<1>0. IsText(text)
  BY AnySequence
<1>1. k \in Members(text, a, name)
  BY <1>0, FindSome
<1>2. k # 0
  BY <1>0, <1>1, ValueSpan, ObjectFacts
<1> QED
  BY <1>1, <1>2 DEF SetMember, IsSplice

(***************************************************************************)
(* A member of the root that is an object.                                 *)
(***************************************************************************)
Hosts(text, name, a, b, m, e) ==
  RootAt(text, a, b) /\ Members(text, a, name) = {m} /\ ObjectAt(text, m + 1, e)

Lacks(text, name, a, b) == RootAt(text, a, b) /\ Members(text, a, name) = {}

LEMMA HostFacts ==
  ASSUME NEW text, IsText(text), NEW name, NEW a, NEW b, NEW m, NEW e, Hosts(text, name, a, b, m, e)
  PROVE  /\ ObjectAt(text, a, b) /\ a \in 1 .. Len(text) /\ b \in 1 .. Len(text)
         /\ m \in a + 1 .. b - 1 /\ e \in m + 2 .. b - 1
         /\ text[m] = Name(name) /\ Nesting(text, a, m) = 1
         /\ \A k \in m + 1 .. e - 1 : Nesting(text, a, k) >= 2
         /\ FindMember(text, RootObjectStart(text), name) = m /\ m # 0
         /\ RootObjectStart(text) = a
<1>1. ObjectAt(text, a, b) /\ ObjectAt(text, m + 1, e) /\ Members(text, a, name) = {m}
  BY DEF Hosts, RootAt
<1>2. /\ a \in 1 .. Len(text) /\ b \in 1 .. Len(text) /\ Len(text) \in Nat
  BY <1>1, ObjectFacts, TextDomain
<1>3. m \in a + 1 .. b - 1 /\ text[m] = Name(name) /\ Nesting(text, a, m) = 1
  BY <1>1, MemberFacts
<1>4. /\ m + 1 \in 1 .. Len(text) /\ e \in 1 .. Len(text) /\ m + 1 < e /\ text[m + 1] = Open
      /\ \A k \in m + 1 .. e - 1 : Nesting(text, m + 1, k) > 0
  BY <1>1, ObjectFacts, TextDomain DEF ObjectAt
<1>5. e \in m + 2 .. b - 1
  <2>1. m + 1 \in a + 1 .. b
    BY <1>2, <1>3
  <2>2. PICK z \in (m + 1) + 1 .. b - 1 : ObjectAt(text, m + 1, z)
    BY <1>1, <1>4, <2>1, InnerObject
  <2>3. z = e
    BY <1>1, <2>2, ObjectEndsOnce
  <2> QED
    BY <1>2, <1>3, <2>2, <2>3
<1>6. ASSUME NEW k \in m + 1 .. e - 1 PROVE Nesting(text, a, k) >= 2
  <2>1. Nesting(text, a, k) = Nesting(text, a, m) + Nesting(text, m + 1, k)
    BY <1>2, <1>3, <1>5, NestingSplit
  <2>2. Nesting(text, m + 1, k) \in Int
    BY <1>2, <1>3, <1>5, NestingIs
  <2> QED
    BY <1>3, <1>4, <2>1, <2>2
<1>7. RootObjectStart(text) = a
  BY RootIs DEF Hosts
<1>8. FindMember(text, a, name) = m /\ m # 0
  <2>1. m \in Int /\ m # 0
    BY <1>2, <1>3
  <2> QED
    BY <1>1, <2>1, FindOnly
<1> QED
  BY <1>1, <1>2, <1>3, <1>5, <1>6, <1>7, <1>8

(* A splice inside the object of the member.                               *)
LEMMA InnerSplice ==
  ASSUME NEW t, IsText(t), NEW u, IsText(u), NEW p, NEW q, NEW n, Spliced(t, u, p, q, n),
         Inert(t, p + 1, q), Inert(u, p + 1, p + n),
         NEW name, NEW a, NEW b, NEW m, NEW e, Hosts(t, name, a, b, m, e), m + 1 <= p, q < e
  PROVE  Hosts(u, name, a, b + (n - (q - p)), m, e + (n - (q - p)))
<1>1. /\ ObjectAt(t, a, b) /\ a \in 1 .. Len(t) /\ b \in 1 .. Len(t)
      /\ m \in a + 1 .. b - 1 /\ e \in m + 2 .. b - 1
      /\ \A k \in m + 1 .. e - 1 : Nesting(t, a, k) >= 2
  BY HostFacts
<1>2. RootAt(t, a, b) /\ Members(t, a, name) = {m} /\ ObjectAt(t, m + 1, e) /\ Len(t) \in Nat
  BY TextDomain DEF Hosts
<1>3. p \in Nat /\ q \in p .. Len(t) /\ n \in Nat
  BY DEF Spliced
<1>4. a <= p /\ q < b
  BY <1>1, <1>2, <1>3
<1>5. RootAt(u, a, b + (n - (q - p)))
  BY <1>2, <1>4, SplicedRoot
<1>6. ObjectAt(u, m + 1, e + (n - (q - p)))
  BY <1>2, SplicedInside
<1>7. Members(u, a, name) =
           {k \in Members(t, a, name) : k <= p}
           \cup {k \in p + 1 .. p + n :
                   u[k] = Name(name) /\ Nesting(t, a, p) + Nesting(u, p + 1, k) = 1}
           \cup {k + (n - (q - p)) : k \in {k \in Members(t, a, name) : k > q}}
  BY <1>1, <1>4, SplicedMembers
<1>8. {k \in Members(t, a, name) : k <= p} = {m}
  BY <1>1, <1>2, <1>3
<1>9. {k \in Members(t, a, name) : k > q} = {}
  BY <1>1, <1>2, <1>3
<1>10. ASSUME NEW k \in p + 1 .. p + n PROVE Nesting(t, a, p) + Nesting(u, p + 1, k) # 1
  <2>1. Nesting(t, a, p) >= 2
    BY <1>1, <1>3
  <2>2. Nesting(u, p + 1, k) >= 0
    BY DEF Inert
  <2>3. Nesting(t, a, p) \in Int /\ Nesting(u, p + 1, k) \in Int
    BY <1>1, <1>3, NestingIs
  <2> QED
    BY <2>1, <2>2, <2>3
<1>11. Members(u, a, name) = {m}
  BY <1>7, <1>8, <1>9, <1>10
<1> QED
  BY <1>5, <1>6, <1>11 DEF Hosts

(* Where the tokens of an object are moved, so are its members.            *)
LEMMA MembersMoved ==
  ASSUME NEW t, IsText(t), NEW u, IsText(u), NEW x, NEW y, NEW c, c \in Int,
         ObjectAt(t, x, y), ObjectAt(u, x + c, y + c), \A k \in x .. y : u[k + c] = t[k], NEW name
  PROVE  Members(u, x + c, name) = {k + c : k \in Members(t, x, name)}
<1>1. x \in Nat /\ y \in Nat /\ x + c \in Int /\ y + c \in Int
  BY ObjectFacts, TextDomain
<1>2. Members(t, x, name) = {k \in x + 1 .. y - 1 : t[k] = Name(name) /\ Nesting(t, x, k) = 1}
  BY MemberFacts
<1>3. Members(u, x + c, name)
        = {k \in (x + c) + 1 .. (y + c) - 1 : u[k] = Name(name) /\ Nesting(u, x + c, k) = 1}
  <2> DEFINE v == x + c
             w == y + c
  <2>1. ObjectAt(u, v, w)
    OBVIOUS
  <2> HIDE DEF v, w
  <2>2. Members(u, v, name) = {k \in v + 1 .. w - 1 : u[k] = Name(name) /\ Nesting(u, v, k) = 1}
    BY <2>1, MemberFacts
  <2> QED
    BY <2>2 DEF v, w
<1>4. ASSUME NEW k, k \in x .. y PROVE Nesting(u, x + c, k + c) = Nesting(t, x, k)
  <2>1. Copied(t, x, k, u, x + c)
    <3>1. \A l \in x .. k : l + ((x + c) - x) = l + c /\ l \in x .. y
      BY <1>1, <1>4
    <3> QED
      BY <3>1 DEF Copied
  <2>2. k \in Int /\ k + c \in Int /\ (k + c) - (x + c) = k - x
    BY <1>1, <1>4
  <2> QED
    BY <1>1, <2>1, <2>2, NestingShift
<1>5. ASSUME NEW k, k \in Members(t, x, name) PROVE k + c \in Members(u, x + c, name)
  <2>1. k \in x .. y /\ k + c \in (x + c) + 1 .. (y + c) - 1
    BY <1>1, <1>2, <1>5
  <2>2. Nesting(u, x + c, k + c) = 1 /\ u[k + c] = Name(name)
    BY <1>2, <1>4, <1>5, <2>1
  <2> QED
    BY <1>3, <2>1, <2>2
<1>6. ASSUME NEW k, k \in Members(u, x + c, name)
      PROVE  k - c \in Members(t, x, name) /\ (k - c) + c = k
  <2>1. k \in Int /\ k - c \in x + 1 .. y - 1 /\ k - c \in x .. y /\ (k - c) + c = k
    BY <1>1, <1>3, <1>6
  <2>2. Nesting(u, x + c, (k - c) + c) = Nesting(t, x, k - c)
    BY <1>4, <2>1
  <2>3. u[(k - c) + c] = t[k - c]
    BY <2>1
  <2> QED
    BY <1>2, <1>3, <1>6, <2>1, <2>2, <2>3
<1> QED
  BY <1>5, <1>6

(* A splice in the root that stays clear of the member and adds no other.  *)
Shifted(t, u, name, a, b, m, e, c) ==
  /\ c \in Int /\ Hosts(u, name, a, b, m + c, e + c)
  /\ \A k \in m .. e : u[k + c] = t[k]
  /\ \A other : Members(u, (m + 1) + c, other) = {k + c : k \in Members(t, m + 1, other)}

LEMMA OuterSplice ==
  ASSUME NEW t, IsText(t), NEW u, IsText(u), NEW p, NEW q, NEW n, Spliced(t, u, p, q, n),
         Inert(t, p + 1, q), Inert(u, p + 1, p + n),
         NEW name, NEW a, NEW b, NEW m, NEW e, Hosts(t, name, a, b, m, e), a <= p, q < b,
         \A k \in p + 1 .. p + n : u[k] # Name(name), e <= p \/ q < m
  PROVE  \E c : Shifted(t, u, name, a, b + (n - (q - p)), m, e, c)
<1> DEFINE d == n - (q - p)
<1>1. /\ ObjectAt(t, a, b) /\ a \in 1 .. Len(t) /\ b \in 1 .. Len(t)
      /\ m \in a + 1 .. b - 1 /\ e \in m + 2 .. b - 1
  BY HostFacts
<1>2. RootAt(t, a, b) /\ Members(t, a, name) = {m} /\ ObjectAt(t, m + 1, e) /\ Len(t) \in Nat
  BY TextDomain DEF Hosts
<1>3. /\ p \in Nat /\ q \in p .. Len(t) /\ n \in Nat /\ d \in Int
      /\ \A k \in 1 .. p : u[k] = t[k] /\ k \in Int
      /\ \A k \in q + 1 .. Len(t) : u[k + d] = t[k]
  BY <1>2 DEF Spliced
<1>4. RootAt(u, a, b + d)
  BY <1>2, SplicedRoot
<1>5. Members(u, a, name) =
           {k \in Members(t, a, name) : k <= p}
           \cup {k \in p + 1 .. p + n :
                   u[k] = Name(name) /\ Nesting(t, a, p) + Nesting(u, p + 1, k) = 1}
           \cup {k + d : k \in {k \in Members(t, a, name) : k > q}}
  BY <1>1, SplicedMembers
<1>6. {k \in p + 1 .. p + n : u[k] = Name(name) /\ Nesting(t, a, p) + Nesting(u, p + 1, k) = 1} = {}
  OBVIOUS
<1>7. ASSUME NEW c \in Int, ObjectAt(u, (m + 1) + c, e + c), \A k \in m .. e : u[k + c] = t[k],
             Members(u, a, name) = {m + c}
      PROVE  /\ Hosts(u, name, a, b + d, m + c, e + c)
             /\ \A other : Members(u, (m + 1) + c, other) = {k + c : k \in Members(t, m + 1, other)}
  <2>1. (m + 1) + c = (m + c) + 1
    BY <1>1
  <2>2. \A k \in m + 1 .. e : u[k + c] = t[k]
    BY <1>1, <1>7
  <2>3. \A other : Members(u, (m + 1) + c, other) = {k + c : k \in Members(t, m + 1, other)}
    BY <1>2, <1>7, <2>2, MembersMoved
  <2> HIDE DEF d
  <2>4. Hosts(u, name, a, b + d, m + c, e + c)
    BY <1>4, <1>7, <2>1 DEF Hosts
  <2> QED
    BY <2>3, <2>4
<1>8. CASE e <= p
  <2>1. ObjectAt(u, m + 1, e)
    BY <1>2, <1>8, SplicedBehind
  <2>2. (m + 1) + 0 = m + 1 /\ e + 0 = e /\ m + 0 = m
    BY <1>1
  <2>3. \A k \in m .. e : u[k + 0] = t[k]
    BY <1>1, <1>3, <1>8
  <2>4. Members(u, a, name) = {m}
    <3>1. {k \in Members(t, a, name) : k <= p} = {m} /\ {k \in Members(t, a, name) : k > q} = {}
      BY <1>1, <1>2, <1>3, <1>8
    <3> QED
      BY <1>5, <1>6, <3>1
  <2>5. /\ Hosts(u, name, a, b + d, m + 0, e + 0)
        /\ \A other : Members(u, (m + 1) + 0, other) = {k + 0 : k \in Members(t, m + 1, other)}
    BY <1>7, <2>1, <2>2, <2>3, <2>4
  <2>6. Shifted(t, u, name, a, b + d, m, e, 0)
    BY <2>3, <2>5 DEF Shifted
  <2> QED
    BY <2>6
<1>9. CASE q < m
  <2>1. ObjectAt(u, (m + 1) + d, e + d)
    <3>1. q < m + 1
      BY <1>1, <1>2, <1>3, <1>9
    <3> QED
      BY <1>2, <3>1, SplicedBefore, SMTT(30)
  <2>3. \A k \in m .. e : u[k + d] = t[k]
    <3>1. \A k \in m .. e : k \in q + 1 .. Len(t)
      BY <1>1, <1>3, <1>9
    <3> QED
      BY <1>3, <3>1
  <2>4. Members(u, a, name) = {m + d}
    <3>1. {k \in Members(t, a, name) : k <= p} = {} /\ {k \in Members(t, a, name) : k > q} = {m}
      BY <1>1, <1>2, <1>3, <1>9
    <3> HIDE DEF d
    <3> QED
      BY <1>5, <1>6, <3>1
  <2>5. /\ Hosts(u, name, a, b + d, m + d, e + d)
        /\ \A other : Members(u, (m + 1) + d, other) = {k + d : k \in Members(t, m + 1, other)}
    BY <1>3, <1>7, <2>1, <2>3, <2>4
  <2>6. Shifted(t, u, name, a, b + d, m, e, d)
    BY <1>3, <2>3, <2>5 DEF Shifted
  <2> QED
    BY <2>6
<1> QED
  BY <1>8, <1>9

LEMMA LackingSplice ==
  ASSUME NEW t, IsText(t), NEW u, IsText(u), NEW p, NEW q, NEW n, Spliced(t, u, p, q, n),
         Inert(t, p + 1, q), Inert(u, p + 1, p + n),
         NEW name, NEW a, NEW b, Lacks(t, name, a, b), a <= p, q < b,
         \A k \in p + 1 .. p + n : u[k] # Name(name)
  PROVE  Lacks(u, name, a, b + (n - (q - p)))
<1>1. RootAt(t, a, b) /\ Members(t, a, name) = {} /\ ObjectAt(t, a, b)
  BY DEF Lacks, RootAt
<1>2. RootAt(u, a, b + (n - (q - p)))
  BY <1>1, SplicedRoot
<1>3. Members(u, a, name) =
           {k \in Members(t, a, name) : k <= p}
           \cup {k \in p + 1 .. p + n :
                   u[k] = Name(name) /\ Nesting(t, a, p) + Nesting(u, p + 1, k) = 1}
           \cup {k + (n - (q - p)) : k \in {k \in Members(t, a, name) : k > q}}
  BY <1>1, SplicedMembers
<1> QED
  BY <1>1, <1>2, <1>3 DEF Lacks

(***************************************************************************)
(* A member that is inserted.                                              *)
(***************************************************************************)
LEMMA ConcatIs ==
  ASSUME NEW S, NEW x \in Seq(S), NEW y \in Seq(S), NEW z, IsJoin(z, x, y)
  PROVE  /\ z \in Seq(S) /\ Len(x) \in Nat /\ Len(y) \in Nat /\ Len(z) = Len(x) + Len(y)
         /\ \A i \in 1 .. Len(x) : z[i] = x[i]
         /\ \A i \in 1 .. Len(y) : z[Len(x) + i] = y[i]
<1>1. /\ x \o y \in Seq(S) /\ Len(x \o y) = Len(x) + Len(y)
      /\ \A i \in 1 .. Len(x) + Len(y) : (x \o y)[i] = IF i <= Len(x) THEN x[i] ELSE y[i - Len(x)]
  BY ConcatProperties
<1>0. z = x \o y
  BY DEF IsJoin
<1>2. Len(x) \in Nat /\ Len(y) \in Nat
  OBVIOUS
<1> DEFINE l == Len(y)
           n == Len(x)
<1>3. /\ z \in Seq(S) /\ Len(z) = n + l
      /\ \A i \in 1 .. n + l : z[i] = IF i <= n THEN x[i] ELSE y[i - n]
  BY <1>0, <1>1
<1>4. l \in Nat /\ n \in Nat
  BY <1>2
<1> HIDE DEF l, n
<1>5. \A i \in 1 .. n : z[i] = x[i]
  BY <1>3, <1>4
<1>6. \A i \in 1 .. l : z[n + i] = y[i]
  BY <1>3, <1>4
<1> QED
  BY <1>2, <1>3, <1>5, <1>6 DEF l, n

LEMMA WordFacts ==
  ASSUME NEW S, NEW name, Blank \in S, Name(name) \in S, NEW s \in S, NEW value \in Seq(S),
         NEW w, IsWord(w, name, value, s)
  PROVE  /\ w \in Seq(S) /\ Len(w) = Len(value) + 3 /\ Len(value) \in Nat
         /\ w[1] = Blank /\ w[2] = Name(name) /\ w[Len(value) + 3] = s
         /\ \A k \in 1 .. Len(value) : w[k + 2] = value[k]
<1> DEFINE A == <<Blank, Name(name)>>
           Z == <<s>>
           B == A \o value
           l == Len(value)
<1>1. Len(A) = 2 /\ Len(Z) = 1 /\ A[1] = Blank /\ A[2] = Name(name) /\ Z[1] = s /\ l \in Nat
  OBVIOUS
<1>5. A \in Seq(S) /\ Z \in Seq(S)
  OBVIOUS
<1>2. IsJoin(w, B, Z)
  BY DEF IsWord, IsJoin
<1>0. IsJoin(B, A, value)
  BY DEF IsJoin
<1> HIDE DEF A, Z, B
<1>3. /\ B \in Seq(S) /\ Len(B) = 2 + l
      /\ \A k \in 1 .. 2 : B[k] = A[k]
      /\ \A k \in 1 .. l : B[2 + k] = value[k]
  <2>1. /\ B \in Seq(S) /\ Len(B) = Len(A) + Len(value)
        /\ \A k \in 1 .. Len(A) : B[k] = A[k]
        /\ \A k \in 1 .. Len(value) : B[Len(A) + k] = value[k]
    BY <1>0, <1>5, ConcatIs
  <2> QED
    BY <1>1, <2>1
<1>4. /\ w \in Seq(S) /\ Len(w) = (2 + l) + 1
      /\ \A k \in 1 .. 2 + l : w[k] = B[k]
      /\ \A k \in 1 .. 1 : w[(2 + l) + k] = Z[k]
  <2>1. /\ w \in Seq(S) /\ Len(w) = Len(B) + Len(Z)
        /\ \A k \in 1 .. Len(B) : w[k] = B[k]
        /\ \A k \in 1 .. Len(Z) : w[Len(B) + k] = Z[k]
    <3>1. B \in Seq(S) /\ Z \in Seq(S)
      BY <1>3, <1>5
    <3> QED
      BY <1>2, <3>1, ConcatIs
  <2> QED
    BY <1>1, <1>3, <2>1
<1> HIDE DEF l
<1>8. w[1] = Blank /\ w[2] = Name(name)
  BY <1>1, <1>3, <1>4
<1>6. w[l + 3] = s
  <2>1. l + 3 = (2 + l) + 1
    BY <1>1
  <2> QED
    BY <1>1, <1>4, <2>1
<1>7. ASSUME NEW k \in 1 .. l PROVE w[k + 2] = value[k]
  <2>1. k + 2 = 2 + k /\ 2 + k \in 1 .. 2 + l
    BY <1>1
  <2> QED
    BY <1>3, <1>4, <2>1
<1> QED
  BY <1>1, <1>4, <1>8, <1>6, <1>7 DEF l

(* What a member that is inserted behind position a does.                  *)
Fits(u, S, t, a, q, name, value, s) ==
  /\ Spliced(t, u, a, q, Len(value) + 3) /\ u \in Seq(S)
  /\ u[a + 1] = Blank /\ u[a + 2] = Name(name) /\ u[a + (Len(value) + 3)] = s
  /\ \A k \in 1 .. Len(value) : u[a + (k + 2)] = value[k]
  /\ \A k \in a + 1 .. q : t[k] = Blank
  /\ Inert(t, a + 1, q)
  /\ s = Comma => q = a /\ t[SkipBlanks(t, a + 1)] # Close
  /\ s = Blank => t[q + 1] = Close

LEMMA InsertFacts ==
  ASSUME NEW S, NEW t \in Seq(S), NEW a, NEW b, ObjectAt(t, a, b), NEW name,
         Members(t, a, name) = {}, NEW value \in Seq(S), Blank \in S, Comma \in S, Name(name) \in S,
         NEW u, u = SetMember(t, a, name, value)
  PROVE  \E q \in a .. b - 1, s \in {Comma, Blank} :
           Fits(u, S, t, a, q, name, value, s)
<1>0. IsText(t)
  BY AnySequence
<1>1. /\ a \in Nat /\ a \in 1 .. Len(t) /\ b \in 1 .. Len(t) /\ Len(t) \in Nat
  BY <1>0, ObjectFacts, TextDomain
<1>2. PICK q \in a .. b - 1, s \in {Comma, Blank} :
           /\ Inserted(u, t, a, q, name, value, s)
           /\ \A j \in a + 1 .. q : t[j] = Blank
           /\ s = Comma => q = a /\ t[SkipBlanks(t, a + 1)] # Close
           /\ s = Blank => t[q + 1] = Close
  BY SetIsSplice
<1>3. PICK w : IsWord(w, name, value, s) /\ IsSplice(u, t, a, q, w)
  BY <1>2 DEF Inserted
<1> DEFINE l == Len(value)
<1>4. /\ w \in Seq(S) /\ Len(w) = l + 3 /\ l \in Nat /\ w[1] = Blank /\ w[2] = Name(name) /\ w[l + 3] = s
      /\ \A k \in 1 .. l : w[k + 2] = value[k]
  <2>1. s \in S
    OBVIOUS
  <2> QED
    BY <1>3, <2>1, WordFacts
<1> HIDE DEF l
<1>6. /\ u \in Seq(S) /\ Spliced(t, u, a, q, l + 3)
      /\ \A k \in 1 .. l + 3 : u[a + k] = w[k]
  <2>1. q \in a .. Len(t)
    BY <1>1
  <2>2. /\ u \in Seq(S) /\ Spliced(t, u, a, q, Len(w))
        /\ \A k \in 1 .. Len(w) : u[a + k] = w[k]
    <3>1. w \in Seq(S) /\ a \in Nat
      BY <1>1, <1>4
    <3>2. IsSplice(u, t, a, q, w)
      BY <1>3
    <3>3. u \in Seq(S) /\ Spliced(t, u, a, q, Len(w)) /\ Placed(w, u, a)
      BY <2>1, <3>1, <3>2, SpliceFacts
    <3> QED
      BY <3>3 DEF Placed
  <2> QED
    BY <1>4, <2>2
<1>7. u[a + 1] = Blank /\ u[a + 2] = Name(name) /\ u[a + (l + 3)] = s
  BY <1>4, <1>6
<1>8. ASSUME NEW k \in 1 .. l PROVE u[a + (k + 2)] = value[k]
  <2>1. k + 2 \in 1 .. l + 3
    BY <1>4
  <2> QED
    BY <1>4, <1>6, <2>1
<1>9. Inert(t, a + 1, q)
  <2>1. \A k \in a + 1 .. q : Weight(t[k]) = 0
    BY <1>2, MarksAreFlat
  <2>2. a + 1 \in Int /\ q \in Int
    BY <1>1
  <2> QED
    BY <2>1, <2>2, FlatIsInert
<1> QED
  BY <1>2, <1>6, <1>7, <1>8, <1>9 DEF Fits, l

(* A member with a value, and with an empty object, that is inserted.      *)
ValueIn(t, S, u, a, b, q, name, value) ==
  /\ Spliced(t, u, a, q, 4) /\ u \in Seq(S) /\ Valued(u)
  /\ \A k \in a + 1 .. q : t[k] = Blank
  /\ u[a + 1] = Blank /\ u[a + 2] = Name(name) /\ u[a + 3] = value
  /\ u[a + 4] \in {Comma, Blank}
  /\ Inert(t, a + 1, q) /\ Inert(u, a + 1, a + 4)
  /\ Members(u, a, name) = {a + 2}
  /\ ObjectAt(u, a, b + (4 - (q - a)))

LEMMA InsertValue ==
  ASSUME NEW S, NEW t, t \in Seq(S), Valued(t), NEW a, NEW b, ObjectAt(t, a, b), NEW name,
         Members(t, a, name) = {}, NEW value, IsScalar(value),
         NEW q, q \in a .. b - 1, NEW s, s \in {Comma, Blank},
         NEW v, Len(v) = 1, v[1] = value,
         NEW u, Fits(u, S, t, a, q, name, v, s)
  PROVE  ValueIn(t, S, u, a, b, q, name, value)
<1>0. IsText(t)
  BY AnySequence
<1>1. /\ a \in Nat /\ a > 0 /\ a \in 1 .. Len(t) /\ b \in 1 .. Len(t) /\ Len(t) \in Nat /\ t[a] = Open
  BY <1>0, ObjectFacts, TextDomain DEF ObjectAt
<1>2. Len(v) = 1 /\ v[1] = value /\ s \in {Comma, Blank}
  OBVIOUS
<1>4. /\ q \in a .. b - 1
      /\ Spliced(t, u, a, q, Len(v) + 3) /\ u \in Seq(S)
      /\ u[a + 1] = Blank /\ u[a + 2] = Name(name) /\ u[a + (Len(v) + 3)] = s
      /\ \A k \in 1 .. Len(v) : u[a + (k + 2)] = v[k]
      /\ \A k \in a + 1 .. q : t[k] = Blank
      /\ Inert(t, a + 1, q)
  BY DEF Fits
<1>5. Spliced(t, u, a, q, 4) /\ u[a + 4] = s /\ u[a + 3] = value
  <2>1. Len(v) + 3 = 4 /\ 1 \in 1 .. Len(v) /\ 1 + 2 = 3
    BY <1>2
  <2> QED
    BY <1>2, <1>4, <2>1
<1>6. /\ ~IsName(Blank) /\ ~IsName(s) /\ ~IsName(value) /\ ~IsName(t[a])
      /\ Weight(Blank) = 0 /\ Weight(s) = 0 /\ Weight(value) = 0 /\ Weight(Name(name)) = 0
      /\ Blank # Name(name) /\ s # Name(name) /\ value # Name(name)
  BY <1>1, <1>2, MarksAreFlat, ScalarIsFlat, NamesAreFlat
<1>7. \A k \in a + 1 .. a + 4 : k = a + 1 \/ k = a + 2 \/ k = a + 3 \/ k = a + 4
  BY <1>1
<1>8. \A k \in a + 1 .. a + 4 : Weight(u[k]) = 0
  BY <1>4, <1>5, <1>6, <1>7
<1>9. Inert(u, a + 1, a + 4) /\ \A k \in a + 1 .. a + 4 : Nesting(u, a + 1, k) = 0
  <2>1. a + 1 \in Int /\ a + 4 \in Int
    BY <1>1
  <2>2. ASSUME NEW k \in a + 1 .. a + 4 PROVE Nesting(u, a + 1, k) = 0
    <3>1. k \in Int /\ \A l \in a + 1 .. k : Weight(u[l]) = 0
      BY <1>1, <1>8
    <3> QED
      BY <2>1, <3>1, FlatNesting
  <2> QED
    BY <1>8, <2>1, <2>2, FlatIsInert
<1>10. IsText(u)
  BY <1>4, AnySequence
<1>11. Valued(u)
  <2>2. a > 0 /\ ~IsName(t[a]) /\ Spliced(t, u, a, q, 4)
    BY <1>1, <1>5, <1>6
  <2>1. ValuedFrom(u, a + 1, a + 4)
    <3>1. ASSUME NEW k \in a + 1 .. a + 4, IsName(u[k]) PROVE k = a + 2
      BY <1>4, <1>5, <1>6, <1>7, <3>1
    <3>2. a + 2 < a + 4 /\ IsValue(u[(a + 2) + 1])
      <4>1. (a + 2) + 1 = a + 3
        BY <1>1
      <4> QED
        BY <1>1, <1>5, <4>1 DEF IsValue
    <3> QED
      BY <3>1, <3>2 DEF ValuedFrom
  <2> QED
    BY <1>0, <1>10, <2>1, <2>2, ValuedSplice
<1>12. a <= a /\ q < b
  BY <1>1, <1>4
<1>13. ObjectAt(u, a, b + (4 - (q - a)))
  BY <1>0, <1>4, <1>5, <1>9, <1>10, <1>12, SplicedInside
<1>14. Members(u, a, name) =
           {k \in Members(t, a, name) : k <= a}
           \cup {k \in a + 1 .. a + 4 :
                   u[k] = Name(name) /\ Nesting(t, a, a) + Nesting(u, a + 1, k) = 1}
           \cup {k + (4 - (q - a)) : k \in {k \in Members(t, a, name) : k > q}}
  BY <1>0, <1>4, <1>5, <1>9, <1>10, <1>12, SplicedMembers
<1>15. Nesting(t, a, a) = 1
  BY <1>1, NestingOne DEF Weight
<1>16. {k \in a + 1 .. a + 4 : u[k] = Name(name) /\ Nesting(t, a, a) + Nesting(u, a + 1, k) = 1} = {a + 2}
  <2>1. ASSUME NEW k \in a + 1 .. a + 4 PROVE u[k] = Name(name) <=> k = a + 2
    BY <1>1, <1>4, <1>5, <1>6, <1>7
  <2>2. a + 2 \in a + 1 .. a + 4
    BY <1>1
  <2> QED
    BY <1>9, <1>15, <2>1, <2>2
<1>17. Members(u, a, name) = {a + 2}
  BY <1>14, <1>16
<1> QED
  BY <1>2, <1>4, <1>5, <1>9, <1>11, <1>13, <1>17 DEF ValueIn

ObjectIn(t, S, u, a, b, q, name) ==
  /\ Spliced(t, u, a, q, 5) /\ u \in Seq(S) /\ Valued(u)
  /\ \A k \in a + 1 .. q : t[k] = Blank
  /\ u[a + 1] = Blank /\ u[a + 2] = Name(name) /\ u[a + 3] = Open /\ u[a + 4] = Close
  /\ u[a + 5] \in {Comma, Blank}
  /\ Inert(t, a + 1, q) /\ Inert(u, a + 1, a + 5)
  /\ Members(u, a, name) = {a + 2}
  /\ ObjectAt(u, a, b + (5 - (q - a))) /\ ObjectAt(u, a + 3, a + 4)

LEMMA InsertObject ==
  ASSUME NEW S, NEW t, t \in Seq(S), Valued(t), NEW a, NEW b, ObjectAt(t, a, b), NEW name,
         Members(t, a, name) = {},
         NEW q, q \in a .. b - 1, NEW s, s \in {Comma, Blank},
         NEW v, Len(v) = 2, v[1] = Open, v[2] = Close,
         NEW u, Fits(u, S, t, a, q, name, v, s)
  PROVE  ObjectIn(t, S, u, a, b, q, name)
<1>0. IsText(t)
  BY AnySequence
<1>1. /\ a \in Nat /\ a > 0 /\ a \in 1 .. Len(t) /\ b \in 1 .. Len(t) /\ Len(t) \in Nat /\ t[a] = Open
  BY <1>0, ObjectFacts, TextDomain DEF ObjectAt
<1>2. Len(v) = 2 /\ v[1] = Open /\ v[2] = Close /\ s \in {Comma, Blank}
  OBVIOUS
<1>4. /\ q \in a .. b - 1
      /\ Spliced(t, u, a, q, Len(v) + 3) /\ u \in Seq(S)
      /\ u[a + 1] = Blank /\ u[a + 2] = Name(name) /\ u[a + (Len(v) + 3)] = s
      /\ \A k \in 1 .. Len(v) : u[a + (k + 2)] = v[k]
      /\ \A k \in a + 1 .. q : t[k] = Blank
      /\ Inert(t, a + 1, q)
  BY DEF Fits
<1>5. Spliced(t, u, a, q, 5) /\ u[a + 5] = s /\ u[a + 3] = Open /\ u[a + 4] = Close
  <2>1. Len(v) + 3 = 5 /\ 1 \in 1 .. Len(v) /\ 2 \in 1 .. Len(v) /\ 1 + 2 = 3 /\ 2 + 2 = 4
    BY <1>2
  <2> QED
    BY <1>2, <1>4, <2>1
<1>6. /\ ~IsName(Blank) /\ ~IsName(s) /\ ~IsName(Open) /\ ~IsName(Close) /\ ~IsName(t[a])
      /\ Weight(Blank) = 0 /\ Weight(s) = 0 /\ Weight(Name(name)) = 0
      /\ Blank # Name(name) /\ s # Name(name) /\ Open # Name(name) /\ Close # Name(name)
  BY <1>1, <1>2, MarksAreFlat, NamesAreFlat
<1>7. \A k \in a + 1 .. a + 5 : k = a + 1 \/ k = a + 2 \/ k = a + 3 \/ k = a + 4 \/ k = a + 5
  BY <1>1
<1>8. /\ Nesting(u, a + 1, a + 1) = 0 /\ Nesting(u, a + 1, a + 2) = 0
      /\ Nesting(u, a + 1, a + 3) = 1 /\ Nesting(u, a + 1, a + 4) = 0 /\ Nesting(u, a + 1, a + 5) = 0
      /\ Nesting(u, a + 3, a + 3) = 1 /\ Nesting(u, a + 3, a + 4) = 0
  <2> DEFINE x == a + 1
             y == a + 2
             z == a + 3
             w == a + 4
             l == a + 5
  <2>1. /\ x \in Int /\ y \in Int /\ z \in Int /\ w \in Int /\ l \in Int
        /\ x <= y /\ x <= z /\ x <= w /\ x <= l /\ z <= w
        /\ y - 1 = x /\ z - 1 = y /\ w - 1 = z /\ l - 1 = w
    BY <1>1
  <2>2. /\ Weight(u[x]) = 0 /\ Weight(u[y]) = 0 /\ Weight(u[z]) = 1 /\ Weight(u[w]) = -1
        /\ Weight(u[l]) = 0
    BY <1>4, <1>5, <1>6, BracesDiffer DEF Weight
  <2> HIDE DEF x, y, z, w, l
  <2>3. Nesting(u, x, x) = 0
    BY <2>1, <2>2, NestingOne
  <2>4. Nesting(u, x, y) = 0
    BY <2>1, <2>2, <2>3, NestingNext
  <2>5. Nesting(u, x, z) = 1
    BY <2>1, <2>2, <2>4, NestingNext
  <2>6. Nesting(u, x, w) = 0
    BY <2>1, <2>2, <2>5, NestingNext
  <2>7. Nesting(u, x, l) = 0
    BY <2>1, <2>2, <2>6, NestingNext
  <2>8. Nesting(u, z, z) = 1
    BY <2>1, <2>2, NestingOne
  <2>9. Nesting(u, z, w) = 0
    BY <2>1, <2>2, <2>8, NestingNext
  <2> QED
    BY <2>3, <2>4, <2>5, <2>6, <2>7, <2>8, <2>9 DEF x, y, z, w, l
<1>9. Inert(u, a + 1, a + 5)
  BY <1>7, <1>8 DEF Inert
<1>10. IsText(u)
  BY <1>4, AnySequence
<1>11. Valued(u)
  <2>2. a > 0 /\ ~IsName(t[a]) /\ Spliced(t, u, a, q, 5)
    BY <1>1, <1>5, <1>6
  <2>1. ValuedFrom(u, a + 1, a + 5)
    <3>1. ASSUME NEW k \in a + 1 .. a + 5, IsName(u[k]) PROVE k = a + 2
      BY <1>4, <1>5, <1>6, <1>7, <3>1
    <3>2. a + 2 < a + 5 /\ IsValue(u[(a + 2) + 1])
      <4>1. (a + 2) + 1 = a + 3
        BY <1>1
      <4> QED
        BY <1>1, <1>5, <4>1 DEF IsValue
    <3> QED
      BY <3>1, <3>2 DEF ValuedFrom
  <2> QED
    BY <1>0, <1>10, <2>1, <2>2, ValuedSplice
<1>12. a <= a /\ q < b
  BY <1>1, <1>4
<1>13. ObjectAt(u, a, b + (5 - (q - a)))
  BY <1>0, <1>4, <1>5, <1>9, <1>10, <1>12, SplicedInside
<1>14. Members(u, a, name) =
           {k \in Members(t, a, name) : k <= a}
           \cup {k \in a + 1 .. a + 5 :
                   u[k] = Name(name) /\ Nesting(t, a, a) + Nesting(u, a + 1, k) = 1}
           \cup {k + (5 - (q - a)) : k \in {k \in Members(t, a, name) : k > q}}
  BY <1>0, <1>4, <1>5, <1>9, <1>10, <1>12, SplicedMembers
<1>15. Nesting(t, a, a) = 1
  BY <1>1, NestingOne DEF Weight
<1>16. {k \in a + 1 .. a + 5 : u[k] = Name(name) /\ Nesting(t, a, a) + Nesting(u, a + 1, k) = 1} = {a + 2}
  <2>1. ASSUME NEW k \in a + 1 .. a + 5 PROVE u[k] = Name(name) <=> k = a + 2
    BY <1>1, <1>4, <1>5, <1>6, <1>7
  <2>2. a + 2 \in a + 1 .. a + 5
    BY <1>1
  <2> QED
    BY <1>8, <1>15, <2>1, <2>2
<1>17. Members(u, a, name) = {a + 2}
  BY <1>14, <1>16
<1>18. ObjectAt(u, a + 3, a + 4)
  <2>1. Len(u) = Len(t) + 5 - (q - a) /\ DOMAIN u = 1 .. Len(u)
    BY <1>5, <1>10, TextDomain DEF Spliced
  <2>2. a + 3 \in DOMAIN u /\ a + 4 \in DOMAIN u /\ a + 3 < a + 4
    <3>1. q \in Int /\ q < b /\ b <= Len(t) /\ a \in Int /\ a > 0 /\ Len(t) \in Int /\ b \in Int
      BY <1>1
    <3>2. Len(u) \in Int /\ a + 5 <= Len(u)
      BY <2>1, <3>1
    <3> QED
      BY <2>1, <3>1, <3>2
  <2>3. \A k \in a + 3 .. (a + 4) - 1 : Nesting(u, a + 3, k) > 0
    <3>1. \A k \in a + 3 .. (a + 4) - 1 : k = a + 3
      BY <1>1
    <3> QED
      BY <1>8, <3>1
  <2> QED
    BY <1>5, <1>8, <2>2, <2>3 DEF ObjectAt
<1> QED
  BY <1>2, <1>4, <1>5, <1>9, <1>11, <1>13, <1>17, <1>18 DEF ObjectIn

(***************************************************************************)
(* A member that is deleted, and one whose value is replaced.              *)
(***************************************************************************)
LEMMA LooseIsFlat ==
  ASSUME NEW token, Loose(token)
  PROVE  Weight(token) = 0 /\ ~IsName(token) /\ ~IsValue(token)
BY MarksAreFlat, BracesDiffer DEF Loose, IsValue

LEMMA RemoveFacts ==
  ASSUME NEW S, NEW t \in Seq(S), Valued(t), NEW a, NEW b, ObjectAt(t, a, b), NEW name,
         NEW k, k = FindMember(t, a, name), Members(t, a, name) # {},
         NEW u, u = DeleteMember(t, a, name)
  PROVE  \E p \in a .. k - 1, q \in ValueEnd(t, k + 1) .. b - 1 :
           /\ k \in Members(t, a, name)
           /\ Spliced(t, u, p, q, 0) /\ u \in Seq(S) /\ Valued(u)
           /\ \A j \in p + 1 .. k - 1 : Loose(t[j])
           /\ \A j \in ValueEnd(t, k + 1) + 1 .. q : Loose(t[j])
           /\ Inert(t, p + 1, q) /\ Inert(u, p + 1, p + 0)
           /\ ObjectAt(u, a, b + (0 - (q - p)))
           /\ Members(t, a, name) = {k} => Members(u, a, name) = {}
<1>0. IsText(t)
  BY AnySequence
<1> DEFINE v == ValueEnd(t, k + 1)
<1>1. /\ a \in Nat /\ a > 0 /\ a \in 1 .. Len(t) /\ b \in 1 .. Len(t) /\ Len(t) \in Nat
      /\ DOMAIN t = 1 .. Len(t)
  BY <1>0, ObjectFacts, TextDomain
<1>2. k \in Members(t, a, name)
  BY <1>0, FindSome
<1>3. /\ k \in a + 1 .. b - 1 /\ v \in k + 1 .. b - 1 /\ Inert(t, k + 1, v)
  BY <1>0, <1>2, ValueSpan
<1>4. t[k] = Name(name)
  BY <1>0, <1>2, MemberFacts
<1>5. PICK p \in a .. k - 1, q \in v .. b - 1 :
           /\ IsSplice(u, t, p, q, <<>>)
           /\ \A j \in p + 1 .. k - 1 : Loose(t[j])
           /\ \A j \in v + 1 .. q : Loose(t[j])
  BY DeleteIsSplice
<1>6. Spliced(t, u, p, q, 0) /\ u \in Seq(S)
  <2> DEFINE w == <<>>
  <2>1. w \in Seq(S) /\ Len(w) = 0
    OBVIOUS
  <2>2. IsSplice(u, t, p, q, w) /\ p \in Nat /\ q \in p .. Len(t)
    BY <1>1, <1>3, <1>5
  <2> HIDE DEF w
  <2>3. Spliced(t, u, p, q, Len(w)) /\ u \in Seq(S)
    BY <2>1, <2>2, SpliceFacts
  <2> QED
    BY <2>1, <2>3
<1> HIDE DEF v
<1>7. /\ p \in Int /\ q \in Int /\ k \in Int /\ v \in Int /\ p + 1 <= k /\ k < v /\ v <= q /\ p > 0
      /\ p \in 1 .. Len(t) /\ p + 1 \in 1 .. Len(t) /\ a <= p /\ q < b
  BY <1>1, <1>3
<1>8. Inert(t, p + 1, q)
  <2>1. ASSUME NEW j \in p + 1 .. (k + 1) - 1 PROVE Weight(t[j]) = 0
    <3>1. CASE j = k
      BY <1>4, <3>1, NamesAreFlat
    <3>2. CASE j # k
      <4>1. j \in p + 1 .. k - 1
        BY <1>7, <3>2
      <4> QED
        BY <1>5, <4>1, LooseIsFlat
    <3> QED
      BY <3>1, <3>2
  <2>2. \A j \in v + 1 .. q : Weight(t[j]) = 0
    BY <1>5, LooseIsFlat
  <2> DEFINE x == k + 1
             i == p + 1
  <2>3. x \in Int /\ i \in Int /\ i <= x /\ x <= v + 1
    BY <1>7
  <2>4. Inert(t, x, v) /\ \A j \in i .. x - 1 : Weight(t[j]) = 0
    BY <1>3, <2>1
  <2> HIDE DEF x, i
  <2>5. Inert(t, i, q)
    BY <1>7, <2>2, <2>3, <2>4, InertAround
  <2> QED
    BY <2>5 DEF i
<1>9. Inert(u, p + 1, p + 0)
  <2>1. p + 1 \in Int /\ p + 0 \in Int /\ \A j \in p + 1 .. p + 0 : Weight(u[j]) = 0
    BY <1>7
  <2> QED
    BY <2>1, FlatIsInert
<1>10. IsText(u)
  BY <1>6, AnySequence
<1>11. Valued(u)
  <2>1. ~IsName(t[p])
    <3>1. IsName(t[p]) => IsValue(t[p + 1])
      BY <1>1, <1>7 DEF Valued
    <3>2. ~IsValue(t[p + 1])
      <4>1. CASE p + 1 = k
        BY <1>4, <4>1, NamesAreFlat DEF IsValue
      <4>2. CASE p + 1 # k
        <5>1. p + 1 \in p + 1 .. k - 1
          BY <1>7, <4>2
        <5> QED
          BY <1>5, <5>1, LooseIsFlat
      <4> QED
        BY <4>1, <4>2
    <3> QED
      BY <3>1, <3>2
  <2>2. ValuedFrom(u, p + 1, p + 0)
    BY <1>7 DEF ValuedFrom
  <2> QED
    BY <1>0, <1>6, <1>7, <1>10, <2>1, <2>2, ValuedSplice
<1>12. ObjectAt(u, a, b + (0 - (q - p)))
  BY <1>0, <1>6, <1>7, <1>8, <1>9, <1>10, SplicedInside
<1>13. ASSUME Members(t, a, name) = {k} PROVE Members(u, a, name) = {}
  <2>1. Members(u, a, name) =
           {j \in Members(t, a, name) : j <= p}
           \cup {j \in p + 1 .. p + 0 :
                   u[j] = Name(name) /\ Nesting(t, a, p) + Nesting(u, p + 1, j) = 1}
           \cup {j + (0 - (q - p)) : j \in {j \in Members(t, a, name) : j > q}}
    BY <1>0, <1>6, <1>7, <1>8, <1>9, <1>10, SplicedMembers, SMTT(30)
  <2>2. {j \in Members(t, a, name) : j <= p} = {} /\ {j \in Members(t, a, name) : j > q} = {}
    BY <1>7, <1>13
  <2>3. p + 1 .. p + 0 = {}
    BY <1>7
  <2> QED
    BY <2>1, <2>2, <2>3
<1> QED
  BY <1>2, <1>5, <1>6, <1>8, <1>9, <1>11, <1>12, <1>13 DEF v

LEMMA ReplaceFacts ==
  ASSUME NEW S, NEW t \in Seq(S), Valued(t), NEW a, NEW b, ObjectAt(t, a, b), NEW name,
         NEW k, k = FindMember(t, a, name), Members(t, a, name) # {},
         NEW value \in S, IsScalar(value), Name(name) \in S,
         NEW u, u = SetMember(t, a, name, <<value>>),
         NEW v, v = ValueEnd(t, k + 1)
  PROVE  /\ k \in Members(t, a, name) /\ k \in a + 1 .. b - 1 /\ v \in k + 1 .. b - 1
         /\ Spliced(t, u, k - 1, v, 2) /\ u \in Seq(S) /\ Valued(u)
         /\ u[k] = Name(name) /\ u[k + 1] = value
         /\ Inert(t, (k - 1) + 1, v) /\ Inert(u, (k - 1) + 1, (k - 1) + 2)
         /\ ObjectAt(u, a, b + (2 - (v - (k - 1))))
         /\ Members(t, a, name) = {k} => Members(u, a, name) = {k}
<1>0. IsText(t)
  BY AnySequence
<1>1. /\ a \in Nat /\ a > 0 /\ a \in 1 .. Len(t) /\ b \in 1 .. Len(t) /\ Len(t) \in Nat
      /\ DOMAIN t = 1 .. Len(t)
  BY <1>0, ObjectFacts, TextDomain
<1>2. k \in Members(t, a, name)
  BY <1>0, FindSome
<1>3. /\ k \in a + 1 .. b - 1 /\ v \in k + 1 .. b - 1 /\ Inert(t, k + 1, v)
  BY <1>0, <1>2, ValueSpan
<1>4. t[k] = Name(name) /\ Nesting(t, a, k) = 1
  BY <1>0, <1>2, MemberFacts
<1> DEFINE w == <<Name(name)>> \o <<value>>
           p == k - 1
<1>5. w \in Seq(S) /\ Len(w) = 2 /\ w[1] = Name(name) /\ w[2] = value
  <2>1. w = <<Name(name), value>>
    BY OneAndOne
  <2> HIDE DEF w
  <2> QED
    BY <2>1
<1>6. IsSplice(u, t, p, v, w)
  <2> DEFINE z == <<value>>
  <2>1. u = SetMember(t, a, name, z)
    OBVIOUS
  <2> HIDE DEF z
  <2>2. IsSplice(u, t, p, v, <<Name(name)>> \o z)
    BY <2>1, ReplaceIsSplice
  <2> QED
    BY <2>2 DEF z
<1> HIDE DEF w
<1>7. /\ p \in Nat /\ p > 0 /\ p \in 1 .. Len(t) /\ v \in p .. Len(t) /\ k = p + 1 /\ k + 1 = p + 2
      /\ a <= p /\ v < b /\ k \in 1 .. Len(t) /\ k \in Int /\ v \in Int /\ k < v
  BY <1>1, <1>3
<1>8. u \in Seq(S) /\ Spliced(t, u, p, v, Len(w)) /\ Placed(w, u, p)
  <2>1. w \in Seq(S) /\ p \in Nat /\ v \in p .. Len(t)
    BY <1>5, <1>7
  <2> HIDE DEF p
  <2> QED
    BY <1>6, <2>1, SpliceFacts
<1>9. Spliced(t, u, p, v, 2) /\ u[p + 1] = Name(name) /\ u[p + 2] = value
  BY <1>5, <1>8 DEF Placed
<1> HIDE DEF p
<1>10. IsText(u)
  BY <1>8, AnySequence
<1>11. Weight(Name(name)) = 0 /\ Weight(value) = 0 /\ ~IsName(value) /\ value # Name(name) /\ IsName(Name(name))
       /\ ~IsValue(Name(name))
  BY NamesAreFlat, ScalarIsFlat DEF IsValue
<1>12. \A j \in p + 1 .. p + 2 : j = p + 1 \/ j = p + 2
  BY <1>7
<1>13. Inert(t, p + 1, v)
  <2> DEFINE x == k + 1
             i == p + 1
  <2>1. x \in Int /\ i \in Int /\ i <= x /\ x <= v + 1 /\ v <= v
    BY <1>7
  <2>2. \A j \in i .. x - 1 : j = k
    BY <1>7
  <2>3. \A j \in i .. x - 1 : Weight(t[j]) = 0
    BY <1>4, <1>11, <2>2
  <2>4. Inert(t, x, v) /\ \A j \in v + 1 .. v : Weight(t[j]) = 0
    BY <1>3, <1>7
  <2> HIDE DEF x, i
  <2>5. Inert(t, i, v)
    BY <1>7, <2>1, <2>3, <2>4, InertAround
  <2> QED
    BY <2>5 DEF i
<1>14. /\ Inert(u, p + 1, p + 2)
       /\ Nesting(u, p + 1, p + 1) = 0 /\ Nesting(u, p + 1, p + 2) = 0
  <2>1. \A j \in p + 1 .. p + 2 : Weight(u[j]) = 0
    BY <1>9, <1>11, <1>12
  <2>2. /\ p + 1 \in Int /\ p + 2 \in Int
        /\ \A j \in p + 1 .. p + 1 : Weight(u[j]) = 0
    BY <1>7, <2>1
  <2> QED
    BY <2>1, <2>2, FlatIsInert, FlatNesting
<1>15. Valued(u)
  <2>1. ~IsName(t[p])
    <3>1. IsName(t[p]) => IsValue(t[p + 1])
      BY <1>1, <1>7 DEF Valued
    <3> QED
      BY <1>4, <1>7, <1>11, <3>1
  <2>2. ValuedFrom(u, p + 1, p + 2)
    <3>1. ASSUME NEW j \in p + 1 .. p + 2, IsName(u[j]) PROVE j = p + 1
      BY <1>9, <1>11, <1>12, <3>1
    <3>2. (p + 1) + 1 = p + 2 /\ p + 1 < p + 2 /\ IsValue(value)
      BY <1>7 DEF IsValue
    <3> QED
      BY <1>9, <3>1, <3>2 DEF ValuedFrom
  <2> QED
    BY <1>0, <1>7, <1>9, <1>10, <2>1, <2>2, ValuedSplice
<1>16. ObjectAt(u, a, b + (2 - (v - p)))
  BY <1>0, <1>7, <1>9, <1>10, <1>13, <1>14, SplicedInside
<1>17. ASSUME Members(t, a, name) = {k} PROVE Members(u, a, name) = {k}
  <2>1. Members(u, a, name) =
           {j \in Members(t, a, name) : j <= p}
           \cup {j \in p + 1 .. p + 2 :
                   u[j] = Name(name) /\ Nesting(t, a, p) + Nesting(u, p + 1, j) = 1}
           \cup {j + (2 - (v - p)) : j \in {j \in Members(t, a, name) : j > v}}
    BY <1>0, <1>7, <1>9, <1>10, <1>13, <1>14, SplicedMembers
  <2>2. {j \in Members(t, a, name) : j <= p} = {} /\ {j \in Members(t, a, name) : j > v} = {}
    BY <1>7, <1>17
  <2>3. Nesting(t, a, p) = 1
    <3>1. Nesting(t, a, k) = Nesting(t, a, k - 1) + Weight(t[k])
      BY <1>1, <1>3, <1>7, NestingNext
    <3>2. k - 1 = p /\ Nesting(t, a, p) \in Int
      BY <1>1, <1>7, NestingIs
    <3> QED
      BY <1>4, <1>11, <3>1, <3>2
  <2>4. {j \in p + 1 .. p + 2 : u[j] = Name(name) /\ Nesting(t, a, p) + Nesting(u, p + 1, j) = 1} = {p + 1}
    <3>1. p + 1 \in p + 1 .. p + 2 /\ p + 1 # p + 2
      BY <1>7
    <3> QED
      BY <1>9, <1>11, <1>12, <1>14, <2>3, <3>1
  <2> QED
    BY <1>7, <2>1, <2>2, <2>4
<1> QED
  BY <1>2, <1>3, <1>7, <1>8, <1>9, <1>13, <1>14, <1>15, <1>16, <1>17 DEF p

(***************************************************************************)
(* What a splice leaves of the tokens outside a set.                       *)
(***************************************************************************)
Remaining(text, but, k) == {j \in 1 .. k : text[j] \notin but}

LEMMA RemainingFinite ==
  ASSUME NEW text, NEW but, NEW k, k \in Int
  PROVE  IsFiniteSet(Remaining(text, but, k))
<1>1. IsFiniteSet(1 .. k)
  BY FS_Interval
<1> QED
  BY <1>1, FS_Subset DEF Remaining

(* A splice of tokens of the set.                                          *)
Without(t, u, p, q, n, but) ==
  /\ Spliced(t, u, p, q, n)
  /\ \A k \in p + 1 .. q : t[k] \in but
  /\ \A k \in p + 1 .. p + n : u[k] \in but

LEMMA RemainingRank ==
  ASSUME NEW t, IsText(t), NEW u, NEW p, NEW q, NEW n, NEW but, Without(t, u, p, q, n, but),
         NEW k \in q + 1 .. Len(t), NEW d, d = n - (q - p)
  PROVE  Cardinality(Remaining(u, but, k + d)) = Cardinality(Remaining(t, but, k))
<1> DEFINE S == Remaining(t, but, k)
           U == Remaining(u, but, k + d)
           f == [j \in S |-> IF j <= p THEN j ELSE j + d]
<1>0. Len(t) \in Nat
  BY TextDomain
<1>1. /\ p \in Nat /\ q \in p .. Len(t) /\ n \in Nat /\ Len(u) = Len(t) + n - (q - p)
      /\ k \in Int /\ d \in Int
  BY <1>0 DEF Without, Spliced
<1>2. /\ \A j \in 1 .. p : u[j] = t[j]
      /\ \A j \in q + 1 .. Len(t) : u[j + d] = t[j]
      /\ \A j \in p + 1 .. q : t[j] \in but
      /\ \A j \in p + 1 .. p + n : u[j] \in but
  BY DEF Without, Spliced
<1>3. ASSUME NEW j \in S
      PROVE  /\ j \in 1 .. k /\ (j <= p \/ q < j)
             /\ j <= p => j \in U
             /\ q < j => j + d \in U
  <2>1. j \in 1 .. k /\ t[j] \notin but
    BY DEF Remaining
  <2>2. j <= p \/ q < j
    BY <1>0, <1>1, <1>2, <2>1
  <2>3. ASSUME j <= p PROVE j \in U
    <3>1. j \in 1 .. p /\ j \in 1 .. k + d
      BY <1>0, <1>1, <2>1, <2>3
    <3> QED
      BY <1>2, <2>1, <3>1 DEF Remaining
  <2>4. ASSUME q < j PROVE j + d \in U
    <3>1. j \in q + 1 .. Len(t) /\ j + d \in 1 .. k + d
      BY <1>0, <1>1, <2>1, <2>4
    <3> QED
      BY <1>2, <2>1, <3>1 DEF Remaining
  <2> QED
    BY <2>1, <2>2, <2>3, <2>4
<1>4. ASSUME NEW j \in U
      PROVE  j \in Int /\ ((j \in S /\ j <= p) \/ (j - d \in S /\ q < j - d /\ (j - d) + d = j))
  <2>1. j \in 1 .. k + d /\ u[j] \notin but
    BY DEF Remaining
  <2>2. j <= p \/ p + n < j
    <3>1. j \notin p + 1 .. p + n
      BY <1>2, <2>1
    <3>2. j \in Int
      BY <1>1, <2>1
    <3> QED
      BY <1>1, <3>1, <3>2
  <2>3. CASE j <= p
    BY <1>0, <1>1, <1>2, <2>1, <2>3 DEF Remaining
  <2>4. CASE p + n < j
    <3>1. j - d \in q + 1 .. Len(t) /\ (j - d) + d = j /\ j - d \in 1 .. k
      BY <1>0, <1>1, <2>1, <2>4
    <3>2. u[(j - d) + d] = t[j - d]
      BY <1>2, <3>1
    <3>3. q < j - d /\ j - d \in Int /\ j \in Int
      BY <1>0, <1>1, <2>1, <3>1
    <3>4. j - d \in S
      BY <2>1, <3>1, <3>2 DEF Remaining
    <3> QED
      BY <3>1, <3>3, <3>4
  <2> QED
    BY <2>2, <2>3, <2>4
<1>5. IsFiniteSet(S)
  BY <1>1, RemainingFinite
<1> HIDE DEF S, U
<1>6. f \in [S -> U]
  BY <1>1, <1>3
<1>7. ASSUME NEW i \in S, NEW j \in S, f[i] = f[j] PROVE i = j
  BY <1>0, <1>1, <1>3, <1>7
<1>8. ASSUME NEW j \in U PROVE \E i \in S : f[i] = j
  <2>1. CASE j \in S /\ j <= p
    BY <2>1
  <2>2. CASE j - d \in S /\ q < j - d /\ (j - d) + d = j
    <3>1. ~(j - d <= p)
      BY <1>1, <1>4, <2>2
    <3> QED
      BY <2>2, <3>1
  <2> QED
    BY <1>4, <2>1, <2>2
<1>9. f \in Bijection(S, U)
  BY <1>6, <1>7, <1>8 DEF Bijection, Injection, Surjection, IsInjective
<1> HIDE DEF f
<1> QED
  BY <1>5, <1>9, FS_Bijection DEF ExistsBijection, S, U

LEMMA RemainingBefore ==
  ASSUME NEW t, NEW u, NEW p, NEW q, NEW n, NEW but, Without(t, u, p, q, n, but),
         NEW k \in 1 .. p
  PROVE  Remaining(u, but, k) = Remaining(t, but, k)
<1>1. p \in Nat /\ \A j \in 1 .. p : u[j] = t[j]
  BY DEF Without, Spliced
<1> QED
  BY <1>1 DEF Remaining

LEMMA AmongIs ==
  ASSUME NEW text, NEW but
  PROVE  Among(text, but) =
           {<<Cardinality(Remaining(text, but, k)), text[k]>> : k \in {k \in DOMAIN text : text[k] \notin but}}
BY DEF Among, Remaining

LEMMA AmongHalf ==
  ASSUME NEW t, IsText(t), NEW u, IsText(u), NEW p, NEW q, NEW n, NEW but,
         Without(t, u, p, q, n, but)
  PROVE  Among(t, but) \subseteq Among(u, but)
<1>0. Len(t) \in Nat /\ DOMAIN t = 1 .. Len(t) /\ Len(u) \in Nat /\ DOMAIN u = 1 .. Len(u)
  BY TextDomain
<1>1. /\ p \in Nat /\ q \in p .. Len(t) /\ n \in Nat /\ Len(u) = Len(t) + n - (q - p)
      /\ \A j \in 1 .. p : u[j] = t[j]
      /\ \A j \in q + 1 .. Len(t) : u[j + (n - (q - p))] = t[j]
      /\ \A j \in p + 1 .. q : t[j] \in but
  BY DEF Without, Spliced
<1>2. ASSUME NEW k \in DOMAIN t, t[k] \notin but
      PROVE  \E l \in DOMAIN u : /\ u[l] = t[k]
                                 /\ Cardinality(Remaining(u, but, l)) = Cardinality(Remaining(t, but, k))
  <2>1. k <= p \/ q < k
    BY <1>0, <1>1, <1>2
  <2>2. CASE k <= p
    <3>1. k \in 1 .. p /\ k \in DOMAIN u
      BY <1>0, <1>1, <2>2
    <3> QED
      BY <1>1, <3>1, RemainingBefore
  <2>3. CASE q < k
    <3>1. k \in q + 1 .. Len(t) /\ k + (n - (q - p)) \in DOMAIN u
      BY <1>0, <1>1, <2>3
    <3>2. Cardinality(Remaining(u, but, k + (n - (q - p)))) = Cardinality(Remaining(t, but, k))
      BY <3>1, RemainingRank
    <3> QED
      BY <1>1, <3>1, <3>2
  <2> QED
    BY <2>1, <2>2, <2>3
<1> QED
  BY <1>2, AmongIs

LEMMA AmongSpliced ==
  ASSUME NEW t, IsText(t), NEW u, IsText(u), NEW p, NEW q, NEW n, NEW but,
         Spliced(t, u, p, q, n),
         \A k \in p + 1 .. q : t[k] \in but,
         \A k \in p + 1 .. p + n : u[k] \in but
  PROVE  Among(u, but) = Among(t, but)
<1>1. Without(t, u, p, q, n, but)
  BY DEF Without
<1>2. Without(u, t, p, p + n, q - p, but)
  <2>1. Spliced(u, t, p, p + n, q - p)
    BY SplicedBack
  <2>2. p + (q - p) = q
    BY TextDomain DEF Spliced
  <2> QED
    BY <2>1, <2>2 DEF Without
<1>3. Among(t, but) \subseteq Among(u, but)
  BY <1>1, AmongHalf
<1>4. Among(u, but) \subseteq Among(t, but)
  BY <1>2, AmongHalf
<1> QED
  BY <1>3, <1>4

(***************************************************************************)
(* Deleting what was inserted.                                             *)
(***************************************************************************)
(* The first member of an object, with the blank that setMember has put in *)
(* front of it and the comma or the blank behind it.                       *)
LEMMA DeleteFirst ==
  ASSUME NEW S, NEW u \in Seq(S), NEW a, a \in 1 .. Len(u), u[a] = Open, u[a + 1] = Blank, NEW name,
         NEW k, k = a + 2, k = FindMember(u, a, name),
         NEW v, v = ValueEnd(u, k + 1), v \in k .. Len(u),
         NEW e, e = v + 1, e < Len(u),
         u[e] = Comma \/ (u[e] = Blank /\ u[e + 1] = Close)
  PROVE  IsSplice(DeleteMember(u, a, name), u, a, e, <<>>)
<1>0. IsText(u)
  BY AnySequence
<1>1. Len(u) \in Nat /\ a \in Nat /\ v \in Nat /\ k \in a + 1 .. Len(u) /\ a + 1 \in a + 1 .. k
  OBVIOUS
<1>2. BlanksBefore(u, a, k) = a + 1
  <2>1. \A j \in a + 1 .. k - 1 : u[j] = Blank
    BY <1>1
  <2> QED
    BY <1>0, <1>1, <2>1, BlanksBeforeIs
<1>3. DeleteMember(u, a, name) = Deleted(u, a + 1, SkipBlanks(u, v + 1), v)
  <2>1. k # 0
    BY <1>1
  <2> QED
    BY <1>2, <2>1 DEF DeleteMember
<1>4. Cut(u, 1, a) \o <<>> = Cut(u, 1, a)
  <2>1. a \in Nat /\ a <= Len(u)
    BY <1>1
  <2>2. Cut(u, 1, a) \in Seq(S)
    BY <2>1, CutFacts
  <2> QED
    BY <2>2, ConcatEmptySeq
<1>5. (a + 1) - 1 = a /\ e \in 1 .. Len(u) + 1 /\ e + 1 \in e .. Len(u) + 1 /\ e \in e .. Len(u) + 1
      /\ e + 1 \in 1 .. Len(u) + 1 /\ v + 1 = e
  BY <1>1
<1>6. CASE u[e] = Comma
  <2>1. \A j \in e .. e - 1 : u[j] = Blank
    BY <1>1
  <2>2. u[e] # Blank
    BY <1>6, BracesDiffer
  <2>3. SkipBlanks(u, e) = e
    BY <1>0, <1>5, <2>1, <2>2, SkipTo
  <2>4. DeleteMember(u, a, name) = Cut(u, 1, a) \o Rest(u, e + 1)
    BY <1>3, <1>5, <1>6, <2>3 DEF Deleted
  <2> QED
    BY <1>4, <2>4 DEF IsSplice
<1>7. CASE u[e] = Blank /\ u[e + 1] = Close
  <2>1. \A j \in e .. (e + 1) - 1 : u[j] = Blank
    BY <1>1, <1>7
  <2>2. u[e + 1] # Blank /\ u[e + 1] # Comma /\ u[a] # Comma
    BY <1>7, BracesDiffer
  <2>3. SkipBlanks(u, e) = e + 1
    BY <1>0, <1>5, <2>1, <2>2, SkipTo
  <2>4. DeleteMember(u, a, name) = Cut(u, 1, a) \o Rest(u, e + 1)
    BY <1>3, <1>5, <2>2, <2>3 DEF Deleted
  <2> QED
    BY <1>4, <2>4 DEF IsSplice
<1> QED
  BY <1>6, <1>7

LEMMA SplicedTwice ==
  ASSUME NEW t, NEW u, NEW r, NEW p, NEW q, NEW n, Spliced(t, u, p, q, n), Spliced(u, r, p, p + n, 0),
         Len(t) \in Nat
  PROVE  Spliced(t, r, p, q, 0)
<1>1. /\ p \in Nat /\ q \in p .. Len(t) /\ n \in Nat /\ Len(u) = Len(t) + n - (q - p)
      /\ Len(r) = Len(u) + 0 - ((p + n) - p)
      /\ \A k \in 1 .. p : u[k] = t[k]
      /\ \A k \in 1 .. p : r[k] = u[k]
  BY DEF Spliced
<1>2. ASSUME NEW k \in q + 1 .. Len(t) PROVE r[k + (0 - (q - p))] = t[k]
  <2>1. k + (n - (q - p)) \in (p + n) + 1 .. Len(u)
    BY <1>1
  <2>2. (k + (n - (q - p))) + (0 - ((p + n) - p)) = k + (0 - (q - p))
    BY <1>1
  <2>3. u[k + (n - (q - p))] = t[k]
    BY DEF Spliced
  <2>4. r[(k + (n - (q - p))) + (0 - ((p + n) - p))] = u[k + (n - (q - p))]
    BY <2>1 DEF Spliced
  <2> QED
    BY <2>2, <2>3, <2>4
<1> QED
  BY <1>1, <1>2 DEF Spliced

LEMMA SplicedNothing ==
  ASSUME NEW S, NEW t \in Seq(S), NEW r \in Seq(S), NEW p, Spliced(t, r, p, p, 0)
  PROVE  r = t
<1>1. /\ p \in Nat /\ p <= Len(t) /\ Len(t) \in Nat /\ Len(r) = Len(t)
      /\ \A k \in 1 .. p : r[k] = t[k]
      /\ \A k \in p + 1 .. Len(t) : r[k + (0 - (p - p))] = t[k]
  BY DEF Spliced
<1>2. ASSUME NEW k \in 1 .. Len(r) PROVE r[k] = t[k]
  <2>1. k \in 1 .. p \/ k \in p + 1 .. Len(t)
    BY <1>1
  <2>2. k + (0 - (p - p)) = k
    BY <1>1
  <2> QED
    BY <1>1, <2>1, <2>2
<1> QED
  BY <1>1, <1>2, SeqEqual

(* deleteMember takes back what setMember has inserted, but for the blanks *)
(* of an object that had no member.                                        *)
LEMMA DeleteInserted ==
  ASSUME NEW S, NEW t \in Seq(S), NEW u, NEW a, NEW b, ObjectAt(t, a, b), NEW q \in a .. b - 1,
         NEW name, NEW value \in Seq(S), NEW s \in {Comma, Blank},
         Fits(u, S, t, a, q, name, value, s),
         FindMember(u, a, name) = a + 2, ValueEnd(u, a + 3) = a + (Len(value) + 2),
         NEW r, r = DeleteMember(u, a, name)
  PROVE  Spliced(t, r, a, q, 0) /\ r \in Seq(S) /\ (q = a => r = t)
<1>0. IsText(t)
  BY AnySequence
<1>1. a \in 1 .. Len(t) /\ b \in 1 .. Len(t) /\ Len(t) \in Nat /\ t[a] = Open
  BY <1>0, ObjectFacts, TextDomain DEF ObjectAt
<1> DEFINE l == Len(value)
<1>2. l \in Nat
  OBVIOUS
<1> HIDE DEF l
<1>3. /\ Spliced(t, u, a, q, l + 3) /\ u \in Seq(S) /\ u[a + 1] = Blank /\ u[a + (l + 3)] = s
      /\ s = Blank => t[q + 1] = Close
  BY DEF Fits, l
<1>4. /\ q \in a .. Len(t) /\ Len(u) = Len(t) + (l + 3) - (q - a)
      /\ \A k \in 1 .. a : u[k] = t[k]
      /\ \A k \in q + 1 .. Len(t) : u[k + ((l + 3) - (q - a))] = t[k]
  BY <1>3 DEF Spliced
<1>5. s = Blank => u[(a + (l + 3)) + 1] = Close
  <2>1. q + 1 \in q + 1 .. Len(t) /\ (q + 1) + ((l + 3) - (q - a)) = (a + (l + 3)) + 1
    BY <1>1, <1>2
  <2> QED
    BY <1>3, <1>4, <2>1
<1>6. IsSplice(r, u, a, a + (l + 3), <<>>)
  <2>1. /\ a \in 1 .. Len(u) /\ a + 2 = a + 2 /\ a + (l + 2) \in a + 2 .. Len(u)
        /\ a + (l + 3) = (a + (l + 2)) + 1 /\ a + (l + 3) < Len(u) /\ (a + 2) + 1 = a + 3
    BY <1>1, <1>2, <1>4
  <2>2. ValueEnd(u, (a + 2) + 1) = a + (l + 2)
    BY <2>1 DEF l
  <2>3. u[a] = Open
    BY <1>1, <1>4
  <2>4. u[a + (l + 3)] = Comma \/ (u[a + (l + 3)] = Blank /\ u[(a + (l + 3)) + 1] = Close)
    BY <1>3, <1>5
  <2>5. ASSUME NEW k, NEW v, NEW e, k = a + 2, v = a + (l + 2), e = a + (l + 3)
        PROVE  IsSplice(r, u, a, e, <<>>)
    <3>1. k = FindMember(u, a, name) /\ v = ValueEnd(u, k + 1) /\ v \in k .. Len(u)
          /\ e = v + 1 /\ e < Len(u) /\ (u[e] = Comma \/ (u[e] = Blank /\ u[e + 1] = Close))
      BY <2>1, <2>2, <2>4, <2>5
    <3>2. u \in Seq(S) /\ a \in 1 .. Len(u) /\ u[a] = Open /\ u[a + 1] = Blank /\ k = a + 2
      BY <1>3, <2>1, <2>3, <2>5
    <3> QED
      BY <3>1, <3>2, DeleteFirst
  <2> QED
    BY <2>5
<1>7. r \in Seq(S) /\ Spliced(u, r, a, a + (l + 3), 0)
  <2>1. a \in Nat /\ a + (l + 3) \in a .. Len(u)
    BY <1>1, <1>2, <1>4
  <2>2. <<>> \in Seq(S) /\ Len(<<>>) = 0
    BY EmptySeq
  <2>3. u \in Seq(S)
    BY <1>3
  <2> DEFINE w == <<>>
  <2>4. w \in Seq(S) /\ Len(w) = 0 /\ IsSplice(r, u, a, a + (l + 3), w)
    BY <1>6, <2>2
  <2> HIDE DEF w
  <2>5. r \in Seq(S) /\ Spliced(u, r, a, a + (l + 3), Len(w))
    BY <2>1, <2>3, <2>4, SpliceFacts
  <2> QED
    BY <2>4, <2>5
<1>8. Spliced(t, r, a, q, 0)
  BY <1>1, <1>3, <1>7, SplicedTwice
<1>9. ASSUME q = a PROVE r = t
  BY <1>7, <1>8, <1>9, SplicedNothing
<1> QED
  BY <1>7, <1>8, <1>9

(***************************************************************************)
(* An object that is inserted with its member.                             *)
(***************************************************************************)
(* Where setMember cuts depends on the text alone.                         *)
CutsAt(t, a, q, s) ==
  /\ t[SkipBlanks(t, a + 1)] = Close => s = Blank /\ q = SkipBlanks(t, a + 1) - 1
  /\ t[SkipBlanks(t, a + 1)] # Close => s = Comma /\ q = a

LEMMA FitsWhere ==
  ASSUME NEW S, NEW t, IsText(t), NEW u, NEW a, NEW q, q + 1 \in a + 1 .. Len(t) + 1,
         a + 1 \in 1 .. Len(t) + 1, a \in Nat, q \in Nat,
         NEW name, NEW value, NEW s \in {Comma, Blank}, Fits(u, S, t, a, q, name, value, s)
  PROVE  CutsAt(t, a, q, s)
<1>1. /\ \A k \in a + 1 .. q : t[k] = Blank
      /\ s = Comma => q = a /\ t[SkipBlanks(t, a + 1)] # Close
      /\ s = Blank => t[q + 1] = Close
  BY DEF Fits
<1>2. CASE s = Blank
  <2>1. t[q + 1] # Blank
    BY <1>1, <1>2, BracesDiffer
  <2>2. \A k \in a + 1 .. (q + 1) - 1 : t[k] = Blank
    BY <1>1
  <2>3. SkipBlanks(t, a + 1) = q + 1
    BY <2>1, <2>2, SkipTo
  <2> QED
    BY <1>1, <1>2, <2>3 DEF CutsAt
<1>3. CASE s = Comma
  BY <1>1, <1>3 DEF CutsAt
<1> QED
  BY <1>2, <1>3 DEF CutsAt

(* The member of the outer object, with the inner one and without.         *)
Nests(V, W, E, inner) ==
  /\ Len(V) = 6 /\ Len(W) = 2 /\ Len(E) = 1
  /\ V[1] = Open /\ V[2] = Blank /\ V[3] = Name(inner) /\ V[4] = E[1] /\ V[5] = Blank /\ V[6] = Close
  /\ W[1] = Open /\ W[2] = Close

BothFit(u, t1, u2, S, t, a, q, outer, inner, V, W, E, s, s2) ==
  /\ Fits(u, S, t, a, q, outer, V, s)
  /\ Fits(t1, S, t, a, q, outer, W, s)
  /\ Fits(u2, S, t1, a + 3, a + 3, inner, E, s2)
  /\ Nests(V, W, E, inner) /\ q \in a .. Len(t) - 1 /\ s2 \in {Comma, Blank}

LEMMA NestedFits ==
  ASSUME NEW S, NEW t, NEW a, NEW b, NEW outer, NEW inner, NEW q, NEW s, NEW s2, NEW V, NEW W, NEW E,
         NEW u, NEW t1, NEW u2, BothFit(u, t1, u2, S, t, a, q, outer, inner, V, W, E, s, s2),
         IsText(t), ObjectAt(t, a, b), IsText(t1)
  PROVE  u2 = u
<1>1. a \in 1 .. Len(t) /\ b \in 1 .. Len(t) /\ Len(t) \in Nat /\ a < b /\ t[a] = Open
      /\ q \in a .. Len(t) - 1 /\ s2 \in {Comma, Blank}
  BY ObjectFacts, TextDomain DEF ObjectAt, BothFit
<1>2. /\ Len(V) = 6 /\ Len(W) = 2 /\ Len(E) = 1
      /\ V[1] = Open /\ V[2] = Blank /\ V[3] = Name(inner) /\ V[4] = E[1] /\ V[5] = Blank /\ V[6] = Close
      /\ W[1] = Open /\ W[2] = Close
  BY DEF BothFit, Nests
<1>7. /\ Spliced(t, u, a, q, 9) /\ u \in Seq(S)
      /\ u[a + 1] = Blank /\ u[a + 2] = Name(outer) /\ u[a + 3] = Open /\ u[a + 4] = Blank
      /\ u[a + 5] = Name(inner) /\ u[a + 6] = E[1] /\ u[a + 7] = Blank /\ u[a + 8] = Close /\ u[a + 9] = s
  <2>1. /\ Spliced(t, u, a, q, Len(V) + 3) /\ u \in Seq(S)
        /\ u[a + 1] = Blank /\ u[a + 2] = Name(outer) /\ u[a + (Len(V) + 3)] = s
        /\ \A k \in 1 .. Len(V) : u[a + (k + 2)] = V[k]
    BY DEF BothFit, Fits
  <2>2. Spliced(t, u, a, q, 9) /\ u[a + 9] = s
    BY <1>2, <2>1
  <2>3. u[a + (1 + 2)] = V[1] /\ u[a + (2 + 2)] = V[2] /\ u[a + (3 + 2)] = V[3] /\ u[a + (4 + 2)] = V[4]
        /\ u[a + (5 + 2)] = V[5] /\ u[a + (6 + 2)] = V[6]
    BY <1>2, <2>1
  <2> QED
    BY <1>2, <2>1, <2>2, <2>3
<1>8. /\ Spliced(t, t1, a, q, 5) /\ t1 \in Seq(S)
      /\ t1[a + 1] = Blank /\ t1[a + 2] = Name(outer) /\ t1[a + 3] = Open /\ t1[a + 4] = Close
      /\ t1[a + 5] = s
  <2>1. /\ Spliced(t, t1, a, q, Len(W) + 3) /\ t1 \in Seq(S)
        /\ t1[a + 1] = Blank /\ t1[a + 2] = Name(outer) /\ t1[a + (Len(W) + 3)] = s
        /\ \A k \in 1 .. Len(W) : t1[a + (k + 2)] = W[k]
    BY DEF BothFit, Fits
  <2>2. Spliced(t, t1, a, q, 5) /\ t1[a + 5] = s
    BY <1>2, <2>1
  <2>3. t1[a + (1 + 2)] = W[1] /\ t1[a + (2 + 2)] = W[2]
    BY <1>2, <2>1
  <2> QED
    BY <1>2, <2>1, <2>2, <2>3
<1>10. /\ Len(u) = Len(t) + 9 - (q - a) /\ Len(t1) = Len(t) + 5 - (q - a)
       /\ \A k \in 1 .. a : u[k] = t[k] /\ t1[k] = t[k]
       /\ \A k \in q + 1 .. Len(t) : u[k + (9 - (q - a))] = t[k] /\ t1[k + (5 - (q - a))] = t[k]
  BY <1>7, <1>8 DEF Spliced
<1>14. s2 = Blank
  <2>1. SkipBlanks(t1, a + 4) = a + 4
    <3>1. a + 4 \in 1 .. Len(t1) + 1 /\ a + 4 \in a + 4 .. Len(t1) + 1
      BY <1>1, <1>10
    <3>2. t1[a + 4] # Blank
      BY <1>8, BracesDiffer
    <3>3. \A k \in a + 4 .. (a + 4) - 1 : t1[k] = Blank
      BY <1>1
    <3>4. ASSUME NEW x, x = a + 4 PROVE SkipBlanks(t1, x) = x
      BY <3>1, <3>2, <3>3, <3>4, SkipTo
    <3> QED
      BY <3>4
  <2>2. s2 = Comma => t1[SkipBlanks(t1, (a + 3) + 1)] # Close
    BY DEF BothFit, Fits
  <2>3. (a + 3) + 1 = a + 4
    BY <1>1
  <2> QED
    BY <1>1, <1>8, <2>1, <2>2, <2>3
<1>15. /\ Spliced(t1, u2, a + 3, a + 3, 4) /\ u2 \in Seq(S)
       /\ u2[a + 4] = Blank /\ u2[a + 5] = Name(inner) /\ u2[a + 6] = E[1] /\ u2[a + 7] = Blank
  <2>1. /\ Spliced(t1, u2, a + 3, a + 3, Len(E) + 3) /\ u2 \in Seq(S)
        /\ u2[(a + 3) + 1] = Blank /\ u2[(a + 3) + 2] = Name(inner) /\ u2[(a + 3) + (Len(E) + 3)] = s2
        /\ \A k \in 1 .. Len(E) : u2[(a + 3) + (k + 2)] = E[k]
    BY DEF BothFit, Fits
  <2>2. Spliced(t1, u2, a + 3, a + 3, 4) /\ u2[(a + 3) + 4] = s2
    BY <1>2, <2>1
  <2>3. u2[(a + 3) + (1 + 2)] = E[1]
    BY <1>2, <2>1
  <2>4. (a + 3) + 1 = a + 4 /\ (a + 3) + 2 = a + 5 /\ (a + 3) + (1 + 2) = a + 6 /\ (a + 3) + 4 = a + 7
    BY <1>1
  <2> QED
    BY <1>14, <2>1, <2>2, <2>3, <2>4
<1>16. /\ Len(u2) = Len(t1) + 4 - ((a + 3) - (a + 3))
       /\ \A k \in 1 .. a + 3 : u2[k] = t1[k]
       /\ \A k \in (a + 3) + 1 .. Len(t1) : u2[k + (4 - ((a + 3) - (a + 3)))] = t1[k]
  BY <1>15 DEF Spliced
<1>17. Len(u2) = Len(u)
  BY <1>1, <1>10, <1>16
<1>18. ASSUME NEW k \in 1 .. Len(u2) PROVE u2[k] = u[k]
  <2>1. k \in 1 .. a \/ k = a + 1 \/ k = a + 2 \/ k = a + 3 \/ k = a + 4 \/ k = a + 5 \/ k = a + 6
        \/ k = a + 7 \/ k = a + 8 \/ k = a + 9 \/ k > a + 9
    BY <1>1, <1>10, <1>16
  <2>2. CASE k \in 1 .. a
    <3>1. k \in 1 .. a + 3
      BY <1>1, <2>2
    <3> QED
      BY <1>10, <1>16, <2>2, <3>1
  <2>3. CASE k = a + 1 \/ k = a + 2 \/ k = a + 3
    <3>1. k \in 1 .. a + 3
      BY <1>1, <2>3
    <3> QED
      BY <1>7, <1>8, <1>16, <2>3, <3>1
  <2>4. CASE k = a + 4 \/ k = a + 5 \/ k = a + 6 \/ k = a + 7
    BY <1>7, <1>15, <2>4
  <2>5. CASE k = a + 8 \/ k = a + 9
    <3>1. /\ a + 4 \in (a + 3) + 1 .. Len(t1) /\ (a + 4) + (4 - ((a + 3) - (a + 3))) = a + 8
          /\ a + 5 \in (a + 3) + 1 .. Len(t1) /\ (a + 5) + (4 - ((a + 3) - (a + 3))) = a + 9
      BY <1>1, <1>10
    <3>2. u2[a + 8] = t1[a + 4] /\ u2[a + 9] = t1[a + 5]
      BY <1>16, <3>1
    <3> QED
      BY <1>7, <1>8, <2>5, <3>2
  <2>6. CASE k > a + 9
    <3> DEFINE j == k - (9 - (q - a))
    <3>1. /\ j \in q + 1 .. Len(t) /\ j + (9 - (q - a)) = k /\ j + (5 - (q - a)) = k - 4
          /\ k - 4 \in (a + 3) + 1 .. Len(t1) /\ (k - 4) + (4 - ((a + 3) - (a + 3))) = k
      BY <1>1, <1>10, <1>16, <2>6
    <3>2. u[j + (9 - (q - a))] = t[j] /\ t1[j + (5 - (q - a))] = t[j]
      BY <1>10, <3>1
    <3>3. u2[(k - 4) + (4 - ((a + 3) - (a + 3)))] = t1[k - 4]
      BY <1>16, <3>1
    <3> HIDE DEF j
    <3> QED
      BY <3>1, <3>2, <3>3
  <2> QED
    BY <1>2, <2>1, <2>2, <2>3, <2>4, <2>5, <2>6
<1> QED
  BY <1>7, <1>15, <1>17, <1>18, SeqEqual

(* Kept opaque, as the equations above.                                    *)
IsSet(u, t, a, name, value) == u = SetMember(t, a, name, value)

FitsSome(u, S, t, a, b, name, value) ==
  \E q \in a .. b - 1, s \in {Comma, Blank} : Fits(u, S, t, a, q, name, value, s)

LEMMA FitsSet ==
  ASSUME NEW S, NEW t, NEW a, NEW b, NEW name, NEW value, NEW u,
         t \in Seq(S), ObjectAt(t, a, b),
         Members(t, a, name) = {}, value \in Seq(S), Blank \in S, Comma \in S, Name(name) \in S,
         IsSet(u, t, a, name, value)
  PROVE  FitsSome(u, S, t, a, b, name, value)
BY InsertFacts DEF IsSet, FitsSome

(* An object that is inserted with its member is the empty object, and the *)
(* member inserted into it.                                                *)
LEMMA NestedSets ==
  ASSUME NEW S, NEW t \in Seq(S), NEW a, NEW b, ObjectAt(t, a, b), NEW outer, NEW inner,
         Members(t, a, outer) = {},
         Blank \in S, Comma \in S, Name(outer) \in S, Name(inner) \in S,
         NEW V \in Seq(S), NEW W \in Seq(S), NEW E \in Seq(S), Nests(V, W, E, inner),
         NEW u, IsSet(u, t, a, outer, V),
         NEW t1, IsSet(t1, t, a, outer, W), ObjectAt(t1, a + 3, a + 4),
         NEW u2, IsSet(u2, t1, a + 3, inner, E)
  PROVE  u2 = u
<1>0. IsText(t)
  BY AnySequence
<1>1. a \in 1 .. Len(t) /\ b \in 1 .. Len(t) /\ Len(t) \in Nat /\ a < b
  BY <1>0, ObjectFacts, TextDomain
<1>2. FitsSome(u, S, t, a, b, outer, V)
  BY FitsSet
<1>3. FitsSome(t1, S, t, a, b, outer, W)
  BY FitsSet
<1>4. PICK q \in a .. b - 1, s \in {Comma, Blank} : Fits(u, S, t, a, q, outer, V, s)
  BY <1>2 DEF FitsSome
<1>5. PICK q1 \in a .. b - 1, s1 \in {Comma, Blank} : Fits(t1, S, t, a, q1, outer, W, s1)
  BY <1>3 DEF FitsSome
<1>6. q1 = q /\ s1 = s
  <2>1. /\ q + 1 \in a + 1 .. Len(t) + 1 /\ q1 + 1 \in a + 1 .. Len(t) + 1 /\ a + 1 \in 1 .. Len(t) + 1
        /\ a \in Nat /\ q \in Nat /\ q1 \in Nat
    BY <1>1
  <2>2. CutsAt(t, a, q, s)
    BY <1>0, <1>4, <2>1, FitsWhere
  <2>3. CutsAt(t, a, q1, s1)
    BY <1>0, <1>5, <2>1, FitsWhere
  <2> QED
    BY <2>2, <2>3 DEF CutsAt
<1>7. t1 \in Seq(S)
  BY <1>5 DEF Fits
<1>8. IsText(t1)
  BY <1>7, AnySequence
<1>9. Members(t1, a + 3, inner) = {}
  <2>1. Members(t1, a + 3, inner) =
          {k \in (a + 3) + 1 .. (a + 4) - 1 : t1[k] = Name(inner) /\ Nesting(t1, a + 3, k) = 1}
    BY <1>8, MemberFacts
  <2>2. ~ \E k : k \in (a + 3) + 1 .. (a + 4) - 1
    BY <1>1
  <2> QED
    BY <2>1, <2>2
<1>10. PICK q2 \in a + 3 .. (a + 4) - 1, s2 \in {Comma, Blank} : Fits(u2, S, t1, a + 3, q2, inner, E, s2)
  <2>1. FitsSome(u2, S, t1, a + 3, a + 4, inner, E)
    BY <1>7, <1>9, FitsSet
  <2> QED
    BY <2>1 DEF FitsSome
<1>11. q2 = a + 3
  BY <1>1
<1>12. BothFit(u, t1, u2, S, t, a, q, outer, inner, V, W, E, s, s2)
  BY <1>1, <1>4, <1>5, <1>6, <1>10, <1>11 DEF BothFit
<1> QED
  BY <1>0, <1>8, <1>12, NestedFits

(***************************************************************************)
(* A member of an object that is a member of the root.                     *)
(***************************************************************************)
(* A text without the outer object, one with it, one whose outer object    *)
(* has no inner member, and one in which that member has value x.          *)
Spare(t, S, outer, a, b) == t \in Seq(S) /\ Valued(t) /\ Lacks(t, outer, a, b)
Holds(t, S, outer, a, b, m, e) == t \in Seq(S) /\ Valued(t) /\ Hosts(t, outer, a, b, m, e)
Free(t, m, inner) == Members(t, m + 1, inner) = {}
Carries(t, m, inner, o, x) == Members(t, m + 1, inner) = {o} /\ t[o + 1] = x
Marks(S, outer, inner) ==
  Open \in S /\ Close \in S /\ Comma \in S /\ Blank \in S /\ Name(outer) \in S /\ Name(inner) \in S

LEMMA HoldsFacts ==
  ASSUME NEW t, NEW S, NEW outer, NEW a, NEW b, NEW m, NEW e, Holds(t, S, outer, a, b, m, e)
  PROVE  /\ t \in Seq(S) /\ IsText(t) /\ Valued(t) /\ Hosts(t, outer, a, b, m, e)
         /\ ObjectAt(t, m + 1, e) /\ ObjectAt(t, a, b) /\ RootAt(t, a, b)
         /\ Members(t, a, outer) = {m} /\ t[m] = Name(outer)
         /\ Len(t) \in Nat /\ a \in 1 .. Len(t) /\ m \in a + 1 .. Len(t) /\ e \in m + 2 .. b - 1
         /\ b \in 1 .. Len(t)
         /\ FindMember(t, a, outer) = m /\ RootObjectStart(t) = a
<1>1. t \in Seq(S) /\ Valued(t) /\ Hosts(t, outer, a, b, m, e)
  BY DEF Holds
<1>2. IsText(t)
  BY <1>1, AnySequence
<1>3. Len(t) \in Nat
  BY <1>2, TextDomain
<1>4. ObjectAt(t, m + 1, e) /\ RootAt(t, a, b) /\ Members(t, a, outer) = {m}
  BY <1>1 DEF Hosts
<1>5. /\ ObjectAt(t, a, b) /\ a \in 1 .. Len(t) /\ b \in 1 .. Len(t)
      /\ m \in a + 1 .. b - 1 /\ e \in m + 2 .. b - 1 /\ t[m] = Name(outer)
      /\ FindMember(t, RootObjectStart(t), outer) = m /\ RootObjectStart(t) = a
  BY <1>1, <1>2, HostFacts
<1>6. m \in a + 1 .. Len(t)
  BY <1>3, <1>5
<1> QED
  BY <1>1, <1>2, <1>3, <1>4, <1>5, <1>6

(* Where the entry stands.                                                 *)
LEMMA CarriesFacts ==
  ASSUME NEW t, NEW S, NEW outer, NEW a, NEW b, NEW m, NEW e, Holds(t, S, outer, a, b, m, e),
         NEW inner, NEW o, NEW x, Carries(t, m, inner, o, x), IsScalar(x)
  PROVE  /\ o \in m + 2 .. e - 2 /\ t[o] = Name(inner) /\ t[o + 1] = x
         /\ ValueEnd(t, o + 1) = o + 1 /\ FindMember(t, m + 1, inner) = o
         /\ Members(t, m + 1, inner) = {o}
<1>1. /\ IsText(t) /\ Valued(t) /\ ObjectAt(t, m + 1, e) /\ Len(t) \in Nat /\ a \in 1 .. Len(t)
      /\ m \in a + 1 .. Len(t) /\ e \in m + 2 .. b - 1 /\ b \in 1 .. Len(t)
  BY HoldsFacts
<1>2. Members(t, m + 1, inner) = {o} /\ o \in Members(t, m + 1, inner) /\ t[o + 1] = x
  BY DEF Carries
<1>3. o \in (m + 1) + 1 .. e - 1 /\ ValueEnd(t, o + 1) \in o + 1 .. e - 1
  BY <1>1, <1>2, ValueSpan
<1>4. t[o] = Name(inner)
  BY <1>2 DEF Members
<1>5. o + 1 \in 1 .. Len(t)
  BY <1>1, <1>3
<1>6. ValueEnd(t, o + 1) = o + 1
  BY <1>1, <1>2, <1>5, ScalarEnds
<1>7. FindMember(t, m + 1, inner) = o
  BY <1>1, <1>2, <1>3, FindOnly, SMTT(30)
<1> QED
  BY <1>1, <1>2, <1>3, <1>4, <1>6, <1>7

(* The facts of ReplaceFacts, kept opaque.                                 *)
Replacing(t, S, u, a, b, name, k, v, value) ==
  /\ k \in Members(t, a, name) /\ k \in a + 1 .. b - 1 /\ v \in k + 1 .. b - 1
  /\ Spliced(t, u, k - 1, v, 2) /\ u \in Seq(S) /\ Valued(u)
  /\ u[k] = Name(name) /\ u[k + 1] = value
  /\ Inert(t, (k - 1) + 1, v) /\ Inert(u, (k - 1) + 1, (k - 1) + 2)
  /\ ObjectAt(u, a, b + (2 - (v - (k - 1))))
  /\ Members(t, a, name) = {k} => Members(u, a, name) = {k}

LEMMA ReplaceSet ==
  ASSUME NEW S, NEW t, t \in Seq(S), Valued(t), NEW a, NEW b, ObjectAt(t, a, b), NEW name,
         Members(t, a, name) # {}, NEW value, value \in S, IsScalar(value), Name(name) \in S,
         NEW u, IsSet(u, t, a, name, <<value>>)
  PROVE  Replacing(t, S, u, a, b, name, FindMember(t, a, name),
                   ValueEnd(t, FindMember(t, a, name) + 1), value)
<1> DEFINE k == FindMember(t, a, name)
           v == ValueEnd(t, k + 1)
<1>1. k = FindMember(t, a, name) /\ v = ValueEnd(t, k + 1) /\ u = SetMember(t, a, name, <<value>>)
  BY DEF IsSet
<1> HIDE DEF k, v
<1>2. Replacing(t, S, u, a, b, name, k, v, value)
  BY <1>1, ReplaceFacts DEF Replacing
<1> QED
  BY <1>2 DEF k, v

(* The value is replaced.                                                  *)
LEMMA ReplaceInner ==
  ASSUME NEW t, NEW S, NEW outer, NEW a, NEW b, NEW m, NEW e, Holds(t, S, outer, a, b, m, e),
         NEW inner, NEW o, NEW y, Carries(t, m, inner, o, y), IsScalar(y),
         NEW x, x \in S, IsScalar(x), Name(inner) \in S,
         NEW u, IsSet(u, t, m + 1, inner, <<x>>)
  PROVE  /\ Holds(u, S, outer, a, b, m, e) /\ Carries(u, m, inner, o, x)
         /\ Spliced(t, u, o - 1, o + 1, 2) /\ u[o] = Name(inner)
<1>1. /\ t \in Seq(S) /\ IsText(t) /\ Valued(t) /\ ObjectAt(t, m + 1, e) /\ Len(t) \in Nat
      /\ a \in 1 .. Len(t) /\ Hosts(t, outer, a, b, m, e)
      /\ m \in a + 1 .. Len(t) /\ e \in m + 2 .. b - 1 /\ b \in 1 .. Len(t)
  BY HoldsFacts
<1>2. /\ o \in m + 2 .. e - 2 /\ o = FindMember(t, m + 1, inner) /\ o + 1 = ValueEnd(t, o + 1)
      /\ Members(t, m + 1, inner) = {o}
  BY CarriesFacts
<1>3. Members(t, m + 1, inner) # {}
  BY <1>2
<1>4. /\ Spliced(t, u, o - 1, o + 1, 2) /\ u \in Seq(S) /\ Valued(u)
      /\ u[o] = Name(inner) /\ u[o + 1] = x
      /\ Inert(t, (o - 1) + 1, o + 1) /\ Inert(u, (o - 1) + 1, (o - 1) + 2)
      /\ Members(t, m + 1, inner) = {o} => Members(u, m + 1, inner) = {o}
  <2>1. Replacing(t, S, u, m + 1, e, inner, FindMember(t, m + 1, inner),
                  ValueEnd(t, FindMember(t, m + 1, inner) + 1), x)
    BY <1>1, <1>3, ReplaceSet
  <2>2. Replacing(t, S, u, m + 1, e, inner, o, o + 1, x)
    BY <1>2, <2>1
  <2> QED
    BY <2>2 DEF Replacing
<1>5. IsText(u)
  BY <1>4, AnySequence
<1>6. Hosts(u, outer, a, b + (2 - ((o + 1) - (o - 1))), m, e + (2 - ((o + 1) - (o - 1))))
  <2>1. ASSUME NEW p, p = o - 1, NEW q, q = o + 1, NEW n, n = 2
        PROVE  Hosts(u, outer, a, b + (n - (q - p)), m, e + (n - (q - p)))
    <3>1. m + 1 <= p /\ q < e
      BY <1>1, <1>2, <2>1
    <3>2. Spliced(t, u, p, q, n) /\ Inert(t, p + 1, q) /\ Inert(u, p + 1, p + n)
      BY <1>4, <2>1
    <3> QED
      BY <1>1, <1>5, <3>1, <3>2, InnerSplice
  <2> QED
    BY <2>1
<1>7. b + (2 - ((o + 1) - (o - 1))) = b /\ e + (2 - ((o + 1) - (o - 1))) = e
  BY <1>1, <1>2
<1> QED
  BY <1>2, <1>4, <1>6, <1>7 DEF Holds, Carries

(***************************************************************************)
(* The outer object is added, empty.                                       *)
(***************************************************************************)
LEMMA SpareFacts ==
  ASSUME NEW t, NEW S, NEW outer, NEW a, NEW b, Spare(t, S, outer, a, b)
  PROVE  /\ t \in Seq(S) /\ IsText(t) /\ Valued(t) /\ RootAt(t, a, b) /\ ObjectAt(t, a, b)
         /\ Members(t, a, outer) = {} /\ Lacks(t, outer, a, b)
         /\ Len(t) \in Nat /\ a \in 1 .. Len(t) /\ b \in a + 1 .. Len(t)
         /\ FindMember(t, a, outer) = 0 /\ RootObjectStart(t) = a
<1>1. t \in Seq(S) /\ Valued(t) /\ RootAt(t, a, b) /\ Members(t, a, outer) = {} /\ Lacks(t, outer, a, b)
  BY DEF Spare, Lacks
<1>2. IsText(t) /\ ObjectAt(t, a, b)
  BY <1>1, AnySequence DEF RootAt
<1>3. Len(t) \in Nat /\ a \in 1 .. Len(t) /\ b \in 1 .. Len(t) /\ a < b
  BY <1>2, TextDomain, ObjectFacts
<1>4. FindMember(t, a, outer) = 0
  BY <1>1, FindNone
<1>5. RootObjectStart(t) = a
  BY <1>1, <1>2, RootIs
<1>6. b \in a + 1 .. Len(t)
  BY <1>3
<1> QED
  BY <1>1, <1>2, <1>3, <1>4, <1>5, <1>6

OuterAdded(t, S, u, outer, inner, a, b, q, w, s) ==
  /\ Fits(u, S, t, a, q, outer, w, s) /\ q \in a .. b - 1 /\ s \in {Comma, Blank}
  /\ Spliced(t, u, a, q, 5)
  /\ Holds(u, S, outer, a, b + (5 - (q - a)), a + 2, a + 4) /\ Free(u, a + 2, inner)
  /\ \A k \in a + 1 .. q : t[k] = Blank
  /\ \A k \in a + 1 .. a + 5 : u[k] \in {Blank, Name(outer), Open, Close, Comma}
  /\ u[a + 4] = Close

LEMMA AddOuter ==
  ASSUME NEW t, NEW S, NEW outer, NEW inner, NEW a, NEW b, Spare(t, S, outer, a, b),
         Blank \in S, Comma \in S, Name(outer) \in S,
         NEW w, w \in Seq(S), Len(w) = 2, w[1] = Open, w[2] = Close,
         NEW u, IsSet(u, t, a, outer, w)
  PROVE  \E q, s : OuterAdded(t, S, u, outer, inner, a, b, q, w, s)
<1>1. /\ t \in Seq(S) /\ IsText(t) /\ Valued(t) /\ RootAt(t, a, b) /\ ObjectAt(t, a, b)
      /\ Members(t, a, outer) = {} /\ Len(t) \in Nat /\ a \in 1 .. Len(t) /\ b \in a + 1 .. Len(t)
  BY SpareFacts
<1>2. FitsSome(u, S, t, a, b, outer, w)
  BY <1>1, FitsSet
<1>3. PICK q \in a .. b - 1, s \in {Comma, Blank} : Fits(u, S, t, a, q, outer, w, s)
  BY <1>2 DEF FitsSome
<1>4. ObjectIn(t, S, u, a, b, q, outer)
  BY <1>1, <1>3, InsertObject
<1>5. /\ Spliced(t, u, a, q, 5) /\ u \in Seq(S) /\ Valued(u)
      /\ \A k \in a + 1 .. q : t[k] = Blank
      /\ u[a + 1] = Blank /\ u[a + 2] = Name(outer) /\ u[a + 3] = Open /\ u[a + 4] = Close
      /\ u[a + 5] \in {Comma, Blank}
      /\ Inert(t, a + 1, q) /\ Inert(u, a + 1, a + 5)
      /\ Members(u, a, outer) = {a + 2} /\ ObjectAt(u, a + 3, a + 4)
  BY <1>4 DEF ObjectIn
<1>6. IsText(u)
  BY <1>5, AnySequence
<1>7. RootAt(u, a, b + (5 - (q - a)))
  <2>1. a <= a /\ q < b
    BY <1>1
  <2> QED
    BY <1>1, <1>5, <1>6, <2>1, SplicedRoot
<1>8. (a + 2) + 1 = a + 3 /\ a \in Int
  BY <1>1
<1>9. Holds(u, S, outer, a, b + (5 - (q - a)), a + 2, a + 4)
  BY <1>5, <1>7, <1>8 DEF Holds, Hosts
<1>10. Free(u, a + 2, inner)
  <2>1. Members(u, a + 3, inner) =
          {k \in (a + 3) + 1 .. (a + 4) - 1 : u[k] = Name(inner) /\ Nesting(u, a + 3, k) = 1}
    BY <1>5, <1>6, MemberFacts
  <2>2. ~ \E k : k \in (a + 3) + 1 .. (a + 4) - 1
    BY <1>1
  <2> QED
    BY <1>8, <2>1, <2>2 DEF Free
<1>11. \A k \in a + 1 .. a + 5 : u[k] \in {Blank, Name(outer), Open, Close, Comma}
  <2>1. \A k \in a + 1 .. a + 5 : k = a + 1 \/ k = a + 2 \/ k = a + 3 \/ k = a + 4 \/ k = a + 5
    BY <1>1
  <2> QED
    BY <1>5, <2>1
<1>12. OuterAdded(t, S, u, outer, inner, a, b, q, w, s)
  BY <1>3, <1>5, <1>9, <1>10, <1>11 DEF OuterAdded
<1> QED
  BY <1>12

(***************************************************************************)
(* The member of the outer object is added.                                *)
(***************************************************************************)
InnerAdded(t, S, u, outer, inner, a, b, m, e, q, w, s) ==
  /\ Fits(u, S, t, m + 1, q, inner, w, s) /\ q \in m + 1 .. e - 1 /\ s \in {Comma, Blank}
  /\ Spliced(t, u, m + 1, q, 4)
  /\ Holds(u, S, outer, a, b + (4 - (q - (m + 1))), m, e + (4 - (q - (m + 1))))
  /\ Carries(u, m, inner, m + 3, w[1])
  /\ \A k \in m + 2 .. q : t[k] = Blank
  /\ \A k \in m + 2 .. m + 5 : u[k] \in {Blank, Name(inner), w[1], Comma}

LEMMA InnerFits ==
  ASSUME NEW t, NEW S, NEW outer, NEW inner, NEW a, NEW b, NEW m, NEW e,
         Holds(t, S, outer, a, b, m, e), Free(t, m, inner),
         NEW w, Len(w) = 1, IsScalar(w[1]),
         NEW q, q \in m + 1 .. e - 1, NEW s, s \in {Comma, Blank},
         NEW u, Fits(u, S, t, m + 1, q, inner, w, s)
  PROVE  InnerAdded(t, S, u, outer, inner, a, b, m, e, q, w, s)
<1>1. /\ t \in Seq(S) /\ IsText(t) /\ Valued(t) /\ Hosts(t, outer, a, b, m, e)
      /\ ObjectAt(t, m + 1, e) /\ Len(t) \in Nat /\ a \in 1 .. Len(t)
      /\ m \in a + 1 .. Len(t) /\ e \in m + 2 .. b - 1
      /\ b \in 1 .. Len(t)
  BY HoldsFacts
<1>2. Members(t, m + 1, inner) = {}
  BY DEF Free
<1>4. ValueIn(t, S, u, m + 1, e, q, inner, w[1])
  BY <1>1, <1>2, InsertValue
<1>5. /\ Spliced(t, u, m + 1, q, 4) /\ u \in Seq(S) /\ Valued(u)
      /\ \A k \in (m + 1) + 1 .. q : t[k] = Blank
      /\ u[(m + 1) + 1] = Blank /\ u[(m + 1) + 2] = Name(inner) /\ u[(m + 1) + 3] = w[1]
      /\ u[(m + 1) + 4] \in {Comma, Blank}
      /\ Inert(t, (m + 1) + 1, q) /\ Inert(u, (m + 1) + 1, (m + 1) + 4)
      /\ Members(u, m + 1, inner) = {(m + 1) + 2}
  BY <1>4 DEF ValueIn
<1>6. IsText(u)
  BY <1>5, AnySequence
<1>7. Hosts(u, outer, a, b + (4 - (q - (m + 1))), m, e + (4 - (q - (m + 1))))
  <2>1. m + 1 <= m + 1 /\ q < e
    BY <1>1
  <2> QED
    BY <1>1, <1>5, <1>6, <2>1, InnerSplice
<1>8. (m + 1) + 1 = m + 2 /\ (m + 1) + 2 = m + 3 /\ (m + 1) + 3 = m + 4 /\ (m + 1) + 4 = m + 5
      /\ (m + 3) + 1 = m + 4 /\ m \in Int
  BY <1>1
<1>9. Holds(u, S, outer, a, b + (4 - (q - (m + 1))), m, e + (4 - (q - (m + 1))))
  BY <1>5, <1>7 DEF Holds
<1>10. Carries(u, m, inner, m + 3, w[1])
  BY <1>5, <1>8 DEF Carries
<1>11. \A k \in m + 2 .. m + 5 : u[k] \in {Blank, Name(inner), w[1], Comma}
  <2>1. \A k \in m + 2 .. m + 5 : k = m + 2 \/ k = m + 3 \/ k = m + 4 \/ k = m + 5
    BY <1>1
  <2> QED
    BY <1>5, <1>8, <2>1
<1> QED
  BY <1>5, <1>8, <1>9, <1>10, <1>11 DEF InnerAdded

LEMMA AddInner ==
  ASSUME NEW t, NEW S, NEW outer, NEW inner, NEW a, NEW b, NEW m, NEW e,
         Holds(t, S, outer, a, b, m, e), Free(t, m, inner),
         Blank \in S, Comma \in S, Name(inner) \in S,
         NEW w, w \in Seq(S), Len(w) = 1, IsScalar(w[1]),
         NEW u, IsSet(u, t, m + 1, inner, w)
  PROVE  \E q, s : InnerAdded(t, S, u, outer, inner, a, b, m, e, q, w, s)
<1>1. t \in Seq(S) /\ ObjectAt(t, m + 1, e)
  BY HoldsFacts
<1>2. FitsSome(u, S, t, m + 1, e, inner, w)
  BY <1>1, FitsSet DEF Free
<1>3. PICK q \in m + 1 .. e - 1, s \in {Comma, Blank} : Fits(u, S, t, m + 1, q, inner, w, s)
  BY <1>2 DEF FitsSome
<1>4. InnerAdded(t, S, u, outer, inner, a, b, m, e, q, w, s)
  BY <1>3, InnerFits
<1> QED
  BY <1>4

(***************************************************************************)
(* A member is removed.                                                    *)
(***************************************************************************)
IsDeleted(u, t, a, name) == u = DeleteMember(t, a, name)

Removing(t, S, u, a, b, name, k, p, q) ==
  /\ k \in Members(t, a, name)
  /\ p \in a .. k - 1 /\ q \in ValueEnd(t, k + 1) .. b - 1
  /\ Spliced(t, u, p, q, 0) /\ u \in Seq(S) /\ Valued(u)
  /\ \A j \in p + 1 .. k - 1 : Loose(t[j])
  /\ \A j \in ValueEnd(t, k + 1) + 1 .. q : Loose(t[j])
  /\ Inert(t, p + 1, q) /\ Inert(u, p + 1, p + 0)
  /\ ObjectAt(u, a, b + (0 - (q - p)))
  /\ Members(t, a, name) = {k} => Members(u, a, name) = {}

LEMMA RemoveSet ==
  ASSUME NEW S, NEW t, t \in Seq(S), Valued(t), NEW a, NEW b, ObjectAt(t, a, b), NEW name,
         NEW k, k = FindMember(t, a, name), Members(t, a, name) # {},
         NEW u, IsDeleted(u, t, a, name)
  PROVE  \E p, q : Removing(t, S, u, a, b, name, k, p, q)
<1>1. u = DeleteMember(t, a, name)
  BY DEF IsDeleted
<1>2. PICK p \in a .. k - 1, q \in ValueEnd(t, k + 1) .. b - 1 :
           /\ k \in Members(t, a, name)
           /\ Spliced(t, u, p, q, 0) /\ u \in Seq(S) /\ Valued(u)
           /\ \A j \in p + 1 .. k - 1 : Loose(t[j])
           /\ \A j \in ValueEnd(t, k + 1) + 1 .. q : Loose(t[j])
           /\ Inert(t, p + 1, q) /\ Inert(u, p + 1, p + 0)
           /\ ObjectAt(u, a, b + (0 - (q - p)))
           /\ Members(t, a, name) = {k} => Members(u, a, name) = {}
  BY <1>1, RemoveFacts
<1>3. Removing(t, S, u, a, b, name, k, p, q)
  BY <1>2 DEF Removing
<1> QED
  BY <1>3

InnerRemoved(t, S, u, outer, inner, a, b, m, e, p, q, x) ==
  /\ Spliced(t, u, p, q, 0)
  /\ Holds(u, S, outer, a, b + (0 - (q - p)), m, e + (0 - (q - p))) /\ Free(u, m, inner)
  /\ \A k \in p + 1 .. q : t[k] \in {Blank, Comma, Name(inner), x}

LEMMA RemoveInner ==
  ASSUME NEW t, NEW S, NEW outer, NEW inner, NEW a, NEW b, NEW m, NEW e,
         Holds(t, S, outer, a, b, m, e), NEW o, NEW x, Carries(t, m, inner, o, x), IsScalar(x),
         NEW u, IsDeleted(u, t, m + 1, inner)
  PROVE  \E p, q : InnerRemoved(t, S, u, outer, inner, a, b, m, e, p, q, x)
<1>1. /\ t \in Seq(S) /\ IsText(t) /\ Valued(t) /\ Hosts(t, outer, a, b, m, e)
      /\ ObjectAt(t, m + 1, e) /\ Len(t) \in Nat /\ a \in 1 .. Len(t)
      /\ m \in a + 1 .. Len(t) /\ e \in m + 2 .. b - 1
      /\ b \in 1 .. Len(t)
  BY HoldsFacts
<1>2. /\ o \in m + 2 .. e - 2 /\ o = FindMember(t, m + 1, inner) /\ ValueEnd(t, o + 1) = o + 1
      /\ Members(t, m + 1, inner) = {o} /\ t[o] = Name(inner) /\ t[o + 1] = x
  BY CarriesFacts
<1>3. Members(t, m + 1, inner) # {}
  BY <1>2
<1>4. PICK p, q : Removing(t, S, u, m + 1, e, inner, o, p, q)
  BY <1>1, <1>2, <1>3, RemoveSet
<1>5. /\ p \in m + 1 .. o - 1 /\ q \in o + 1 .. e - 1
      /\ Spliced(t, u, p, q, 0) /\ u \in Seq(S) /\ Valued(u)
      /\ \A j \in p + 1 .. o - 1 : Loose(t[j])
      /\ \A j \in (o + 1) + 1 .. q : Loose(t[j])
      /\ Inert(t, p + 1, q) /\ Inert(u, p + 1, p + 0)
      /\ Members(u, m + 1, inner) = {}
  BY <1>2, <1>4 DEF Removing
<1>6. IsText(u)
  BY <1>5, AnySequence
<1>7. Hosts(u, outer, a, b + (0 - (q - p)), m, e + (0 - (q - p)))
  <2>1. m + 1 <= p /\ q < e
    BY <1>1, <1>2, <1>5
  <2> QED
    BY <1>1, <1>5, <1>6, <2>1, InnerSplice
<1>8. ASSUME NEW k \in p + 1 .. q PROVE t[k] \in {Blank, Comma, Name(inner), x}
  <2>0. o \in Int /\ p \in Int /\ q \in Int
    BY <1>1, <1>2, <1>5
  <2>1. k \in p + 1 .. o - 1 \/ k = o \/ k = o + 1 \/ k \in (o + 1) + 1 .. q
    BY <2>0
  <2> QED
    BY <1>2, <1>5, <2>1 DEF Loose
<1>9. InnerRemoved(t, S, u, outer, inner, a, b, m, e, p, q, x)
  BY <1>5, <1>7, <1>8 DEF InnerRemoved, Holds, Free
<1> QED
  BY <1>9

(* An object in which nothing but blanks stands in front of a brace.       *)
LEMMA EmptyIs ==
  ASSUME NEW t, IsText(t), NEW i, NEW e, ObjectAt(t, i, e), t[SkipBlanks(t, i + 1)] = Close
  PROVE  \A k \in i + 1 .. e - 1 : t[k] = Blank
<1>1. /\ i \in 1 .. Len(t) /\ e \in 1 .. Len(t) /\ i < e /\ t[e] = Close /\ t[i] = Open
      /\ Len(t) \in Nat /\ \A k \in i .. e - 1 : Nesting(t, i, k) > 0
  BY ObjectFacts, TextDomain DEF ObjectAt
<1> DEFINE j == SkipBlanks(t, i + 1)
<1>2. /\ j \in i + 1 .. Len(t) + 1 /\ (j > Len(t) \/ t[j] # Blank)
      /\ \A k \in i + 1 .. j - 1 : t[k] = Blank
  BY <1>1, SkipFacts
<1>3. t[j] = Close
  OBVIOUS
<1> HIDE DEF j
<1>4. j <= e
  BY <1>1, <1>2, BracesDiffer
<1>5. ASSUME j < e PROVE FALSE
  <2>1. j \in i .. e - 1 /\ j \in Int /\ i \in Int /\ j - 1 \in Int /\ i + 1 \in Int /\ i <= j
        /\ i <= i + 1 /\ i <= j - 1
    BY <1>1, <1>2, <1>5
  <2>2. Nesting(t, i, j) = Nesting(t, i, j - 1) + Weight(t[j])
    BY <2>1, NestingNext
  <2>3. Nesting(t, i, j - 1) = Nesting(t, i, i) + Nesting(t, i + 1, j - 1)
    BY <2>1, NestingSplit
  <2>4. Nesting(t, i, i) = 1
    BY <1>1, <2>1, NestingOne DEF Weight
  <2>5. Nesting(t, i + 1, j - 1) = 0
    <3>1. \A k \in i + 1 .. j - 1 : Weight(t[k]) = 0
      BY <1>2, MarksAreFlat
    <3> QED
      BY <2>1, <3>1, FlatNesting
  <2>6. Weight(t[j]) = -1
    BY <1>3, BracesDiffer DEF Weight
  <2>7. Nesting(t, i, j) > 0
    BY <1>1, <2>1
  <2> QED
    BY <2>2, <2>3, <2>4, <2>5, <2>6, <2>7
<1>6. j = e
  BY <1>1, <1>2, <1>4, <1>5
<1> QED
  BY <1>2, <1>6

OuterRemoved(t, S, u, outer, a, b, p, q) ==
  /\ Spliced(t, u, p, q, 0) /\ Spare(u, S, outer, a, b + (0 - (q - p)))
  /\ \A k \in p + 1 .. q : t[k] \in {Blank, Comma, Name(outer), Open, Close}

LEMMA RemoveOuter ==
  ASSUME NEW t, NEW S, NEW outer, NEW a, NEW b, NEW m, NEW e,
         Holds(t, S, outer, a, b, m, e), t[SkipBlanks(t, (m + 1) + 1)] = Close,
         NEW u, IsDeleted(u, t, a, outer)
  PROVE  \E p, q : OuterRemoved(t, S, u, outer, a, b, p, q)
<1>1. /\ t \in Seq(S) /\ IsText(t) /\ Valued(t) /\ RootAt(t, a, b) /\ ObjectAt(t, a, b)
      /\ ObjectAt(t, m + 1, e) /\ Len(t) \in Nat /\ a \in 1 .. Len(t)
      /\ m \in a + 1 .. Len(t) /\ e \in m + 2 .. b - 1
      /\ b \in 1 .. Len(t) /\ Members(t, a, outer) = {m} /\ t[m] = Name(outer)
      /\ FindMember(t, a, outer) = m
  BY HoldsFacts
<1>2. ValueEnd(t, m + 1) = e /\ t[e] = Close /\ t[m + 1] = Open
  BY <1>1, ObjectFacts DEF ObjectAt
<1>3. \A k \in (m + 1) + 1 .. e - 1 : t[k] = Blank
  BY <1>1, EmptyIs
<1>4. PICK p, q : Removing(t, S, u, a, b, outer, m, p, q)
  <2>1. Members(t, a, outer) # {}
    BY <1>1
  <2> QED
    BY <1>1, <2>1, RemoveSet
<1>5. /\ p \in a .. m - 1 /\ q \in e .. b - 1
      /\ Spliced(t, u, p, q, 0) /\ u \in Seq(S) /\ Valued(u)
      /\ \A j \in p + 1 .. m - 1 : Loose(t[j])
      /\ \A j \in e + 1 .. q : Loose(t[j])
      /\ Inert(t, p + 1, q) /\ Inert(u, p + 1, p + 0)
      /\ Members(u, a, outer) = {}
  BY <1>1, <1>2, <1>4 DEF Removing
<1>6. IsText(u)
  BY <1>5, AnySequence
<1>7. RootAt(u, a, b + (0 - (q - p)))
  <2>1. a <= p /\ q < b
    BY <1>1, <1>5
  <2> QED
    BY <1>1, <1>5, <1>6, <2>1, SplicedRoot
<1>8. ASSUME NEW k \in p + 1 .. q PROVE t[k] \in {Blank, Comma, Name(outer), Open, Close}
  <2>1. k \in p + 1 .. m - 1 \/ k = m \/ k = m + 1 \/ k \in (m + 1) + 1 .. e - 1 \/ k = e
        \/ k \in e + 1 .. q
    BY <1>1, <1>5
  <2> QED
    BY <1>1, <1>2, <1>3, <1>5, <2>1 DEF Loose
<1>9. OuterRemoved(t, S, u, outer, a, b, p, q)
  BY <1>5, <1>7, <1>8 DEF OuterRemoved, Spare, Lacks
<1> QED
  BY <1>9

(***************************************************************************)
(* Another member of the root is given a value.                            *)
(***************************************************************************)
RootSplice(t, S, u, outer, a, b, p, q, n) ==
  /\ Spliced(t, u, p, q, n) /\ u \in Seq(S) /\ Valued(u)
  /\ Inert(t, p + 1, q) /\ Inert(u, p + 1, p + n) /\ a <= p /\ q < b
  /\ \A k \in p + 1 .. p + n : u[k] # Name(outer)
  /\ \A m \in Members(t, a, outer) : q < m \/ ValueEnd(t, m + 1) <= p

LEMMA RootChange ==
  ASSUME NEW t, NEW S, t \in Seq(S), Valued(t), NEW a, NEW b, ObjectAt(t, a, b), NEW outer, NEW name,
         Name(name) # Name(outer), Name(name) \in S, Blank \in S, Comma \in S,
         NEW x, x \in S, IsScalar(x),
         NEW u, IsSet(u, t, a, name, <<x>>)
  PROVE  \E p, q, n : RootSplice(t, S, u, outer, a, b, p, q, n)
<1>1. IsText(t)
  BY AnySequence
<1>2. Len(t) \in Nat /\ a \in 1 .. Len(t) /\ b \in 1 .. Len(t) /\ a < b
  BY <1>1, ObjectFacts, TextDomain
<1>3. /\ Blank # Name(outer) /\ Comma # Name(outer) /\ x # Name(outer)
  BY NamesAreFlat, ScalarIsFlat
<1>4. ASSUME NEW m \in Members(t, a, outer)
      PROVE  /\ m \in a + 1 .. b - 1 /\ t[m] = Name(outer)
             /\ ValueEnd(t, m + 1) \in m + 1 .. b - 1
             /\ \A j \in m .. ValueEnd(t, m + 1) : j \in Members(t, a, name) => j = m
  <2>1. t[m] = Name(outer)
    BY DEF Members
  <2> QED
    BY <1>1, <2>1, ValueSpan
<1>5. CASE Members(t, a, name) = {}
  <2> DEFINE w == <<x>>
  <2>1. w \in Seq(S) /\ Len(w) = 1 /\ w[1] = x /\ IsSet(u, t, a, name, w)
    OBVIOUS
  <2> HIDE DEF w
  <2>2. FitsSome(u, S, t, a, b, name, w)
    BY <1>5, <2>1, FitsSet
  <2>3. PICK q \in a .. b - 1, s \in {Comma, Blank} : Fits(u, S, t, a, q, name, w, s)
    BY <2>2 DEF FitsSome
  <2>4. ValueIn(t, S, u, a, b, q, name, x)
    BY <1>5, <2>1, <2>3, InsertValue
  <2>5. /\ Spliced(t, u, a, q, 4) /\ u \in Seq(S) /\ Valued(u)
        /\ \A k \in a + 1 .. q : t[k] = Blank
        /\ u[a + 1] = Blank /\ u[a + 2] = Name(name) /\ u[a + 3] = x
        /\ u[a + 4] \in {Comma, Blank}
        /\ Inert(t, a + 1, q) /\ Inert(u, a + 1, a + 4)
    BY <2>4 DEF ValueIn
  <2>6. ASSUME NEW k \in a + 1 .. a + 4 PROVE u[k] # Name(outer)
    <3>1. k = a + 1 \/ k = a + 2 \/ k = a + 3 \/ k = a + 4
      BY <1>2
    <3> QED
      BY <1>3, <2>5, <3>1
  <2>7. ASSUME NEW m \in Members(t, a, outer) PROVE q < m
    <3>1. m \in a + 1 .. b - 1 /\ t[m] # Blank
      BY <1>3, <1>4
    <3>2. m \notin a + 1 .. q
      BY <2>5, <3>1
    <3> QED
      BY <1>2, <3>1, <3>2
  <2>8. a <= a /\ q < b
    BY <1>2
  <2>9. RootSplice(t, S, u, outer, a, b, a, q, 4)
    BY <2>5, <2>6, <2>7, <2>8 DEF RootSplice
  <2> QED
    BY <2>9
<1>6. CASE Members(t, a, name) # {}
  <2> DEFINE k == FindMember(t, a, name)
             v == ValueEnd(t, k + 1)
  <2>1. Replacing(t, S, u, a, b, name, k, v, x)
    BY <1>6, ReplaceSet
  <2>2. k \in Members(t, a, name) /\ v = ValueEnd(t, k + 1)
    BY <2>1 DEF Replacing
  <2> HIDE DEF k, v
  <2>3. /\ k \in a + 1 .. b - 1 /\ v \in k + 1 .. b - 1
        /\ Spliced(t, u, k - 1, v, 2) /\ u \in Seq(S) /\ Valued(u)
        /\ u[k] = Name(name) /\ u[k + 1] = x
        /\ Inert(t, (k - 1) + 1, v) /\ Inert(u, (k - 1) + 1, (k - 1) + 2)
    BY <2>1 DEF Replacing
  <2>4. k \in Int /\ v \in Int
    BY <1>2, <2>3
  <2>5. ASSUME NEW j \in (k - 1) + 1 .. (k - 1) + 2 PROVE u[j] # Name(outer)
    <3>1. j = k \/ j = k + 1
      BY <2>4
    <3> QED
      BY <1>3, <2>3, <3>1
  <2>6. t[k] = Name(name)
    BY <2>2 DEF Members
  <2>7. ASSUME NEW m \in Members(t, a, outer) PROVE v < m \/ ValueEnd(t, m + 1) <= k - 1
    <3>1. m \in a + 1 .. b - 1 /\ t[m] = Name(outer) /\ ValueEnd(t, m + 1) \in m + 1 .. b - 1
          /\ \A j \in m .. ValueEnd(t, m + 1) : j \in Members(t, a, name) => j = m
      BY <1>4
    <3>2. m # k
      BY <2>6, <3>1
    <3>3. k \notin m .. ValueEnd(t, m + 1)
      BY <2>2, <3>1, <3>2
    <3>4. m \notin k .. v
      BY <1>1, <2>2, <3>2, ValueSpan
    <3> QED
      BY <1>2, <2>4, <3>1, <3>3, <3>4
  <2>8. a <= k - 1 /\ v < b
    BY <1>2, <2>3
  <2>9. RootSplice(t, S, u, outer, a, b, k - 1, v, 2)
    BY <2>3, <2>5, <2>7, <2>8 DEF RootSplice
  <2> QED
    BY <2>9
<1> QED
  BY <1>5, <1>6

LEMMA SpareChange ==
  ASSUME NEW t, NEW S, NEW outer, NEW a, NEW b, Spare(t, S, outer, a, b), NEW name,
         Name(name) # Name(outer), Name(name) \in S, Blank \in S, Comma \in S,
         NEW x, x \in S, IsScalar(x),
         NEW u, IsSet(u, t, a, name, <<x>>)
  PROVE  \E b2 : Spare(u, S, outer, a, b2)
<1>1. /\ t \in Seq(S) /\ IsText(t) /\ Valued(t) /\ ObjectAt(t, a, b) /\ Lacks(t, outer, a, b)
  BY SpareFacts
<1>2. PICK p, q, n : RootSplice(t, S, u, outer, a, b, p, q, n)
  BY <1>1, RootChange
<1>3. /\ Spliced(t, u, p, q, n) /\ u \in Seq(S) /\ Valued(u)
      /\ Inert(t, p + 1, q) /\ Inert(u, p + 1, p + n) /\ a <= p /\ q < b
      /\ \A k \in p + 1 .. p + n : u[k] # Name(outer)
  BY <1>2 DEF RootSplice
<1>4. IsText(u)
  BY <1>3, AnySequence
<1>5. Lacks(u, outer, a, b + (n - (q - p)))
  BY <1>1, <1>3, <1>4, LackingSplice
<1>6. Spare(u, S, outer, a, b + (n - (q - p)))
  BY <1>3, <1>5 DEF Spare
<1> QED
  BY <1>6

LEMMA HoldsChange ==
  ASSUME NEW t, NEW S, NEW outer, NEW a, NEW b, NEW m, NEW e, Holds(t, S, outer, a, b, m, e), NEW name,
         Name(name) # Name(outer), Name(name) \in S, Blank \in S, Comma \in S,
         NEW x, x \in S, IsScalar(x),
         NEW u, IsSet(u, t, a, name, <<x>>), NEW inner
  PROVE  \E b2, c : /\ Holds(u, S, outer, a, b2, m + c, e + c)
                    /\ Free(t, m, inner) => Free(u, m + c, inner)
                    /\ \A o, y : Carries(t, m, inner, o, y) /\ IsScalar(y)
                                   => Carries(u, m + c, inner, o + c, y)
<1>1. /\ t \in Seq(S) /\ IsText(t) /\ Valued(t) /\ Hosts(t, outer, a, b, m, e) /\ ObjectAt(t, a, b)
      /\ ObjectAt(t, m + 1, e) /\ Len(t) \in Nat /\ a \in 1 .. Len(t)
      /\ m \in a + 1 .. Len(t) /\ e \in m + 2 .. b - 1
      /\ b \in 1 .. Len(t) /\ Members(t, a, outer) = {m}
  BY HoldsFacts
<1>2. PICK p, q, n : RootSplice(t, S, u, outer, a, b, p, q, n)
  BY <1>1, RootChange
<1>3. /\ Spliced(t, u, p, q, n) /\ u \in Seq(S) /\ Valued(u)
      /\ Inert(t, p + 1, q) /\ Inert(u, p + 1, p + n) /\ a <= p /\ q < b
      /\ \A k \in p + 1 .. p + n : u[k] # Name(outer)
      /\ q < m \/ ValueEnd(t, m + 1) <= p
  BY <1>1, <1>2 DEF RootSplice
<1>4. IsText(u)
  BY <1>3, AnySequence
<1>5. e <= p \/ q < m
  BY <1>1, <1>3, ObjectFacts
<1>11. PICK c : Shifted(t, u, outer, a, b + (n - (q - p)), m, e, c)
  BY <1>1, <1>3, <1>4, <1>5, OuterSplice
<1>6. /\ c \in Int /\ Hosts(u, outer, a, b + (n - (q - p)), m + c, e + c)
      /\ \A k \in m .. e : u[k + c] = t[k]
      /\ \A other : Members(u, (m + 1) + c, other) = {k + c : k \in Members(t, m + 1, other)}
  BY <1>11 DEF Shifted
<1>7. (m + 1) + c = (m + c) + 1
  BY <1>1, <1>6
<1>8. Holds(u, S, outer, a, b + (n - (q - p)), m + c, e + c)
  BY <1>3, <1>6 DEF Holds
<1>9. ASSUME Free(t, m, inner) PROVE Free(u, m + c, inner)
  BY <1>6, <1>7, <1>9 DEF Free
<1>10. ASSUME NEW o, NEW y, Carries(t, m, inner, o, y), IsScalar(y)
       PROVE  Carries(u, m + c, inner, o + c, y)
  <2>1. o \in m + 2 .. e - 2 /\ t[o + 1] = y /\ Members(t, m + 1, inner) = {o}
    BY <1>10, CarriesFacts
  <2>2. o + 1 \in m .. e /\ (o + 1) + c = (o + c) + 1
    <3>1. m \in Int /\ e \in Int /\ o \in Int /\ c \in Int /\ m + 2 <= o /\ o <= e - 2
      BY <1>1, <1>6, <2>1
    <3> QED
      BY <3>1
  <2>3. u[(o + c) + 1] = y
    BY <1>6, <2>1, <2>2
  <2>4. Members(u, (m + c) + 1, inner) = {o + c}
    BY <1>6, <1>7, <2>1
  <2> QED
    BY <2>3, <2>4 DEF Carries
<1> QED
  BY <1>8, <1>9, <1>10

(***************************************************************************)
(* The outer object is added with its member.                              *)
(***************************************************************************)
BothAdded(t, S, u, outer, inner, a, b, w, z, t1, q, s, q1, s1) ==
  /\ OuterAdded(t, S, t1, outer, inner, a, b, q, w, s)
  /\ InnerAdded(t1, S, u, outer, inner, a, b + (5 - (q - a)), a + 2, a + 4, q1, z, s1)

LEMMA AddBoth ==
  ASSUME NEW t, NEW S, NEW outer, NEW inner, NEW a, NEW b, Spare(t, S, outer, a, b),
         Blank \in S, Comma \in S, Name(outer) \in S, Name(inner) \in S,
         NEW v, v \in Seq(S), NEW w, w \in Seq(S), NEW z, z \in Seq(S),
         Nests(v, w, z, inner), IsScalar(z[1]),
         NEW u, IsSet(u, t, a, outer, v)
  PROVE  \E t1, q, s, q1, s1 : BothAdded(t, S, u, outer, inner, a, b, w, z, t1, q, s, q1, s1)
<1>1. /\ t \in Seq(S) /\ ObjectAt(t, a, b) /\ Members(t, a, outer) = {}
      /\ Len(t) \in Nat /\ a \in 1 .. Len(t) /\ b \in a + 1 .. Len(t)
  BY SpareFacts
<1>2. Len(w) = 2 /\ w[1] = Open /\ w[2] = Close /\ Len(z) = 1
  BY DEF Nests
<1>3. PICK t1 : IsSet(t1, t, a, outer, w)
  BY DEF IsSet
<1>4. PICK q, s : OuterAdded(t, S, t1, outer, inner, a, b, q, w, s)
  BY <1>2, <1>3, AddOuter
<1>5. Holds(t1, S, outer, a, b + (5 - (q - a)), a + 2, a + 4) /\ Free(t1, a + 2, inner)
  BY <1>4 DEF OuterAdded
<1>6. PICK u2 : IsSet(u2, t1, (a + 2) + 1, inner, z)
  BY DEF IsSet
<1>7. PICK q1, s1 : InnerAdded(t1, S, u2, outer, inner, a, b + (5 - (q - a)), a + 2, a + 4, q1, z, s1)
  BY <1>2, <1>5, <1>6, AddInner
<1>8. (a + 2) + 1 = a + 3
  BY <1>1
<1>9. ObjectAt(t1, a + 3, a + 4)
  BY <1>5, <1>8, HoldsFacts
<1>10. IsSet(u2, t1, a + 3, inner, z)
  BY <1>6, <1>8
<1>11. u2 = u
  <2>1. ObjectAt(t, a, b) /\ Members(t, a, outer) = {} /\ t \in Seq(S)
    BY <1>1
  <2> QED
    BY <1>3, <1>9, <1>10, <2>1, NestedSets, SMTT(60)
<1>12. BothAdded(t, S, u, outer, inner, a, b, w, z, t1, q, s, q1, s1)
  BY <1>4, <1>7, <1>11 DEF BothAdded
<1> QED
  BY <1>12

(***************************************************************************)
(* What the edits leave of the tokens outside a set.                       *)
(***************************************************************************)
LEMMA OuterAddedAmong ==
  ASSUME NEW t, NEW S, NEW u, NEW outer, NEW inner, NEW a, NEW b, NEW q, NEW w, NEW s,
         t \in Seq(S), OuterAdded(t, S, u, outer, inner, a, b, q, w, s),
         NEW but, Blank \in but, Comma \in but, Open \in but, Close \in but, Name(outer) \in but
  PROVE  Among(u, but) = Among(t, but)
<1>1. /\ Spliced(t, u, a, q, 5)
      /\ Holds(u, S, outer, a, b + (5 - (q - a)), a + 2, a + 4)
      /\ \A k \in a + 1 .. q : t[k] \in but
      /\ \A k \in a + 1 .. a + 5 : u[k] \in but
  BY DEF OuterAdded
<1>2. IsText(t) /\ IsText(u)
  BY <1>1, AnySequence DEF Holds
<1> QED
  BY <1>1, <1>2, AmongSpliced

LEMMA InnerAddedAmong ==
  ASSUME NEW t, NEW S, NEW u, NEW outer, NEW inner, NEW a, NEW b, NEW m, NEW e, NEW q, NEW w, NEW s,
         t \in Seq(S), m \in Int, InnerAdded(t, S, u, outer, inner, a, b, m, e, q, w, s),
         NEW but, Blank \in but, Comma \in but, Name(inner) \in but, w[1] \in but
  PROVE  Among(u, but) = Among(t, but)
<1>1. /\ Spliced(t, u, m + 1, q, 4)
      /\ Holds(u, S, outer, a, b + (4 - (q - (m + 1))), m, e + (4 - (q - (m + 1))))
      /\ \A k \in m + 2 .. q : t[k] \in but
      /\ \A k \in m + 2 .. m + 5 : u[k] \in but
  BY DEF InnerAdded
<1>2. IsText(t) /\ IsText(u)
  BY <1>1, AnySequence DEF Holds
<1>3. (m + 1) + 1 = m + 2 /\ (m + 1) + 4 = m + 5
  OBVIOUS
<1>4. /\ \A k \in (m + 1) + 1 .. q : t[k] \in but
      /\ \A k \in (m + 1) + 1 .. (m + 1) + 4 : u[k] \in but
  BY <1>1, <1>3
<1> QED
  BY <1>1, <1>2, <1>4, AmongSpliced

LEMMA ReplacedAmong ==
  ASSUME NEW t, IsText(t), NEW u, IsText(u), NEW o, o \in Int, Spliced(t, u, o - 1, o + 1, 2),
         NEW but, t[o] \in but, t[o + 1] \in but, u[o] \in but, u[o + 1] \in but
  PROVE  Among(u, but) = Among(t, but)
<1>1. \A k \in (o - 1) + 1 .. o + 1 : k = o \/ k = o + 1
  OBVIOUS
<1>2. \A k \in (o - 1) + 1 .. (o - 1) + 2 : k = o \/ k = o + 1
  OBVIOUS
<1>3. /\ \A k \in (o - 1) + 1 .. o + 1 : t[k] \in but
      /\ \A k \in (o - 1) + 1 .. (o - 1) + 2 : u[k] \in but
  BY <1>1, <1>2
<1> QED
  BY <1>3, AmongSpliced

LEMMA RemovedAmong ==
  ASSUME NEW t, IsText(t), NEW u, IsText(u), NEW p, NEW q, Spliced(t, u, p, q, 0),
         NEW but, \A k \in p + 1 .. q : t[k] \in but
  PROVE  Among(u, but) = Among(t, but)
<1>1. p \in Int
  BY DEF Spliced
<1>2. \A k \in p + 1 .. p + 0 : u[k] \in but
  BY <1>1
<1> QED
  BY <1>2, AmongSpliced

LEMMA OnlyAmong ==
  ASSUME NEW t, NEW but, \A k \in DOMAIN t : t[k] \in but
  PROVE  Among(t, but) = {}
BY DEF Among

---------------------------------------------------------------------------
(* Registration.                                                           *)

(***************************************************************************)
(* What opencode.json can hold.                                            *)
(***************************************************************************)
(* A text without an mcp object, one whose mcp object has nothing of ours, *)
(* and one that has our entry x.                                           *)
Bare(t) == \E a, b : Spare(t, Token, "mcp", a, b)
Ready(t) == \E a, b, m, e : Holds(t, Token, "mcp", a, b, m, e) /\ Free(t, m, Ours)
Bears(t, x) ==
  /\ x \in Entries
  /\ \E a, b, m, e, o : Holds(t, Token, "mcp", a, b, m, e) /\ Carries(t, m, Ours, o, x)
Plain(t) == Bare(t) \/ Ready(t)
Good(t) == Plain(t) \/ \E x : Bears(t, x)

LEMMA EntryParts ==
  ASSUME NEW c, NEW y
  PROVE  Entry(c, y)[1] = "entry" /\ Entry(c, y)[2] = c /\ Entry(c, y)[3] = y
BY DEF Entry

LEMMA EntryIs ==
  ASSUME NEW c, c \in Commands, NEW y, y \in BOOLEAN
  PROVE  Entry(c, y) \in Entries
BY DEF Entries

LEMMA EntryFacts ==
  ASSUME NEW x, x \in Entries
  PROVE  /\ x \in Token /\ IsScalar(x) /\ x \in Frame
         /\ x[2] \in Commands /\ x[2] # None /\ x[3] \in BOOLEAN /\ x = Entry(x[2], x[3])
<1>1. \E c \in Commands, y \in BOOLEAN : x = Entry(c, y)
  BY DEF Entries
<1>2. PICK c, y : c \in Commands /\ y \in BOOLEAN /\ x = Entry(c, y)
  BY <1>1
<1>3. x[1] = "entry" /\ x[2] = c /\ x[3] = y
  BY <1>2, EntryParts, Zenon
<1>4. IsScalar(x)
  BY <1>3 DEF IsScalar
<1>5. x \in Token /\ x \in Frame
  BY DEF Token, Frame
<1>6. c # None
  BY <1>2, CommandsAssumption
<1> QED
  BY <1>2, <1>3, <1>4, <1>5, <1>6, Zenon

LEMMA TokenFacts ==
  /\ Open \in Token /\ Close \in Token /\ Comma \in Token /\ Blank \in Token
  /\ Name("mcp") \in Token /\ Name(Ours) \in Token /\ Name(Added) \in Token
  /\ <<"value", Added>> \in Token
BY DEF Token

LEMMA FrameFacts ==
  Open \in Frame /\ Close \in Frame /\ Comma \in Frame /\ Blank \in Frame
    /\ Name("mcp") \in Frame /\ Name(Ours) \in Frame
BY DEF Frame

LEMMA SpareReads ==
  ASSUME NEW t, NEW a, NEW b, Spare(t, Token, "mcp", a, b)
  PROVE  McpObject(t) = 0 /\ OurMember(t) = 0 /\ RootObjectStart(t) = a
<1>1. RootObjectStart(t) = a /\ FindMember(t, a, "mcp") = 0
  BY SpareFacts
<1>2. McpObject(t) = 0
  BY <1>1 DEF McpObject
<1> QED
  BY <1>1, <1>2 DEF OurMember

LEMMA HoldsReads ==
  ASSUME NEW t, NEW a, NEW b, NEW m, NEW e, Holds(t, Token, "mcp", a, b, m, e)
  PROVE  /\ McpObject(t) = m + 1 /\ McpObject(t) # 0 /\ RootObjectStart(t) = a
         /\ Free(t, m, Ours) => OurMember(t) = 0
         /\ \A o, x : Carries(t, m, Ours, o, x) /\ IsScalar(x)
                        => OurMember(t) = o /\ o # 0 /\ t[o + 1] = x
<1>1. /\ RootObjectStart(t) = a /\ FindMember(t, a, "mcp") = m /\ ObjectAt(t, m + 1, e)
      /\ m \in a + 1 .. Len(t) /\ a \in 1 .. Len(t) /\ Len(t) \in Nat /\ IsText(t)
  BY HoldsFacts
<1>2. m # 0 /\ m + 1 # 0
  BY <1>1
<1>3. McpObject(t) = m + 1
  BY <1>1, <1>2 DEF McpObject
<1>4. OurMember(t) = FindMember(t, m + 1, Ours)
  BY <1>2, <1>3 DEF OurMember
<1>5. ASSUME Free(t, m, Ours) PROVE OurMember(t) = 0
  BY <1>4, <1>5, FindNone DEF Free
<1>6. ASSUME NEW o, NEW x, Carries(t, m, Ours, o, x), IsScalar(x)
      PROVE  OurMember(t) = o /\ o # 0 /\ t[o + 1] = x
  <2>1. o \in m + 2 .. e - 2 /\ FindMember(t, m + 1, Ours) = o /\ t[o + 1] = x
    BY <1>6, CarriesFacts
  <2> QED
    BY <1>1, <1>4, <2>1
<1> QED
  BY <1>1, <1>2, <1>3, <1>5, <1>6

LEMMA GoodIsText ==
  ASSUME NEW t, Good(t)
  PROVE  t \in Seq(Token) /\ Parses(t)
<1>1. t \in Seq(Token)
  BY DEF Good, Plain, Bare, Ready, Bears, Spare, Holds
<1> QED
  BY <1>1, NoTextAssumption DEF Parses

LEMMA PlainReads ==
  ASSUME NEW t, Plain(t)
  PROVE  OurMember(t) = 0 /\ Good(t)
<1>1. CASE Bare(t)
  BY <1>1, SpareReads DEF Bare, Good, Plain
<1>2. CASE Ready(t)
  BY <1>2, HoldsReads DEF Ready, Good, Plain
<1> QED
  BY <1>1, <1>2 DEF Plain

LEMMA BearsReads ==
  ASSUME NEW t, NEW x, Bears(t, x)
  PROVE  OurMember(t) # 0 /\ t[OurMember(t) + 1] = x /\ x \in Entries /\ Good(t)
<1>1. x \in Entries
  BY DEF Bears
<1>2. PICK a, b, m, e, o : Holds(t, Token, "mcp", a, b, m, e) /\ Carries(t, m, Ours, o, x)
  BY DEF Bears
<1>3. OurMember(t) = o /\ o # 0 /\ t[o + 1] = x
  BY <1>1, <1>2, HoldsReads, EntryFacts
<1> QED
  BY <1>1, <1>3 DEF Good

LEMMA GoodReads ==
  ASSUME NEW t, Good(t)
  PROVE  /\ OurMember(t) = 0 => Plain(t)
         /\ OurMember(t) # 0 => Bears(t, t[OurMember(t) + 1])
<1>1. CASE Plain(t)
  BY <1>1, PlainReads
<1>2. CASE \E x : Bears(t, x)
  <2>1. PICK x : Bears(t, x)
    BY <1>2
  <2>2. OurMember(t) # 0 /\ t[OurMember(t) + 1] = x
    BY <2>1, BearsReads
  <2> QED
    BY <2>1, <2>2
<1> QED
  BY <1>1, <1>2 DEF Good

(***************************************************************************)
(* The edits of opencode.json.                                             *)
(***************************************************************************)
(* The entry that an install writes into a text.                           *)
NewEntry(t) == Entry(here, IF OurMember(t) = 0 THEN FALSE ELSE t[OurMember(t) + 1][3])

LEMMA NewEntryFacts ==
  ASSUME NEW t, Good(t), here \in Commands
  PROVE  NewEntry(t) \in Entries /\ NewEntry(t)[2] = here
<1> DEFINE extra == IF OurMember(t) = 0 THEN FALSE ELSE t[OurMember(t) + 1][3]
<1>1. extra \in BOOLEAN
  <2>1. CASE OurMember(t) = 0
    BY <2>1, Zenon
  <2>2. CASE OurMember(t) # 0
    <3>1. t[OurMember(t) + 1] \in Entries
      BY <2>2, GoodReads, BearsReads
    <3>2. t[OurMember(t) + 1][3] \in BOOLEAN
      BY <3>1, EntryFacts, Zenon
    <3> QED
      BY <2>2, <3>2, Zenon
  <2> QED
    BY <2>1, <2>2, Zenon
<1>2. NewEntry(t) = Entry(here, extra)
  BY Zenon DEF NewEntry
<1> HIDE DEF extra
<1>3. Entry(here, extra) \in Entries
  BY <1>1, EntryIs
<1>4. Entry(here, extra)[2] = here
  BY EntryParts
<1> QED
  BY <1>2, <1>3, <1>4, Zenon

LEMMA WithOursIs ==
  ASSUME NEW t
  PROVE  /\ McpObject(t) = 0 =>
              IsSet(WithOurs(t), t, RootObjectStart(t), "mcp",
                    <<Open, Blank, Name(Ours), NewEntry(t), Blank, Close>>)
         /\ McpObject(t) # 0 => IsSet(WithOurs(t), t, McpObject(t), Ours, <<NewEntry(t)>>)
BY DEF WithOurs, NewEntry, IsSet

(* The words that setMember puts in, and what they are made of.            *)
Word(x) == <<x>>
Hull == <<Open, Close>>
Filled(x) == <<Open, Blank, Name(Ours), x, Blank, Close>>

LEMMA WordsAre ==
  ASSUME NEW x, x \in Token
  PROVE  /\ Word(x) \in Seq(Token) /\ Len(Word(x)) = 1 /\ Word(x)[1] = x
         /\ Hull \in Seq(Token) /\ Filled(x) \in Seq(Token)
         /\ Nests(Filled(x), Hull, Word(x), Ours)
BY TokenFacts DEF Word, Hull, Filled, Nests

LEMMA BareWithOurs ==
  ASSUME NEW t, NEW a, NEW b, Spare(t, Token, "mcp", a, b), here \in Commands
  PROVE  /\ NewEntry(t) = Entry(here, FALSE) /\ NewEntry(t) \in Entries
         /\ \E t1, q, s, q1, s1 :
              BothAdded(t, Token, WithOurs(t), "mcp", Ours, a, b, Hull, Word(NewEntry(t)), t1, q, s, q1, s1)
<1>1. McpObject(t) = 0 /\ OurMember(t) = 0 /\ RootObjectStart(t) = a
  BY SpareReads
<1>2. NewEntry(t) = Entry(here, FALSE)
  BY <1>1, Zenon DEF NewEntry
<1>3. Good(t)
  BY DEF Good, Plain, Bare
<1>4. NewEntry(t) \in Entries
  BY <1>3, NewEntryFacts
<1>5. NewEntry(t) \in Token /\ IsScalar(NewEntry(t))
  BY <1>4, EntryFacts
<1>6. IsSet(WithOurs(t), t, a, "mcp", Filled(NewEntry(t)))
  BY <1>1, WithOursIs DEF Filled
<1>7. /\ Word(NewEntry(t)) \in Seq(Token) /\ IsScalar(Word(NewEntry(t))[1])
      /\ Hull \in Seq(Token) /\ Filled(NewEntry(t)) \in Seq(Token)
      /\ Nests(Filled(NewEntry(t)), Hull, Word(NewEntry(t)), Ours)
  BY <1>5, WordsAre
<1>8. Blank \in Token /\ Comma \in Token /\ Name("mcp") \in Token /\ Name(Ours) \in Token
  BY TokenFacts
<1>9. \E t1, q, s, q1, s1 :
        BothAdded(t, Token, WithOurs(t), "mcp", Ours, a, b, Hull, Word(NewEntry(t)), t1, q, s, q1, s1)
  BY <1>6, <1>7, <1>8, AddBoth
<1> QED
  BY <1>2, <1>4, <1>9

LEMMA ReadyWithOurs ==
  ASSUME NEW t, NEW a, NEW b, NEW m, NEW e, Holds(t, Token, "mcp", a, b, m, e), Free(t, m, Ours),
         here \in Commands
  PROVE  /\ NewEntry(t) = Entry(here, FALSE) /\ NewEntry(t) \in Entries
         /\ \E q, s : InnerAdded(t, Token, WithOurs(t), "mcp", Ours, a, b, m, e, q, Word(NewEntry(t)), s)
<1>1. McpObject(t) = m + 1 /\ McpObject(t) # 0 /\ OurMember(t) = 0
  BY HoldsReads
<1>2. NewEntry(t) = Entry(here, FALSE)
  BY <1>1, Zenon DEF NewEntry
<1>3. Good(t)
  BY DEF Good, Plain, Ready
<1>4. NewEntry(t) \in Entries
  BY <1>3, NewEntryFacts
<1>5. NewEntry(t) \in Token /\ IsScalar(NewEntry(t))
  BY <1>4, EntryFacts
<1>6. IsSet(WithOurs(t), t, m + 1, Ours, Word(NewEntry(t)))
  BY <1>1, WithOursIs DEF Word
<1>7. /\ Word(NewEntry(t)) \in Seq(Token) /\ IsScalar(Word(NewEntry(t))[1]) /\ Len(Word(NewEntry(t))) = 1
  BY <1>5, WordsAre
<1>8. Blank \in Token /\ Comma \in Token /\ Name(Ours) \in Token
  BY TokenFacts
<1>9. \E q, s : InnerAdded(t, Token, WithOurs(t), "mcp", Ours, a, b, m, e, q, Word(NewEntry(t)), s)
  BY <1>6, <1>7, <1>8, AddInner
<1> QED
  BY <1>2, <1>4, <1>9

LEMMA BearsWithOurs ==
  ASSUME NEW t, NEW a, NEW b, NEW m, NEW e, Holds(t, Token, "mcp", a, b, m, e),
         NEW o, NEW x, x \in Entries, Carries(t, m, Ours, o, x), here \in Commands
  PROVE  /\ NewEntry(t) \in Entries
         /\ Holds(WithOurs(t), Token, "mcp", a, b, m, e) /\ Carries(WithOurs(t), m, Ours, o, NewEntry(t))
         /\ Spliced(t, WithOurs(t), o - 1, o + 1, 2) /\ WithOurs(t)[o] = Name(Ours)
<1>0. IsScalar(x)
  BY EntryFacts
<1>1. McpObject(t) = m + 1 /\ McpObject(t) # 0
  BY HoldsReads
<1>3. Good(t)
  BY DEF Good, Bears
<1>4. NewEntry(t) \in Entries
  BY <1>3, NewEntryFacts
<1>5. NewEntry(t) \in Token /\ IsScalar(NewEntry(t))
  BY <1>4, EntryFacts
<1>6. IsSet(WithOurs(t), t, m + 1, Ours, <<NewEntry(t)>>)
  BY <1>1, WithOursIs
<1>8. Name(Ours) \in Token
  BY TokenFacts
<1>9. /\ Holds(WithOurs(t), Token, "mcp", a, b, m, e) /\ Carries(WithOurs(t), m, Ours, o, NewEntry(t))
      /\ Spliced(t, WithOurs(t), o - 1, o + 1, 2) /\ WithOurs(t)[o] = Name(Ours)
  BY <1>0, <1>5, <1>6, <1>8, ReplaceInner
<1> QED
  BY <1>4, <1>9

(* What install writes bears one entry, ours, and keeps the rest.          *)
LEMMA WithOursKeeps ==
  ASSUME NEW t, Good(t), here \in Commands
  PROVE  /\ Bears(WithOurs(t), NewEntry(t)) /\ NewEntry(t)[2] = here
         /\ Among(WithOurs(t), Frame) = Among(t, Frame)
<1> DEFINE x == NewEntry(t)
           u == WithOurs(t)
<1>1. x \in Entries /\ x[2] = here
  BY NewEntryFacts
<1>2. x \in Token /\ x \in Frame /\ IsScalar(x)
  BY <1>1, EntryFacts
<1>3. Word(x)[1] = x
  BY <1>2, WordsAre
<1>4. t \in Seq(Token)
  BY GoodIsText
<1>5. CASE Bare(t)
  <2>1. PICK a, b : Spare(t, Token, "mcp", a, b)
    BY <1>5 DEF Bare
  <2>2. PICK t1, q, s, q1, s1 :
          BothAdded(t, Token, u, "mcp", Ours, a, b, Hull, Word(x), t1, q, s, q1, s1)
    BY <2>1, BareWithOurs
  <2> HIDE DEF x, u
  <2>3. /\ OuterAdded(t, Token, t1, "mcp", Ours, a, b, q, Hull, s)
        /\ InnerAdded(t1, Token, u, "mcp", Ours, a, b + (5 - (q - a)), a + 2, a + 4, q1, Word(x), s1)
    BY <2>2 DEF BothAdded
  <2>4. Among(t1, Frame) = Among(t, Frame)
    BY <1>4, <2>3, FrameFacts, OuterAddedAmong
  <2>5. t1 \in Seq(Token)
    BY <2>3 DEF OuterAdded, Holds
  <2>6. a + 2 \in Int
    BY <2>1, SpareFacts
  <2>7. Among(u, Frame) = Among(t1, Frame)
    BY <1>2, <1>3, <2>3, <2>5, <2>6, FrameFacts, InnerAddedAmong
  <2>8. Bears(u, x)
    BY <1>1, <1>3, <2>3 DEF InnerAdded, Bears
  <2> QED
    BY <1>1, <2>4, <2>7, <2>8 DEF x, u
<1>6. CASE Ready(t)
  <2>1. PICK a, b, m, e : Holds(t, Token, "mcp", a, b, m, e) /\ Free(t, m, Ours)
    BY <1>6 DEF Ready
  <2>2. PICK q, s : InnerAdded(t, Token, u, "mcp", Ours, a, b, m, e, q, Word(x), s)
    BY <2>1, ReadyWithOurs
  <2> HIDE DEF x, u
  <2>3. m \in Int
    BY <2>1, HoldsFacts
  <2>4. Among(u, Frame) = Among(t, Frame)
    BY <1>2, <1>3, <1>4, <2>2, <2>3, FrameFacts, InnerAddedAmong
  <2>5. Bears(u, x)
    BY <1>1, <1>3, <2>2 DEF InnerAdded, Bears
  <2> QED
    BY <1>1, <2>4, <2>5 DEF x, u
<1>7. CASE \E y : Bears(t, y)
  <2>1. PICK y : Bears(t, y)
    BY <1>7
  <2>2. y \in Entries /\ IsScalar(y) /\ y \in Frame
    BY <2>1, EntryFacts DEF Bears
  <2>3. PICK a, b, m, e, o : Holds(t, Token, "mcp", a, b, m, e) /\ Carries(t, m, Ours, o, y)
    BY <2>1 DEF Bears
  <2>4. /\ Holds(u, Token, "mcp", a, b, m, e) /\ Carries(u, m, Ours, o, x)
        /\ Spliced(t, u, o - 1, o + 1, 2) /\ u[o] = Name(Ours)
    BY <2>2, <2>3, BearsWithOurs
  <2> HIDE DEF x, u
  <2>5. /\ IsText(t) /\ IsText(u)
    BY <2>3, <2>4, HoldsFacts
  <2>6. o \in m + 2 .. e - 2 /\ t[o] = Name(Ours) /\ t[o + 1] = y /\ m \in Int
    BY <2>2, <2>3, CarriesFacts, HoldsFacts
  <2>7. u[o + 1] = x /\ o \in Int
    BY <2>4, <2>6 DEF Carries
  <2>8. t[o] \in Frame /\ t[o + 1] \in Frame /\ u[o] \in Frame /\ u[o + 1] \in Frame
    BY <1>2, <2>2, <2>4, <2>6, <2>7, FrameFacts
  <2>10. Among(u, Frame) = Among(t, Frame)
    BY <2>4, <2>5, <2>7, <2>8, ReplacedAmong
  <2>9. Bears(u, x)
    BY <1>1, <2>4 DEF Bears
  <2> QED
    BY <1>1, <2>9, <2>10 DEF x, u
<1> QED
  BY <1>5, <1>6, <1>7 DEF Good, Plain

(* The text without our entry, before the mcp object may go.               *)
Rest1(t) == DeleteMember(t, McpObject(t), Ours)

LEMMA WithoutOursIs ==
  ASSUME NEW t
  PROVE  /\ McpWasOurs /\ EmptyObject(Rest1(t), McpObject(Rest1(t))) =>
              IsDeleted(WithoutOurs(t), Rest1(t), RootObjectStart(Rest1(t)), "mcp")
         /\ ~(McpWasOurs /\ EmptyObject(Rest1(t), McpObject(Rest1(t)))) => WithoutOurs(t) = Rest1(t)
BY DEF WithoutOurs, Rest1, IsDeleted

LEMMA RestKeeps ==
  ASSUME NEW t, NEW x, Bears(t, x)
  PROVE  Ready(Rest1(t)) /\ Among(Rest1(t), Frame) = Among(t, Frame)
<1>1. x \in Entries /\ IsScalar(x) /\ x \in Frame
  BY EntryFacts DEF Bears
<1>2. PICK a, b, m, e, o : Holds(t, Token, "mcp", a, b, m, e) /\ Carries(t, m, Ours, o, x)
  BY DEF Bears
<1>3. McpObject(t) = m + 1
  BY <1>2, HoldsReads
<1>4. IsDeleted(Rest1(t), t, m + 1, Ours)
  BY <1>3 DEF IsDeleted, Rest1
<1>5. PICK p, q : InnerRemoved(t, Token, Rest1(t), "mcp", Ours, a, b, m, e, p, q, x)
  BY <1>1, <1>2, <1>4, RemoveInner
<1>6. /\ Spliced(t, Rest1(t), p, q, 0)
      /\ Holds(Rest1(t), Token, "mcp", a, b + (0 - (q - p)), m, e + (0 - (q - p))) /\ Free(Rest1(t), m, Ours)
      /\ \A k \in p + 1 .. q : t[k] \in Frame
  BY <1>1, <1>5, FrameFacts DEF InnerRemoved
<1>7. IsText(t) /\ IsText(Rest1(t))
  BY <1>2, <1>6, HoldsFacts
<1>8. Among(Rest1(t), Frame) = Among(t, Frame)
  BY <1>6, <1>7, RemovedAmong
<1> QED
  BY <1>6, <1>8 DEF Ready

(* What uninstall writes bears none, and keeps the rest.                   *)
LEMMA WithoutOursKeeps ==
  ASSUME NEW t, NEW x, Bears(t, x)
  PROVE  Plain(WithoutOurs(t)) /\ Among(WithoutOurs(t), Frame) = Among(t, Frame)
<1> DEFINE r == Rest1(t)
           u == WithoutOurs(t)
<1>1. Ready(r) /\ Among(r, Frame) = Among(t, Frame)
  BY RestKeeps
<1>2. CASE McpWasOurs /\ EmptyObject(r, McpObject(r))
  <2>1. PICK a, b, m, e : Holds(r, Token, "mcp", a, b, m, e) /\ Free(r, m, Ours)
    BY <1>1 DEF Ready
  <2>2. McpObject(r) = m + 1 /\ RootObjectStart(r) = a
    BY <2>1, HoldsReads
  <2>3. IsDeleted(u, r, a, "mcp")
    BY <1>2, <2>2, WithoutOursIs
  <2>4. r[SkipBlanks(r, (m + 1) + 1)] = Close
    BY <1>2, <2>2 DEF EmptyObject
  <2> HIDE DEF r, u
  <2>5. PICK p, q : OuterRemoved(r, Token, u, "mcp", a, b, p, q)
    BY <2>1, <2>3, <2>4, RemoveOuter
  <2>6. /\ Spliced(r, u, p, q, 0) /\ Spare(u, Token, "mcp", a, b + (0 - (q - p)))
        /\ \A k \in p + 1 .. q : r[k] \in Frame
    BY <2>5, FrameFacts DEF OuterRemoved
  <2>7. IsText(r) /\ IsText(u)
    BY <2>1, <2>6, HoldsFacts, SpareFacts
  <2>8. Among(u, Frame) = Among(r, Frame)
    BY <2>6, <2>7, RemovedAmong
  <2> QED
    BY <1>1, <2>6, <2>8 DEF Plain, Bare, u
<1>3. CASE ~(McpWasOurs /\ EmptyObject(r, McpObject(r)))
  <2>1. u = r
    BY <1>3, WithoutOursIs
  <2> QED
    BY <1>1, <2>1 DEF Plain
<1> QED
  BY <1>2, <1>3

LEMMA FreshFacts ==
  Spare(Fresh, Token, "mcp", 1, 2) /\ Among(Fresh, Frame) = {} /\ Plain(Fresh)
<1>1. Fresh \in Seq(Token) /\ Len(Fresh) = 3 /\ DOMAIN Fresh = 1 .. 3
      /\ Fresh[1] = Open /\ Fresh[2] = Close /\ Fresh[3] = Blank
  BY TokenFacts DEF Fresh
<1> HIDE DEF Fresh
<1>2. IsText(Fresh)
  BY <1>1, AnySequence
<1>3. Weight(Open) = 1 /\ Weight(Close) = -1
  BY BracesDiffer DEF Weight
<1>4. Nesting(Fresh, 1, 1) = 1
  BY <1>1, <1>3, NestingOne
<1>5. Nesting(Fresh, 1, 2) = 0
  <2>1. Nesting(Fresh, 1, 2) = Nesting(Fresh, 1, 2 - 1) + Weight(Fresh[2])
    BY NestingNext
  <2> QED
    BY <1>1, <1>3, <1>4, <2>1
<1>6. ObjectAt(Fresh, 1, 2)
  <2>1. \A k \in 1 .. 2 - 1 : k = 1
    OBVIOUS
  <2> QED
    BY <1>1, <1>4, <1>5, <2>1 DEF ObjectAt
<1>7. RootAt(Fresh, 1, 2)
  BY <1>1, <1>6 DEF RootAt
<1>8. Members(Fresh, 1, "mcp") = {}
  <2>1. Members(Fresh, 1, "mcp") = {k \in 1 + 1 .. 2 - 1 : Fresh[k] = Name("mcp") /\ Nesting(Fresh, 1, k) = 1}
    BY <1>2, <1>6, MemberFacts
  <2>2. 1 + 1 .. 2 - 1 = {}
    OBVIOUS
  <2> QED
    BY <2>1, <2>2
<1>9. Valued(Fresh)
  <2>1. ~IsName(Open) /\ ~IsName(Close) /\ ~IsName(Blank)
    BY MarksAreFlat
  <2>2. \A k \in DOMAIN Fresh : ~IsName(Fresh[k])
    BY <1>1, <2>1
  <2> QED
    BY <2>2 DEF Valued
<1>10. Spare(Fresh, Token, "mcp", 1, 2)
  BY <1>1, <1>7, <1>8, <1>9 DEF Spare, Lacks
<1>11. \A k \in DOMAIN Fresh : Fresh[k] \in Frame
  BY <1>1, FrameFacts
<1> QED
  BY <1>10, <1>11, OnlyAmong DEF Plain, Bare

(* A text whose object is empty holds nothing of the user's.               *)
LEMMA EmptyRootAmong ==
  ASSUME NEW t, IsText(t), NEW a, NEW b, RootAt(t, a, b), EmptyObject(t, a)
  PROVE  Among(t, Frame) = {}
<1>1. ObjectAt(t, a, b) /\ \A k \in DOMAIN t : k < a \/ k > b => t[k] = Blank
  BY DEF RootAt
<1>2. t[SkipBlanks(t, a + 1)] = Close
  BY DEF EmptyObject
<1>3. \A k \in a + 1 .. b - 1 : t[k] = Blank
  BY <1>1, <1>2, EmptyIs
<1>4. t[a] = Open /\ t[b] = Close /\ a \in 1 .. Len(t) /\ b \in 1 .. Len(t) /\ DOMAIN t = 1 .. Len(t)
      /\ Len(t) \in Nat
  BY <1>1, ObjectFacts, TextDomain DEF ObjectAt
<1>5. ASSUME NEW k \in DOMAIN t PROVE t[k] \in Frame
  <2>1. k < a \/ k > b \/ k = a \/ k = b \/ k \in a + 1 .. b - 1
    BY <1>4
  <2> QED
    BY <1>1, <1>3, <1>4, <2>1, FrameFacts
<1> QED
  BY <1>5, OnlyAmong

LEMMA PlainEmpty ==
  ASSUME NEW t, Plain(t), EmptyObject(t, RootObjectStart(t))
  PROVE  Among(t, Frame) = {}
<1>1. \E a, b : RootAt(t, a, b) /\ RootObjectStart(t) = a /\ IsText(t)
  <2>1. CASE Bare(t)
    BY <2>1, SpareFacts DEF Bare
  <2>2. CASE Ready(t)
    BY <2>2, HoldsFacts DEF Ready
  <2> QED
    BY <2>1, <2>2 DEF Plain
<1> QED
  BY <1>1, EmptyRootAmong

(* What the user has written bears nothing of ours.                        *)
LEMMA WrittenFacts ==
  ASSUME NEW t \in Written
  PROVE  Plain(t)
<1> DEFINE mcps == Members(t, RootObjectStart(t), "mcp")
<1>1. t \in Seq(Token) /\ IsObject(t)
  BY WrittenAssumption
<1>2. \A k, l \in mcps : k = l /\ t[k + 1] = Open /\ Members(t, k + 1, Ours) = {}
  BY WrittenAssumption
<1>3. IsText(t)
  BY <1>1, AnySequence
<1>4. PICK a, b \in DOMAIN t : RootAt(t, a, b)
  BY <1>1 DEF IsObject
<1>5. RootObjectStart(t) = a
  BY <1>3, <1>4, RootIs
<1>6. Valued(t)
  BY <1>1 DEF IsObject, Valued, IsValue
<1>7. ObjectAt(t, a, b)
  BY <1>4 DEF RootAt
<1>8. CASE mcps = {}
  BY <1>1, <1>4, <1>5, <1>6, <1>8 DEF Plain, Bare, Spare, Lacks
<1>9. CASE mcps # {}
  <2>1. PICK m \in mcps : TRUE
    BY <1>9
  <2>2. Members(t, a, "mcp") = {m}
    BY <1>2, <1>5, <2>1, Zenon
  <2>3. t[m + 1] = Open /\ Members(t, m + 1, Ours) = {}
    BY <1>2, <2>1
  <2>4. m \in a + 1 .. b - 1
    BY <1>3, <1>7, <2>2, MemberFacts
  <2>5. m + 1 \in a + 1 .. b
    BY <1>3, <1>7, <2>4, ObjectFacts
  <2>6. PICK e \in (m + 1) + 1 .. b - 1 : ObjectAt(t, m + 1, e)
    BY <1>3, <1>7, <2>3, <2>5, InnerObject
  <2>7. Hosts(t, "mcp", a, b, m, e)
    BY <1>4, <2>2, <2>6 DEF Hosts
  <2> QED
    BY <1>1, <1>6, <2>3, <2>7 DEF Plain, Ready, Holds, Free
<1> QED
  BY <1>8, <1>9

(***************************************************************************)
(* The edits of the user's.                                                *)
(***************************************************************************)
AddedText(t) == SetMember(t, RootObjectStart(t), Added, <<<<"value", Added>>>>)

LEMMA AddedFacts ==
  /\ Name(Added) # Name("mcp") /\ Name(Added) \in Token
  /\ <<"value", Added>> \in Token /\ IsScalar(<<"value", Added>>)
<1>1. Added # "mcp"
  BY AddedAssumption
<1>2. Name(Added)[2] = Added /\ Name("mcp")[2] = "mcp"
  BY DEF Name
<1>3. <<"value", Added>>[1] = "value"
  OBVIOUS
<1>4. IsScalar(<<"value", Added>>)
  BY <1>3 DEF IsScalar
<1> QED
  BY <1>1, <1>2, <1>4, TokenFacts

LEMMA AddedKeeps ==
  ASSUME NEW t, Good(t)
  PROVE  Good(AddedText(t))
<1> DEFINE u == AddedText(t)
           x == <<"value", Added>>
<1>1. Name(Added) # Name("mcp") /\ Name(Added) \in Token /\ x \in Token /\ IsScalar(x)
      /\ Blank \in Token /\ Comma \in Token
  BY AddedFacts, TokenFacts
<1>2. IsSet(u, t, RootObjectStart(t), Added, <<x>>)
  BY DEF IsSet, AddedText
<1> HIDE DEF u, x
<1>3. CASE Bare(t)
  <2>1. PICK a, b : Spare(t, Token, "mcp", a, b)
    BY <1>3 DEF Bare
  <2>2. IsSet(u, t, a, Added, <<x>>)
    BY <1>2, <2>1, SpareReads
  <2>3. \E b2 : Spare(u, Token, "mcp", a, b2)
    BY <1>1, <2>1, <2>2, SpareChange
  <2> QED
    BY <2>3 DEF Good, Plain, Bare, u
<1>4. CASE Ready(t)
  <2>1. PICK a, b, m, e : Holds(t, Token, "mcp", a, b, m, e) /\ Free(t, m, Ours)
    BY <1>4 DEF Ready
  <2>2. IsSet(u, t, a, Added, <<x>>)
    BY <1>2, <2>1, HoldsReads
  <2>3. \E b2, c : /\ Holds(u, Token, "mcp", a, b2, m + c, e + c)
                   /\ Free(t, m, Ours) => Free(u, m + c, Ours)
                   /\ \A o, y : Carries(t, m, Ours, o, y) /\ IsScalar(y)
                                  => Carries(u, m + c, Ours, o + c, y)
    BY <1>1, <2>1, <2>2, HoldsChange
  <2> QED
    BY <2>1, <2>3 DEF Good, Plain, Ready, u
<1>5. CASE \E y : Bears(t, y)
  <2>1. PICK y : Bears(t, y)
    BY <1>5
  <2>2. y \in Entries /\ IsScalar(y)
    BY <2>1, EntryFacts DEF Bears
  <2>3. PICK a, b, m, e, o : Holds(t, Token, "mcp", a, b, m, e) /\ Carries(t, m, Ours, o, y)
    BY <2>1 DEF Bears
  <2>4. IsSet(u, t, a, Added, <<x>>)
    BY <1>2, <2>3, HoldsReads
  <2>5. \E b2, c : /\ Holds(u, Token, "mcp", a, b2, m + c, e + c)
                   /\ Free(t, m, Ours) => Free(u, m + c, Ours)
                   /\ \A i, z : Carries(t, m, Ours, i, z) /\ IsScalar(z)
                                  => Carries(u, m + c, Ours, i + c, z)
    BY <1>1, <2>3, <2>4, HoldsChange
  <2>6. \E b2, c : Holds(u, Token, "mcp", a, b2, m + c, e + c) /\ Carries(u, m + c, Ours, o + c, y)
    BY <2>2, <2>3, <2>5
  <2>7. Bears(u, y)
    BY <2>2, <2>6 DEF Bears
  <2> QED
    BY <2>7 DEF Good, u
<1> QED
  BY <1>3, <1>4, <1>5 DEF Good, Plain

(* Our entry with another field.                                           *)
Edited(t) == [t EXCEPT ![OurMember(t) + 1] = Entry(@[2], TRUE)]

LEMMA EditedKeeps ==
  ASSUME NEW t, NEW y, Bears(t, y)
  PROVE  Good(Edited(t))
<1> DEFINE x == Entry(y[2], TRUE)
           u == SetMember(t, McpObject(t), Ours, <<x>>)
<1>1. y \in Entries /\ IsScalar(y) /\ y[2] \in Commands
  BY EntryFacts DEF Bears
<1>2. x \in Entries
  BY <1>1, EntryIs
<1>3. x \in Token /\ IsScalar(x)
  BY <1>2, EntryFacts
<1>4. PICK a, b, m, e, o : Holds(t, Token, "mcp", a, b, m, e) /\ Carries(t, m, Ours, o, y)
  BY DEF Bears
<1>5. McpObject(t) = m + 1 /\ OurMember(t) = o /\ t[o + 1] = y
  BY <1>1, <1>4, HoldsReads
<1>6. IsSet(u, t, m + 1, Ours, <<x>>)
  BY <1>5 DEF IsSet
<1>7. Name(Ours) \in Token
  BY TokenFacts
<1>8. Edited(t) = [t EXCEPT ![o + 1] = x]
  BY <1>5 DEF Edited
<1> HIDE DEF x, u
<1>9. /\ Holds(u, Token, "mcp", a, b, m, e) /\ Carries(u, m, Ours, o, x)
      /\ Spliced(t, u, o - 1, o + 1, 2) /\ u[o] = Name(Ours)
  BY <1>1, <1>3, <1>4, <1>6, <1>7, ReplaceInner
<1>10. o \in m + 2 .. e - 2 /\ t[o] = Name(Ours) /\ u[o + 1] = x
  BY <1>1, <1>4, <1>9, CarriesFacts DEF Carries
<1>11. /\ t \in Seq(Token) /\ u \in Seq(Token) /\ Len(t) \in Nat /\ m \in Nat /\ o \in Int
       /\ e \in Int /\ e <= Len(t) /\ DOMAIN t = 1 .. Len(t) /\ DOMAIN u = 1 .. Len(u)
  <2>1. /\ t \in Seq(Token) /\ u \in Seq(Token) /\ Len(t) \in Nat /\ a \in 1 .. Len(t)
        /\ m \in a + 1 .. Len(t) /\ e \in m + 2 .. b - 1 /\ b \in 1 .. Len(t)
    BY <1>4, <1>9, HoldsFacts
  <2>2. IsText(t) /\ IsText(u)
    BY <2>1, AnySequence
  <2>3. DOMAIN t = 1 .. Len(t) /\ DOMAIN u = 1 .. Len(u)
    BY <2>2, TextDomain
  <2>4. m \in Nat /\ e \in Int /\ e <= Len(t)
    BY <2>1
  <2>5. o \in Int
    BY <2>4, <1>10
  <2> QED
    BY <2>1, <2>3, <2>4, <2>5
<1>12. o + 1 \in DOMAIN t /\ o \in 1 .. Len(t)
  BY <1>10, <1>11
<1>13. Len(u) = Len(t) /\ (\A k \in 1 .. o - 1 : u[k] = t[k]) /\ (\A k \in o + 2 .. Len(t) : u[k] = t[k])
  <2>1. /\ Len(u) = Len(t) + 2 - ((o + 1) - (o - 1)) /\ (\A k \in 1 .. o - 1 : u[k] = t[k])
        /\ \A k \in (o + 1) + 1 .. Len(t) : u[k + (2 - ((o + 1) - (o - 1)))] = t[k]
    BY <1>9 DEF Spliced
  <2>2. (o + 1) - (o - 1) = 2
    BY <1>11
  <2>3. Len(u) = Len(t)
    BY <2>1, <2>2, <1>11
  <2>4. \A k \in o + 2 .. Len(t) : u[k] = t[k]
    <3> TAKE k \in o + 2 .. Len(t)
    <3>1. k \in (o + 1) + 1 .. Len(t) /\ k + (2 - 2) = k
      BY <1>11
    <3> QED
      BY <2>1, <2>2, <3>1
  <2> QED
    BY <2>1, <2>3, <2>4
<1>14. ASSUME NEW k \in 1 .. Len(t) PROVE [t EXCEPT ![o + 1] = x][k] = u[k]
  <2>1. CASE k = o + 1
    BY <1>10, <1>11, <2>1
  <2>2. CASE k # o + 1
    <3>1. [t EXCEPT ![o + 1] = x][k] = t[k]
      BY <1>11, <2>2
    <3>2. k = o \/ k \in 1 .. o - 1 \/ k \in o + 2 .. Len(t)
      BY <1>11, <2>2
    <3> QED
      BY <1>9, <1>10, <1>13, <3>1, <3>2
  <2> QED
    BY <2>1, <2>2
<1>15. Edited(t) \in Seq(Token) /\ Len(Edited(t)) = Len(t)
  BY <1>3, <1>8, <1>11, <1>12
<1>16. Edited(t) = u
  <2>1. \A k \in 1 .. Len(t) : Edited(t)[k] = u[k]
    BY <1>8, <1>14
  <2> QED
    BY <1>11, <1>13, <1>15, <2>1, SeqEqual
<1> QED
  BY <1>2, <1>9, <1>16 DEF Good, Bears

LEMMA UserFacts ==
  ASSUME NEW t, t \in EditedConfigs, Parses(config) => Good(config)
  PROVE  t = None \/ t = Unparsable \/ Good(t)
<1>1. CASE ~Parses(config)
  <2>1. t \in {None, Unparsable} \/ t \in Written
    BY <1>1 DEF EditedConfigs
  <2> QED
    BY <2>1, WrittenFacts DEF Good
<1>2. CASE Parses(config)
  <2>1. \/ t \in {None, Unparsable} \/ t = AddedText(config)
        \/ OurMember(config) # 0 /\ (t = Edited(config) \/ t = Rest1(config))
    BY <1>2, Zenon DEF EditedConfigs, AddedText, Edited, Rest1
  <2>2. CASE t = AddedText(config)
    BY <1>2, <2>2, AddedKeeps
  <2>3. CASE OurMember(config) # 0 /\ (t = Edited(config) \/ t = Rest1(config))
    <3>1. Bears(config, config[OurMember(config) + 1])
      BY <1>2, <2>3, GoodReads
    <3>2. Good(Edited(config)) /\ Good(Rest1(config))
      BY <3>1, EditedKeeps, RestKeeps DEF Good, Plain
    <3> QED
      BY <2>3, <3>2
  <2> QED
    BY <2>1, <2>2, <2>3
<1> QED
  BY <1>1, <1>2

Places == {"idle", "read", "add", "remove", "write", "discard", "report"}
Busy == Places \ {"idle", "report"}
Verbs == {"none", "install", "uninstall"}
Statuses ==
  {"none", "not-installed", "registered", "already-registered", "failed", "refused", "removed",
   "not-registered"}
Lists == {<<"claude", "codex", "opencode">>, <<"codex", "opencode">>, <<"opencode">>, <<>>}
Waiting(todo) == {todo[i] : i \in DOMAIN todo}
Lines == [command : Commands, plain : BOOLEAN]

LEMMA ListFacts ==
  /\ HARNESSES \in Lists /\ HARNESSES # <<>> /\ Waiting(HARNESSES) = Harness /\ Waiting(<<>>) = {}
  /\ \A todo \in Lists : todo # <<>> =>
       /\ Head(todo) \in Waiting(todo) /\ Head(todo) \in Harness /\ Tail(todo) \in Lists
       /\ Waiting(Tail(todo)) = Waiting(todo) \ {Head(todo)}
       /\ (Len(todo) = 1 <=> Tail(todo) = <<>>)
       /\ (Head(todo) = "opencode" <=> todo = <<"opencode">>)
       /\ (Head(todo) = "opencode" <=> Len(todo) = 1)
<1> DEFINE T3 == <<"claude", "codex", "opencode">>
           T2 == <<"codex", "opencode">>
           T1 == <<"opencode">>
<1>1. Waiting(T3) = Harness
  <2>1. DOMAIN T3 = {1, 2, 3} /\ T3[1] = "claude" /\ T3[2] = "codex" /\ T3[3] = "opencode"
    OBVIOUS
  <2> HIDE DEF T3
  <2> QED
    BY <2>1 DEF Waiting, Harness, Cli
<1>2. Waiting(T2) = {"codex", "opencode"}
  <2>1. DOMAIN T2 = {1, 2} /\ T2[1] = "codex" /\ T2[2] = "opencode"
    OBVIOUS
  <2> HIDE DEF T2
  <2> QED
    BY <2>1 DEF Waiting
<1>3. Waiting(T1) = {"opencode"}
  <2>1. DOMAIN T1 = {1} /\ T1[1] = "opencode"
    OBVIOUS
  <2> HIDE DEF T1
  <2> QED
    BY <2>1 DEF Waiting
<1>4. Waiting(<<>>) = {}
  BY DEF Waiting
<1>5. /\ Head(T3) = "claude" /\ Tail(T3) = T2 /\ Len(T3) = 3 /\ T3 # T1 /\ T3 # <<>>
      /\ Head(T2) = "codex" /\ Tail(T2) = T1 /\ Len(T2) = 2 /\ T2 # T1 /\ T2 # <<>>
      /\ Head(T1) = "opencode" /\ Tail(T1) = <<>> /\ Len(T1) = 1 /\ T1 # <<>>
  OBVIOUS
<1>6. HARNESSES = T3 /\ Lists = {T3, T2, T1, <<>>}
  BY DEF HARNESSES, Lists
<1>7. Harness = {"claude", "codex", "opencode"}
  BY DEF Harness, Cli
<1>10. <<"opencode">> = T1
  OBVIOUS
<1> HIDE DEF T3, T2, T1
<1>11. /\ {"codex", "opencode"} = Harness \ {"claude"}
       /\ {"opencode"} = {"codex", "opencode"} \ {"codex"} /\ {} = {"opencode"} \ {"opencode"}
  BY <1>7
<1>8. HARNESSES \in Lists /\ HARNESSES # <<>> /\ Waiting(HARNESSES) = Harness
  BY <1>1, <1>5, <1>6
<1>9. ASSUME NEW todo \in Lists, todo # <<>>
      PROVE  /\ Head(todo) \in Waiting(todo) /\ Head(todo) \in Harness /\ Tail(todo) \in Lists
             /\ Waiting(Tail(todo)) = Waiting(todo) \ {Head(todo)}
             /\ (Len(todo) = 1 <=> Tail(todo) = <<>>)
             /\ (Head(todo) = "opencode" <=> todo = <<"opencode">>)
             /\ (Head(todo) = "opencode" <=> Len(todo) = 1)
  <2>1. CASE todo = T3
    <3>1. Head(todo) = "claude" /\ Tail(todo) = T2 /\ Len(todo) = 3 /\ T2 # <<>>
          /\ todo # <<"opencode">>
      BY <1>5, <1>10, <2>1
    <3>2. Head(todo) \in Waiting(todo) /\ Head(todo) \in Harness /\ Tail(todo) \in Lists
      BY <1>1, <1>6, <1>7, <2>1, <3>1
    <3>3. Waiting(Tail(todo)) = Waiting(todo) \ {Head(todo)}
      BY <1>1, <1>2, <1>11, <2>1, <3>1
    <3>4. ~(Tail(todo) = <<>>) /\ Head(todo) # "opencode"
      BY <3>1, Zenon
    <3>5. Len(todo) # 1
      BY <3>1
    <3> QED
      BY <3>1, <3>2, <3>3, <3>4, <3>5, Zenon
  <2>2. CASE todo = T2
    <3>1. Head(todo) = "codex" /\ Tail(todo) = T1 /\ Len(todo) = 2 /\ T1 # <<>>
          /\ todo # <<"opencode">>
      BY <1>5, <1>10, <2>2
    <3>2. Head(todo) \in Waiting(todo) /\ Head(todo) \in Harness /\ Tail(todo) \in Lists
      BY <1>2, <1>6, <1>7, <2>2, <3>1
    <3>3. Waiting(Tail(todo)) = Waiting(todo) \ {Head(todo)}
      BY <1>2, <1>3, <1>11, <2>2, <3>1
    <3>4. ~(Tail(todo) = <<>>) /\ Head(todo) # "opencode"
      BY <3>1, Zenon
    <3>5. Len(todo) # 1
      BY <3>1
    <3> QED
      BY <3>1, <3>2, <3>3, <3>4, <3>5, Zenon
  <2>3. CASE todo = T1
    BY <1>3, <1>4, <1>5, <1>6, <1>7, <1>10, <1>11, <2>3
  <2> QED
    BY <1>6, <1>9, <2>1, <2>2, <2>3
<1> QED
  BY <1>4, <1>8, <1>9

(* The types, opencode.json and the job included.                          *)
HarnessTypeOK ==
  /\ onPath \subseteq Harness /\ here \in Commands
  /\ entry \in [Cli -> {None} \cup Lines]
  /\ config \in {None, Unparsable} \/ Good(config)
  /\ job \in [at : Places, verb : Verbs, todo : Lists, text : {None} \cup Seq(Token),
              results : [Harness -> Statuses]]

(* Where a command can be, and what holds there.                           *)
JobInv ==
  /\ job.at = "idle" => job = Idle
  /\ job.at # "idle" => job.verb # "none"
  /\ job.at \in Busy => job.todo # <<>>
  /\ job.at = "report" => job.todo = <<>>
  /\ job.at \in {"add", "remove"} => job.verb = "install" /\ Now \in Cli \cap onPath
  /\ job.at \in {"write", "discard"} => Now = "opencode"
  /\ job.at = "discard" => job.verb = "uninstall" /\ Plain(config)

(* What may be said of a harness that a command has passed.                *)
Claim(h) ==
  /\ job.results[h] \in {"registered", "already-registered"} => Read(h) = here
  /\ job.results[h] \in {"removed", "not-registered"} => Read(h) = None
  /\ job.verb = "install" /\ h \in onPath =>
       job.results[h] \in {"registered", "already-registered", "failed", "refused"}

ClaimInv ==
  job.at # "idle" =>
    \A h \in Harness :
      IF h \in Waiting(job.todo) THEN job.results[h] = "none" ELSE Claim(h)

(* The text has of the user's what the file has.                           *)
Same(text) ==
  \/ config = None /\ Among(text, Frame) = {}
  \/ Good(config) /\ Among(text, Frame) = Among(config, Frame)

(* What is about to be written.                                            *)
WriteInv ==
  job.at = "write" =>
    /\ Good(job.text) /\ Same(job.text)
    /\ job.verb = "install" => \E x : Bears(job.text, x) /\ x[2] = here
    /\ job.verb = "uninstall" => Plain(job.text)

HarnessInv == HarnessTypeOK /\ JobInv /\ ClaimInv /\ WriteInv

LEMMA IdleFacts ==
  /\ Idle \in [at : Places, verb : Verbs, todo : Lists, text : {None} \cup Seq(Token),
               results : [Harness -> Statuses]]
  /\ Idle.at = "idle" /\ Idle.todo = <<>>
BY DEF Idle, Places, Verbs, Lists, Statuses

(* A state in which no command runs.                                       *)
LEMMA AtRestKeeps ==
  ASSUME job' = Idle, onPath' \subseteq Harness, here' \in Commands,
         entry' \in [Cli -> {None} \cup Lines], config' \in {None, Unparsable} \/ Good(config')
  PROVE  HarnessInv'
<1>1. job'.at = "idle"
  BY IdleFacts
<1>2. HarnessTypeOK'
  BY IdleFacts DEF HarnessTypeOK
<1>3. JobInv' /\ ClaimInv' /\ WriteInv'
  BY <1>1 DEF JobInv, ClaimInv, WriteInv, Busy
<1> QED
  BY <1>2, <1>3 DEF HarnessInv

(* The initial states.                                                     *)
LEMMA HarnessBegins == HarnessInit => HarnessInv
<1> SUFFICES ASSUME HarnessInit PROVE HarnessInv
  OBVIOUS
<1>1. job = Idle /\ onPath \subseteq Harness /\ here \in Commands /\ entry \in [Cli -> {None} \cup Lines]
      /\ config \in Written \cup {None, Unparsable}
  BY DEF HarnessInit
<1>2. config \in {None, Unparsable} \/ Good(config)
  BY <1>1, WrittenFacts DEF Good
<1>3. job.at = "idle"
  BY <1>1, IdleFacts
<1>4. HarnessTypeOK
  BY <1>1, <1>2, IdleFacts DEF HarnessTypeOK
<1>5. JobInv /\ ClaimInv /\ WriteInv
  BY <1>1, <1>3 DEF JobInv, ClaimInv, WriteInv, Busy
<1> QED
  BY <1>4, <1>5 DEF HarnessInv

(* What is read of the harnesses that a step does not touch.               *)
LEMMA ReadSame ==
  ASSUME entry' = entry, config' = config
  PROVE  \A h \in Harness : Read(h)' = Read(h)
BY DEF Read, ReadCli, ReadOpencode

LEMMA ReadEntries ==
  ASSUME NEW n \in Cli, NEW v, entry' = [entry EXCEPT ![n] = v], config' = config,
         entry \in [Cli -> {None} \cup Lines]
  PROVE  \A h \in Harness \ {n} : Read(h)' = Read(h)
<1> TAKE h \in Harness \ {n}
<1>1. CASE h = "opencode"
  BY <1>1 DEF Read, ReadOpencode
<1>2. CASE h # "opencode"
  <2>1. h \in Cli
    BY <1>2 DEF Harness
  <2>2. entry'[h] = entry[h]
    BY <2>1
  <2> QED
    BY <1>2, <2>2 DEF Read, ReadCli
<1> QED
  BY <1>1, <1>2

LEMMA ReadConfig ==
  ASSUME entry' = entry
  PROVE  \A h \in Harness \ {"opencode"} : Read(h)' = Read(h)
BY DEF Read, ReadCli

(* A result.                                                               *)
LEMMA ResultKeeps ==
  ASSUME HarnessInv, job.at \in Busy, NEW n, n = Now, NEW status \in Statuses, Result(status),
         onPath' = onPath, here' = here,
         \A h \in Harness \ {n} : Read(h)' = Read(h),
         status \in {"registered", "already-registered"} => Read(n)' = here,
         status \in {"removed", "not-registered"} => Read(n)' = None,
         job.verb = "install" /\ n \in onPath =>
            status \in {"registered", "already-registered", "failed", "refused"}
  PROVE  /\ job' \in [at : Places, verb : Verbs, todo : Lists, text : {None} \cup Seq(Token),
                      results : [Harness -> Statuses]]
         /\ JobInv' /\ ClaimInv' /\ WriteInv'
<1>0. /\ job \in [at : Places, verb : Verbs, todo : Lists, text : {None} \cup Seq(Token),
                  results : [Harness -> Statuses]]
      /\ job.todo # <<>> /\ job.verb # "none" /\ job.at # "idle"
  BY DEF HarnessInv, HarnessTypeOK, JobInv, Busy
<1>1. job' = [job EXCEPT !.at = IF Len(job.todo) = 1 THEN "report" ELSE "read",
                         !.todo = Tail(@), !.text = None, !.results[n] = status]
  BY DEF Result, WithResult
<1>2. /\ n \in Waiting(job.todo) /\ n \in Harness /\ Tail(job.todo) \in Lists
      /\ Waiting(Tail(job.todo)) = Waiting(job.todo) \ {n}
      /\ (Len(job.todo) = 1 <=> Tail(job.todo) = <<>>)
  BY <1>0, ListFacts DEF Now
<1>3. /\ job'.at \in {"report", "read"} /\ job'.verb = job.verb /\ job'.todo = Tail(job.todo)
      /\ job'.at = "report" <=> Tail(job.todo) = <<>>
      /\ job'.text = None /\ job'.results = [job.results EXCEPT ![n] = status]
  BY <1>0, <1>1, <1>2
<1>4. job' \in [at : Places, verb : Verbs, todo : Lists, text : {None} \cup Seq(Token),
                results : [Harness -> Statuses]]
  <2>1. [job.results EXCEPT ![n] = status] \in [Harness -> Statuses]
    BY <1>0, <1>2
  <2> QED
    BY <1>0, <1>1, <1>2, <2>1 DEF Places
<1>5. JobInv'
  BY <1>0, <1>2, <1>3 DEF JobInv, Busy
<1>6. ASSUME NEW h \in Harness
      PROVE  (IF h \in Waiting(job.todo) THEN job.results[h] = "none" ELSE Claim(h))'
  <2>1. CASE h = n
    <3>1. h \notin Waiting(job'.todo) /\ job'.results[h] = status
      BY <1>0, <1>2, <1>3, <2>1
    <3>2. Claim(h)'
      BY <1>3, <2>1, <3>1 DEF Claim
    <3> QED
      BY <3>1, <3>2
  <2>2. CASE h # n
    <3>1. /\ h \in Waiting(job'.todo) <=> h \in Waiting(job.todo)
          /\ job'.results[h] = job.results[h]
      BY <1>0, <1>2, <1>3, <2>2
    <3>2. IF h \in Waiting(job.todo) THEN job.results[h] = "none" ELSE Claim(h)
      BY <1>0 DEF HarnessInv, ClaimInv
    <3>3. Read(h)' = Read(h)
      BY <2>2
    <3>4. Claim(h) => Claim(h)'
      BY <1>3, <3>1, <3>3 DEF Claim
    <3> QED
      BY <3>1, <3>2, <3>4
  <2> QED
    BY <2>1, <2>2
<1>7. ClaimInv'
  BY <1>6 DEF ClaimInv
<1>8. WriteInv'
  BY <1>3 DEF WriteInv
<1> QED
  BY <1>4, <1>5, <1>7, <1>8

(* A step on the way to a result.                                          *)
LEMMA MoveKeeps ==
  ASSUME HarnessInv, job.at \in Busy, NEW n, n = Now,
         job'.at \in {"add", "remove", "write", "discard"}, job'.verb = job.verb,
         job'.todo = job.todo, job'.results = job.results,
         onPath' = onPath, here' = here,
         \A h \in Harness \ {n} : Read(h)' = Read(h),
         job'.at \in {"add", "remove"} => job.verb = "install" /\ n \in Cli \cap onPath,
         job'.at \in {"write", "discard"} => n = "opencode",
         job'.at = "discard" => job.verb = "uninstall" /\ Plain(config')
  PROVE  JobInv' /\ ClaimInv'
<1>1. job.todo \in Lists /\ job.todo # <<>> /\ job.verb # "none" /\ job.at # "idle"
  BY DEF HarnessInv, HarnessTypeOK, JobInv, Busy
<1>2. n \in Waiting(job.todo)
  BY <1>1, ListFacts DEF Now
<1>3. n = Head(job'.todo)
  BY DEF Now
<1>4. JobInv'
  BY <1>1, <1>3 DEF JobInv, Now, Busy
<1>5. ASSUME NEW h \in Harness
      PROVE  (IF h \in Waiting(job.todo) THEN job.results[h] = "none" ELSE Claim(h))'
  <2>1. IF h \in Waiting(job.todo) THEN job.results[h] = "none" ELSE Claim(h)
    BY <1>1 DEF HarnessInv, ClaimInv
  <2>2. CASE h \in Waiting(job.todo)
    BY <2>1, <2>2
  <2>3. CASE h \notin Waiting(job.todo)
    <3>1. Read(h)' = Read(h)
      BY <1>2, <2>3
    <3> QED
      BY <2>1, <2>3, <3>1 DEF Claim
  <2> QED
    BY <2>2, <2>3
<1> QED
  BY <1>4, <1>5 DEF ClaimInv

LEMMA BeginKeeps ==
  ASSUME HarnessInv, NEW verb \in {"install", "uninstall"}, Begin(verb)
  PROVE  HarnessInv'
<1>1. job' = [Idle EXCEPT !.at = "read", !.verb = verb, !.todo = HARNESSES]
  BY DEF Begin
<1>2. onPath' = onPath /\ here' = here /\ entry' = entry /\ config' = config
  BY DEF Begin
<1>3. HARNESSES \in Lists /\ HARNESSES # <<>> /\ Waiting(HARNESSES) = Harness
  BY ListFacts
<1>4. /\ job' \in [at : Places, verb : Verbs, todo : Lists, text : {None} \cup Seq(Token),
                   results : [Harness -> Statuses]]
      /\ job'.at = "read" /\ job'.verb = verb /\ job'.todo = HARNESSES
      /\ job'.results = [h \in Harness |-> "none"]
  BY <1>1, <1>3, IdleFacts DEF Idle, Places, Verbs
<1>5. HarnessTypeOK'
  BY <1>2, <1>4 DEF HarnessInv, HarnessTypeOK
<1>6. JobInv' /\ WriteInv'
  BY <1>3, <1>4 DEF JobInv, WriteInv, Busy
<1>7. ClaimInv'
  BY <1>3, <1>4 DEF ClaimInv
<1> QED
  BY <1>5, <1>6, <1>7 DEF HarnessInv

(* What a step has to show, besides the job.                               *)
LEMMA StepKeeps ==
  ASSUME onPath' \subseteq Harness, here' \in Commands, entry' \in [Cli -> {None} \cup Lines],
         config' \in {None, Unparsable} \/ Good(config'),
         job' \in [at : Places, verb : Verbs, todo : Lists, text : {None} \cup Seq(Token),
                   results : [Harness -> Statuses]],
         JobInv', ClaimInv', WriteInv'
  PROVE  HarnessInv'
BY DEF HarnessInv, HarnessTypeOK

LEMMA ReadEntry ==
  ASSUME NEW n \in Cli, entry \in [Cli -> {None} \cup Lines], here \in Commands, here' = here
  PROVE  /\ entry' = [entry EXCEPT ![n] = None] => Read(n)' = None
         /\ entry' = [entry EXCEPT ![n] = [command |-> here, plain |-> TRUE]] => Read(n)' = here
<1>1. n # "opencode"
  BY DEF Cli
<1>2. ASSUME entry' = [entry EXCEPT ![n] = None] PROVE Read(n)' = None
  <2>1. entry'[n] = None
    BY <1>2
  <2> QED
    BY <1>1, <2>1 DEF Read, ReadCli
<1>3. ASSUME entry' = [entry EXCEPT ![n] = [command |-> here, plain |-> TRUE]]
      PROVE  Read(n)' = here
  <2> DEFINE line == [command |-> here, plain |-> TRUE]
  <2>1. line \in Lines /\ line.plain /\ line.command = here
    BY DEF Lines
  <2>2. line # None
    BY <2>1, CommandsAssumption DEF Lines
  <2>3. entry'[n] = line
    BY <1>3
  <2> HIDE DEF line
  <2>4. Read(n)' = IF entry'[n] # None /\ entry'[n].plain THEN entry'[n].command ELSE None
    BY <1>1 DEF Read, ReadCli
  <2> QED
    BY <2>1, <2>2, <2>3, <2>4
<1> QED
  BY <1>2, <1>3

(* What may be said of harness n.                                          *)
Says(n, status) ==
  /\ status \in Statuses
  /\ status \in {"registered", "already-registered"} => Read(n) = here
  /\ status \in {"removed", "not-registered"} => Read(n) = None
  /\ job.verb = "install" /\ n \in onPath =>
       status \in {"registered", "already-registered", "failed", "refused"}

LEMMA ResultStep ==
  ASSUME HarnessInv, job.at \in Busy, NEW n, n = Now, NEW status, Result(status),
         job'.verb = job.verb => Says(n, status)',
         onPath' = onPath, here' = here, entry' \in [Cli -> {None} \cup Lines],
         config' \in {None, Unparsable} \/ Good(config'),
         \A h \in Harness \ {n} : Read(h)' = Read(h)
  PROVE  HarnessInv'
<1>1. job'.verb = job.verb
  BY DEF HarnessInv, HarnessTypeOK, Result, WithResult
<1>2. /\ status \in Statuses
      /\ status \in {"registered", "already-registered"} => Read(n)' = here
      /\ status \in {"removed", "not-registered"} => Read(n)' = None
      /\ job.verb = "install" /\ n \in onPath =>
           status \in {"registered", "already-registered", "failed", "refused"}
  BY <1>1 DEF Says
<1>3. /\ job' \in [at : Places, verb : Verbs, todo : Lists, text : {None} \cup Seq(Token),
                   results : [Harness -> Statuses]]
      /\ JobInv' /\ ClaimInv' /\ WriteInv'
  BY <1>2, ResultKeeps
<1>4. onPath' \subseteq Harness /\ here' \in Commands
  BY DEF HarnessInv, HarnessTypeOK
<1> QED
  BY <1>3, <1>4, StepKeeps

LEMMA SetupCliKeeps ==
  ASSUME HarnessInv, SetupCli
  PROVE  HarnessInv'
<1>8. PICK n : n = Now
  OBVIOUS
<1>1. /\ job.verb = "install" /\ job.at = "read" /\ job.at \in Busy /\ n \in Cli
      /\ onPath' = onPath /\ here' = here /\ entry' = entry /\ config' = config
  BY <1>8 DEF SetupCli, Doing, Busy, Places
<1>2. /\ onPath \subseteq Harness /\ here \in Commands /\ entry \in [Cli -> {None} \cup Lines]
      /\ config \in {None, Unparsable} \/ Good(config)
      /\ job \in [at : Places, verb : Verbs, todo : Lists, text : {None} \cup Seq(Token),
                  results : [Harness -> Statuses]]
  BY DEF HarnessInv, HarnessTypeOK
<1>3. \A h \in Harness : Read(h)' = Read(h)
  BY <1>1, ReadSame
<1>4. n \in Harness /\ n # "opencode"
  BY <1>1 DEF Harness, Cli
<1>5. Read(n) = ReadCli(n)
  BY <1>4 DEF Read
<1>6. \/ n \notin onPath /\ Result("not-installed")
      \/ n \in onPath /\ ReadCli(n) = here /\ Result("already-registered")
      \/ n \in onPath /\ job' = [job EXCEPT !.at = "add"]
      \/ n \in onPath /\ job' = [job EXCEPT !.at = "remove"]
  BY <1>8 DEF SetupCli, SameCommand
<1>9. CASE n \notin onPath /\ Result("not-installed")
  <2>1. Says(n, "not-installed")'
    BY <1>1, <1>9 DEF Says, Statuses
  <2> QED
    BY <1>1, <1>2, <1>3, <1>8, <1>9, <2>1, ResultStep
<1>10. CASE n \in onPath /\ ReadCli(n) = here /\ Result("already-registered")
  <2>1. Read(n)' = here
    BY <1>3, <1>4, <1>5, <1>10
  <2>2. Says(n, "already-registered")'
    BY <1>1, <2>1 DEF Says, Statuses
  <2> QED
    BY <1>1, <1>2, <1>3, <1>8, <1>10, <2>2, ResultStep
<1>11. ASSUME NEW at \in {"add", "remove"}, n \in onPath, job' = [job EXCEPT !.at = at]
       PROVE  HarnessInv'
  <2>1. /\ job' \in [at : Places, verb : Verbs, todo : Lists, text : {None} \cup Seq(Token),
                     results : [Harness -> Statuses]]
        /\ job'.at = at /\ job'.verb = job.verb /\ job'.todo = job.todo /\ job'.results = job.results
    BY <1>2, <1>11 DEF Places
  <2>2. JobInv' /\ ClaimInv'
    BY <1>1, <1>3, <1>8, <1>11, <2>1, MoveKeeps
  <2>3. WriteInv'
    BY <1>11, <2>1 DEF WriteInv
  <2> QED
    BY <1>1, <1>2, <2>1, <2>2, <2>3, StepKeeps
<1> QED
  BY <1>6, <1>9, <1>10, <1>11

LEMMA ReplaceOldKeeps ==
  ASSUME HarnessInv, ReplaceOld
  PROVE  HarnessInv'
<1>1. PICK n : n = Now
  OBVIOUS
<1>2. /\ job.verb = "install" /\ job.at = "remove" /\ job.at \in Busy
      /\ onPath' = onPath /\ here' = here /\ config' = config
  BY DEF ReplaceOld, Doing, Busy, Places
<1>3. /\ onPath \subseteq Harness /\ here \in Commands /\ entry \in [Cli -> {None} \cup Lines]
      /\ config \in {None, Unparsable} \/ Good(config)
      /\ job \in [at : Places, verb : Verbs, todo : Lists, text : {None} \cup Seq(Token),
                  results : [Harness -> Statuses]]
      /\ n \in Cli /\ n \in onPath
  BY <1>1, <1>2 DEF HarnessInv, HarnessTypeOK, JobInv
<1>4. CASE entry' = [entry EXCEPT ![n] = None] /\ job' = [job EXCEPT !.at = "add"]
  <2>1. /\ job' \in [at : Places, verb : Verbs, todo : Lists, text : {None} \cup Seq(Token),
                     results : [Harness -> Statuses]]
        /\ job'.at = "add" /\ job'.verb = job.verb /\ job'.todo = job.todo
        /\ job'.results = job.results
    BY <1>3, <1>4 DEF Places
  <2>2. \A h \in Harness \ {n} : Read(h)' = Read(h)
    BY <1>2, <1>3, <1>4, ReadEntries
  <2>3. JobInv' /\ ClaimInv'
    BY <1>1, <1>2, <1>3, <2>1, <2>2, MoveKeeps
  <2>4. WriteInv'
    BY <2>1 DEF WriteInv
  <2>5. entry' \in [Cli -> {None} \cup Lines]
    BY <1>3, <1>4
  <2> QED
    BY <1>2, <1>3, <2>1, <2>3, <2>4, <2>5, StepKeeps
<1>5. CASE Result("failed") /\ entry' = entry
  <2>1. \A h \in Harness : Read(h)' = Read(h)
    BY <1>2, <1>5, ReadSame
  <2>2. Says(n, "failed")'
    BY DEF Says, Statuses
  <2> QED
    BY <1>1, <1>2, <1>3, <1>5, <2>1, <2>2, ResultStep
<1> QED
  BY <1>1, <1>4, <1>5 DEF ReplaceOld

LEMMA AddEntryKeeps ==
  ASSUME HarnessInv, AddEntry
  PROVE  HarnessInv'
<1> DEFINE line == [command |-> here, plain |-> TRUE]
<1>1. PICK n : n = Now
  OBVIOUS
<1>2. /\ job.verb = "install" /\ job.at = "add" /\ job.at \in Busy
      /\ onPath' = onPath /\ here' = here /\ config' = config
  BY DEF AddEntry, Doing, Busy, Places
<1>3. /\ here \in Commands /\ entry \in [Cli -> {None} \cup Lines]
      /\ config \in {None, Unparsable} \/ Good(config)
      /\ n \in Cli
  BY <1>1, <1>2 DEF HarnessInv, HarnessTypeOK, JobInv
<1>4. CASE entry' = [entry EXCEPT ![n] = line] /\ Result("registered")
  <2>1. Read(n)' = here
    BY <1>2, <1>3, <1>4, ReadEntry
  <2>2. \A h \in Harness \ {n} : Read(h)' = Read(h)
    BY <1>2, <1>3, <1>4, ReadEntries
  <2>3. line \in Lines
    BY <1>3 DEF Lines
  <2> HIDE DEF line
  <2>4. entry' \in [Cli -> {None} \cup Lines]
    BY <1>3, <1>4, <2>3
  <2>5. Says(n, "registered")'
    BY <1>2, <2>1 DEF Says, Statuses
  <2> QED
    BY <1>1, <1>2, <1>3, <1>4, <2>2, <2>4, <2>5, ResultStep
<1>5. CASE Result("failed") /\ entry' = entry
  <2>1. \A h \in Harness : Read(h)' = Read(h)
    BY <1>2, <1>5, ReadSame
  <2>2. Says(n, "failed")'
    BY DEF Says, Statuses
  <2> QED
    BY <1>1, <1>2, <1>3, <1>5, <2>1, <2>2, ResultStep
<1> QED
  BY <1>1, <1>4, <1>5 DEF AddEntry

LEMMA RemoveCliKeeps ==
  ASSUME HarnessInv, RemoveCli
  PROVE  HarnessInv'
<1>1. PICK n : n = Now
  OBVIOUS
<1>2. /\ job.verb = "uninstall" /\ job.at = "read" /\ job.at \in Busy /\ n \in Cli
      /\ onPath' = onPath /\ here' = here /\ config' = config
  BY <1>1 DEF RemoveCli, Doing, Busy, Places
<1>3. /\ here \in Commands /\ entry \in [Cli -> {None} \cup Lines]
      /\ config \in {None, Unparsable} \/ Good(config)
      /\ job \in [at : Places, verb : Verbs, todo : Lists, text : {None} \cup Seq(Token),
                  results : [Harness -> Statuses]]
  BY DEF HarnessInv, HarnessTypeOK
<1>4. n \in Harness /\ Read(n) = ReadCli(n)
  BY <1>2 DEF Read, Harness, Cli
<1>5. ASSUME NEW status \in {"not-registered", "failed"}, Result(status), entry' = entry,
             status = "not-registered" => ReadCli(n) = None
      PROVE  HarnessInv'
  <2>1. \A h \in Harness : Read(h)' = Read(h)
    BY <1>2, <1>5, ReadSame
  <2>2. status = "not-registered" => Read(n)' = None
    BY <1>4, <1>5, <2>1
  <2>3. job'.verb = job.verb
    BY <1>3, <1>5 DEF Result, WithResult
  <2>4. Says(n, status)'
    BY <1>2, <1>5, <2>2, <2>3 DEF Says, Statuses
  <2> QED
    BY <1>1, <1>2, <1>3, <1>5, <2>1, <2>4, ResultStep
<1>6. CASE Result("removed") /\ entry' = [entry EXCEPT ![n] = None]
  <2>1. Read(n)' = None
    BY <1>2, <1>3, <1>6, ReadEntry
  <2>2. \A h \in Harness \ {n} : Read(h)' = Read(h)
    BY <1>2, <1>3, <1>6, ReadEntries
  <2>3. entry' \in [Cli -> {None} \cup Lines]
    BY <1>3, <1>6
  <2>4. job'.verb = job.verb
    BY <1>3, <1>6 DEF Result, WithResult
  <2>5. Says(n, "removed")'
    BY <1>2, <2>1, <2>4 DEF Says, Statuses
  <2> QED
    BY <1>1, <1>2, <1>3, <1>6, <2>2, <2>3, <2>5, ResultStep
<1> QED
  BY <1>1, <1>5, <1>6 DEF RemoveCli

LEMMA DiscardBackupKeeps ==
  ASSUME HarnessInv, DiscardBackup
  PROVE  HarnessInv'
<1>1. PICK n : n = Now
  OBVIOUS
<1>2. /\ job.at = "discard" /\ job.at \in Busy
      /\ onPath' = onPath /\ here' = here /\ entry' = entry /\ config' = config /\ Result("removed")
  BY DEF DiscardBackup, Busy, Places
<1>3. /\ entry \in [Cli -> {None} \cup Lines]
      /\ config \in {None, Unparsable} \/ Good(config)
      /\ job.verb = "uninstall" /\ n = "opencode" /\ Plain(config)
      /\ job \in [at : Places, verb : Verbs, todo : Lists, text : {None} \cup Seq(Token),
                  results : [Harness -> Statuses]]
  BY <1>1, <1>2 DEF HarnessInv, HarnessTypeOK, JobInv
<1>4. \A h \in Harness : Read(h)' = Read(h)
  BY <1>2, ReadSame
<1>5. Read(n) = None
  BY <1>3, PlainReads DEF Read, ReadOpencode
<1>6. n \in Harness
  BY <1>3 DEF Harness
<1>7. job'.verb = job.verb
  BY <1>2, <1>3 DEF Result, WithResult
<1>8. Says(n, "removed")'
  BY <1>3, <1>4, <1>5, <1>6, <1>7 DEF Says, Statuses
<1> QED
  BY <1>1, <1>2, <1>3, <1>4, <1>8, ResultStep

LEMMA UserKeeps ==
  ASSUME HarnessInv, UserStep
  PROVE  HarnessInv'
<1>1. /\ onPath \subseteq Harness /\ here \in Commands /\ entry \in [Cli -> {None} \cup Lines]
      /\ config \in {None, Unparsable} \/ Good(config)
  BY DEF HarnessInv, HarnessTypeOK
<1>2. job.at = "idle" => job = Idle
  BY DEF HarnessInv, JobInv
<1>3. CASE Interrupt
  <2>1. /\ job' = Idle /\ config' \in {config, Unparsable}
        /\ onPath' = onPath /\ here' = here /\ entry' = entry
    BY <1>3 DEF Interrupt
  <2> QED
    BY <1>1, <2>1, AtRestKeeps
<1>4. CASE MovePackage
  <2>1. /\ job' = Idle /\ here' \in Commands /\ onPath' = onPath /\ entry' = entry /\ config' = config
    BY <1>2, <1>4 DEF MovePackage, AtRest
  <2> QED
    BY <1>1, <2>1, AtRestKeeps
<1>5. CASE ChangeHarness
  <2>1. /\ job' = Idle /\ here' = here /\ entry' = entry /\ config' = config
    BY <1>2, <1>5 DEF ChangeHarness, AtRest
  <2>2. onPath' \subseteq Harness
    BY <1>1, <1>5 DEF ChangeHarness
  <2> QED
    BY <1>1, <2>1, <2>2, AtRestKeeps
<1>6. CASE LayOutEntry
  <2>1. /\ job' = Idle /\ here' = here /\ onPath' = onPath /\ config' = config
        /\ entry["codex"] # None /\ entry' = [entry EXCEPT !["codex"].plain = FALSE]
    BY <1>2, <1>6 DEF LayOutEntry, AtRest
  <2>2. entry["codex"] \in Lines
    BY <1>1, <2>1 DEF Cli
  <2>3. [entry["codex"] EXCEPT !.plain = FALSE] \in Lines
    BY <2>2 DEF Lines
  <2>4. entry' = [entry EXCEPT !["codex"] = [entry["codex"] EXCEPT !.plain = FALSE]]
    BY <2>1
  <2>5. entry' \in [Cli -> {None} \cup Lines]
    BY <1>1, <2>3, <2>4
  <2> QED
    BY <1>1, <2>1, <2>5, AtRestKeeps
<1>7. CASE EditConfig
  <2>1. /\ job' = Idle /\ here' = here /\ onPath' = onPath /\ entry' = entry
        /\ config' \in EditedConfigs
    BY <1>2, <1>7 DEF EditConfig, AtRest
  <2>2. Parses(config) => Good(config)
    BY <1>1 DEF Parses
  <2>3. config' \in {None, Unparsable} \/ Good(config')
    BY <2>1, <2>2, UserFacts
  <2> QED
    BY <1>1, <2>1, <2>3, AtRestKeeps
<1> QED
  BY <1>3, <1>4, <1>5, <1>6, <1>7 DEF UserStep

LEMMA ReadTextFacts ==
  ASSUME HarnessInv, Parses(ReadText)
  PROVE  Good(ReadText) /\ \A text : Among(text, Frame) = Among(ReadText, Frame) => Same(text)
<1>1. config \in {None, Unparsable} \/ Good(config)
  BY DEF HarnessInv, HarnessTypeOK
<1>2. CASE config = None
  <2>1. ReadText = Fresh
    BY <1>2 DEF ReadText
  <2> QED
    BY <1>2, <2>1, FreshFacts DEF Same, Good
<1>3. CASE config # None
  <2>1. ReadText = config
    BY <1>3 DEF ReadText
  <2>2. Good(config)
    BY <1>1, <1>3, <2>1 DEF Parses
  <2> QED
    BY <2>1, <2>2 DEF Same
<1> QED
  BY <1>2, <1>3

(* The step that sets a text to be written.                                *)
LEMMA WriteStep ==
  ASSUME HarnessInv, job.at = "read", Now = "opencode", NEW text, Good(text), Same(text),
         job.verb = "install" => \E x : Bears(text, x) /\ x[2] = here,
         job.verb = "uninstall" => Plain(text),
         job' = [job EXCEPT !.at = "write", !.text = text],
         onPath' = onPath, here' = here, entry' = entry, config' = config
  PROVE  HarnessInv'
<1>1. PICK n : n = Now
  OBVIOUS
<1>2. /\ onPath \subseteq Harness /\ here \in Commands /\ entry \in [Cli -> {None} \cup Lines]
      /\ config \in {None, Unparsable} \/ Good(config)
      /\ job \in [at : Places, verb : Verbs, todo : Lists, text : {None} \cup Seq(Token),
                  results : [Harness -> Statuses]]
  BY DEF HarnessInv, HarnessTypeOK
<1>3. text \in Seq(Token)
  BY GoodIsText
<1>4. /\ job' \in [at : Places, verb : Verbs, todo : Lists, text : {None} \cup Seq(Token),
                   results : [Harness -> Statuses]]
      /\ job'.at = "write" /\ job'.verb = job.verb /\ job'.todo = job.todo
      /\ job'.results = job.results /\ job'.text = text
  BY <1>2, <1>3 DEF Places
<1>5. \A h \in Harness : Read(h)' = Read(h)
  BY ReadSame
<1>6. job.at \in Busy
  BY DEF Busy, Places
<1>7. JobInv' /\ ClaimInv'
  BY <1>1, <1>4, <1>5, <1>6, MoveKeeps
<1>8. Same(job.text)'
  BY <1>4 DEF Same
<1>9. WriteInv'
  BY <1>4, <1>8 DEF WriteInv
<1> QED
  BY <1>2, <1>4, <1>7, <1>9, StepKeeps

LEMMA SetupOpencodeKeeps ==
  ASSUME HarnessInv, SetupOpencode
  PROVE  HarnessInv'
<1>1. PICK n : n = Now
  OBVIOUS
<1>2. /\ job.verb = "install" /\ job.at = "read" /\ job.at \in Busy /\ n = "opencode"
      /\ onPath' = onPath /\ here' = here /\ entry' = entry /\ config' = config
  BY <1>1 DEF SetupOpencode, Doing, Busy, Places
<1>3. /\ here \in Commands /\ entry \in [Cli -> {None} \cup Lines]
      /\ config \in {None, Unparsable} \/ Good(config)
  BY DEF HarnessInv, HarnessTypeOK
<1>4. \A h \in Harness : Read(h)' = Read(h)
  BY <1>2, ReadSame
<1>5. n \in Harness /\ Read(n) = ReadOpencode
  BY <1>2 DEF Read, Harness
<1>6. \/ n \notin onPath /\ Result("not-installed")
      \/ Result("refused") \/ Result("failed")
      \/ ReadOpencode = here /\ Result("already-registered")
      \/ Parses(ReadText) /\ job' = [job EXCEPT !.at = "write", !.text = WithOurs(ReadText)]
  BY <1>1 DEF SetupOpencode, SameCommand
<1>7. ASSUME NEW status \in {"not-installed", "refused", "failed", "already-registered"},
             Result(status), status = "not-installed" => n \notin onPath,
             status = "already-registered" => ReadOpencode = here
      PROVE  HarnessInv'
  <2>1. status = "already-registered" => Read(n)' = here
    BY <1>4, <1>5, <1>7
  <2>2. Says(n, status)'
    BY <1>2, <1>7, <2>1 DEF Says, Statuses
  <2> QED
    BY <1>1, <1>2, <1>3, <1>4, <1>7, <2>2, ResultStep
<1>8. CASE Parses(ReadText) /\ job' = [job EXCEPT !.at = "write", !.text = WithOurs(ReadText)]
  <2>1. Good(ReadText)
    BY <1>8, ReadTextFacts
  <2>2. /\ Bears(WithOurs(ReadText), NewEntry(ReadText)) /\ NewEntry(ReadText)[2] = here
        /\ Among(WithOurs(ReadText), Frame) = Among(ReadText, Frame)
    BY <1>3, <2>1, WithOursKeeps
  <2>3. Same(WithOurs(ReadText))
    BY <1>8, <2>2, ReadTextFacts
  <2>4. PICK text : text = WithOurs(ReadText)
    OBVIOUS
  <2>5. Good(text) /\ Same(text) /\ \E x : Bears(text, x) /\ x[2] = here
    BY <2>2, <2>3, <2>4 DEF Good
  <2>6. job' = [job EXCEPT !.at = "write", !.text = text]
    BY <1>8, <2>4
  <2> QED
    BY <1>1, <1>2, <2>5, <2>6, WriteStep
<1> QED
  BY <1>6, <1>7, <1>8

(* An edit of opencode.json keeps what is the user's.                      *)
Spared ==
  \/ Others(config') = Others(config)
  \/ config = None /\ Others(config') = {}
  \/ config' = None /\ Others(config) = {}

LEMMA WriteConfigKeeps ==
  ASSUME HarnessInv, WriteConfig
  PROVE  HarnessInv' /\ Spared
<1>1. PICK n : n = Now
  OBVIOUS
<1>2. /\ job.at = "write" /\ job.at \in Busy
      /\ onPath' = onPath /\ here' = here /\ entry' = entry /\ config' = job.text
  BY DEF WriteConfig, Busy, Places
<1>3. /\ onPath \subseteq Harness /\ here \in Commands /\ entry \in [Cli -> {None} \cup Lines]
      /\ job \in [at : Places, verb : Verbs, todo : Lists, text : {None} \cup Seq(Token),
                  results : [Harness -> Statuses]]
      /\ n = "opencode" /\ job.verb \in {"install", "uninstall"}
  BY <1>1, <1>2 DEF HarnessInv, HarnessTypeOK, JobInv, Verbs
<1>4. /\ Good(config') /\ Same(config')
      /\ job.verb = "install" => \E x : Bears(config', x) /\ x[2] = here
      /\ job.verb = "uninstall" => Plain(config')
  BY <1>2 DEF HarnessInv, WriteInv
<1>5. \A h \in Harness \ {n} : Read(h)' = Read(h)
  BY <1>2, <1>3, ReadConfig
<1>6. Read(n)' = IF Parses(config') /\ OurMember(config') # 0
                 THEN config'[OurMember(config') + 1][2] ELSE None
  BY <1>3 DEF Read, ReadOpencode
<1>7. ASSUME job.verb = "install" PROVE HarnessInv'
  <2>1. PICK x : Bears(config', x) /\ x[2] = here
    BY <1>4, <1>7
  <2>2. Parses(config') /\ OurMember(config') # 0 /\ config'[OurMember(config') + 1] = x
    BY <1>4, <2>1, BearsReads, GoodIsText
  <2>3. Read(n)' = here
    BY <1>6, <2>1, <2>2
  <2>4. Result("registered")
    BY <1>7 DEF WriteConfig
  <2>5. Says(n, "registered")'
    BY <1>2, <2>3 DEF Says, Statuses
  <2> QED
    BY <1>1, <1>2, <1>3, <1>4, <1>5, <2>4, <2>5, ResultStep
<1>8. ASSUME job.verb = "uninstall" PROVE HarnessInv'
  <2>1. Plain(config')
    BY <1>4, <1>8
  <2>2. Read(n)' = None
    BY <1>6, <2>1, PlainReads
  <2>3. ASSUME Result("removed") PROVE HarnessInv'
    <3>1. job'.verb = job.verb
      BY <1>3, <2>3 DEF Result, WithResult
    <3>2. Says(n, "removed")'
      BY <1>8, <2>2, <3>1 DEF Says, Statuses
    <3> QED
      BY <1>1, <1>2, <1>3, <1>4, <1>5, <2>3, <3>2, ResultStep
  <2>4. ASSUME job' = [job EXCEPT !.at = "discard"] PROVE HarnessInv'
    <3>1. /\ job' \in [at : Places, verb : Verbs, todo : Lists, text : {None} \cup Seq(Token),
                       results : [Harness -> Statuses]]
          /\ job'.at = "discard" /\ job'.verb = job.verb /\ job'.todo = job.todo
          /\ job'.results = job.results
      BY <1>3, <2>4 DEF Places
    <3>2. JobInv' /\ ClaimInv'
      BY <1>1, <1>2, <1>3, <1>5, <1>8, <2>1, <3>1, MoveKeeps
    <3>3. WriteInv'
      BY <3>1 DEF WriteInv
    <3> QED
      BY <1>2, <1>3, <1>4, <3>1, <3>2, <3>3, StepKeeps
  <2> QED
    BY <1>8, <2>3, <2>4 DEF WriteConfig
<1>9. Spared
  <2>1. Others(config') = Among(config', Frame)
    BY <1>4, GoodIsText DEF Others
  <2>2. CASE config = None /\ Among(config', Frame) = {}
    BY <2>1, <2>2 DEF Spared
  <2>3. CASE Good(config) /\ Among(config', Frame) = Among(config, Frame)
    BY <2>1, <2>3, GoodIsText DEF Spared, Others
  <2> QED
    BY <1>4, <2>2, <2>3 DEF Same
<1> QED
  BY <1>3, <1>7, <1>8, <1>9

LEMMA RemoveOpencodeKeeps ==
  ASSUME HarnessInv, RemoveOpencode
  PROVE  HarnessInv' /\ Spared
<1>1. PICK n : n = Now
  OBVIOUS
<1>2. /\ job.verb = "uninstall" /\ job.at = "read" /\ job.at \in Busy /\ n = "opencode"
      /\ onPath' = onPath /\ here' = here /\ entry' = entry
  BY <1>1 DEF RemoveOpencode, Doing, Busy, Places
<1>3. /\ entry \in [Cli -> {None} \cup Lines]
      /\ config \in {None, Unparsable} \/ Good(config)
      /\ job \in [at : Places, verb : Verbs, todo : Lists, text : {None} \cup Seq(Token),
                  results : [Harness -> Statuses]]
  BY DEF HarnessInv, HarnessTypeOK
<1>4. PICK rest : rest = WithoutOurs(config)
  OBVIOUS
<1>5. n \in Harness /\ Read(n) = ReadOpencode
  BY <1>2 DEF Read, Harness
<1>6. \A h \in Harness \ {n} : Read(h)' = Read(h)
  BY <1>2, ReadConfig
<1>7. \/ /\ config' = config
         /\ Result("failed") \/ (Result("not-registered") /\ ReadOpencode = None)
      \/ /\ Parses(config) /\ OurMember(config) # 0
         /\ \/ /\ EmptyObject(rest, RootObjectStart(rest)) /\ config' = None /\ Result("removed")
            \/ /\ job' = [job EXCEPT !.at = "write", !.text = rest] /\ config' = config
  BY <1>4 DEF RemoveOpencode, ReadOpencode, Parses
<1>8. ASSUME NEW status \in {"not-registered", "failed"}, Result(status), config' = config,
             status = "not-registered" => ReadOpencode = None
      PROVE  HarnessInv'
  <2>1. \A h \in Harness : Read(h)' = Read(h)
    BY <1>2, <1>8, ReadSame
  <2>2. status = "not-registered" => Read(n)' = None
    BY <1>5, <1>8, <2>1
  <2>3. job'.verb = job.verb
    BY <1>3, <1>8 DEF Result, WithResult
  <2>4. Says(n, status)'
    BY <1>2, <1>8, <2>2, <2>3 DEF Says, Statuses
  <2> QED
    BY <1>1, <1>2, <1>3, <1>8, <2>1, <2>4, ResultStep
<1>9. CASE Parses(config) /\ OurMember(config) # 0
  <2>1. Good(config) /\ Bears(config, config[OurMember(config) + 1])
    BY <1>3, <1>9, GoodReads DEF Parses
  <2>2. Plain(rest) /\ Among(rest, Frame) = Among(config, Frame)
    BY <1>4, <2>1, WithoutOursKeeps
  <2>3. ASSUME EmptyObject(rest, RootObjectStart(rest)), config' = None, Result("removed")
        PROVE  HarnessInv' /\ Spared
    <3>1. Among(config, Frame) = {}
      BY <2>2, <2>3, PlainEmpty
    <3>2. Read(n)' = None
      BY <1>2, <2>3 DEF Read, ReadOpencode, Parses
    <3>3. job'.verb = job.verb
      BY <1>3, <2>3 DEF Result, WithResult
    <3>4. Says(n, "removed")'
      BY <1>2, <3>2, <3>3 DEF Says, Statuses
    <3>5. HarnessInv'
      BY <1>1, <1>2, <1>3, <1>6, <2>3, <3>4, ResultStep
    <3> QED
      BY <1>9, <2>3, <3>1, <3>5 DEF Spared, Others
  <2>4. ASSUME job' = [job EXCEPT !.at = "write", !.text = rest], config' = config
        PROVE  HarnessInv' /\ Spared
    <3>1. Good(rest) /\ Same(rest)
      BY <2>1, <2>2, PlainReads DEF Same
    <3>2. HarnessInv'
      BY <1>1, <1>2, <2>2, <2>4, <3>1, WriteStep
    <3> QED
      BY <2>4, <3>2 DEF Spared
  <2> QED
    BY <1>7, <1>8, <1>9, <2>3, <2>4 DEF Spared
<1> QED
  BY <1>7, <1>8, <1>9 DEF Spared

LEMMA HarnessStepKeeps ==
  ASSUME HarnessInv, HarnessStep
  PROVE  HarnessInv' /\ Spared
<1>1. CASE SetupCli \/ ReplaceOld \/ AddEntry \/ SetupOpencode \/ RemoveCli \/ DiscardBackup
  <2>1. HarnessInv'
    BY <1>1, SetupCliKeeps, ReplaceOldKeeps, AddEntryKeeps, SetupOpencodeKeeps, RemoveCliKeeps,
       DiscardBackupKeeps
  <2>2. config' = config
    BY <1>1 DEF SetupCli, ReplaceOld, AddEntry, SetupOpencode, RemoveCli, DiscardBackup
  <2> QED
    BY <2>1, <2>2 DEF Spared
<1> QED
  BY <1>1, WriteConfigKeeps, RemoveOpencodeKeeps DEF HarnessStep

LEMMA HarnessUnchanged ==
  ASSUME HarnessInv, UNCHANGED <<onPath, here, entry, config, job>>
  PROVE  HarnessInv'
<1>1. \A h \in Harness : Read(h)' = Read(h)
  BY ReadSame
<1>2. HarnessTypeOK' /\ JobInv'
  BY DEF HarnessInv, HarnessTypeOK, JobInv, Now
<1>3. WriteInv'
  BY DEF HarnessInv, WriteInv, Same
<1>4. ClaimInv'
  BY <1>1 DEF HarnessInv, ClaimInv, Claim
<1> QED
  BY <1>2, <1>3, <1>4 DEF HarnessInv

(* Every step.                                                             *)
LEMMA HarnessNext ==
  ASSUME HarnessInv, [Next]_vars
  PROVE  HarnessInv' /\ (HarnessStep => Spared)
<1>1. CASE HarnessStep
  BY <1>1, HarnessStepKeeps
<1>2. CASE ~HarnessStep
  <2>1. ASSUME UserStep PROVE HarnessInv'
    BY <1>2, <2>1, UserKeeps
  <2>2. ASSUME NEW verb \in {"install", "uninstall"}, BeginCommand(verb)
        PROVE  HarnessInv'
    BY <2>2, BeginKeeps DEF BeginCommand
  <2>3. ASSUME Report PROVE HarnessInv'
    <3>1. job' = Idle /\ onPath' = onPath /\ here' = here /\ entry' = entry /\ config' = config
      BY <2>3 DEF Report
    <3> QED
      BY <3>1, AtRestKeeps DEF HarnessInv, HarnessTypeOK
  <2>4. ASSUME Ask PROVE HarnessInv'
    <3>1. UNCHANGED harnesses
      BY <2>4 DEF Ask, AskOnly, OfferLibrary, OfferProjects, Keep, StopAllDaemons, AllStopped,
                  EndUninstall, StopProjectDaemon, DeleteState
    <3> QED
      BY <3>1, HarnessUnchanged DEF harnesses
  <2>5. ASSUME UNCHANGED harnesses PROVE HarnessInv'
    BY <2>5, HarnessUnchanged DEF harnesses
  <2>6. ASSUME UNCHANGED vars PROVE HarnessInv'
    BY <2>6, HarnessUnchanged DEF vars, harnesses
  <2> QED
    BY <1>2, <2>1, <2>2, <2>3, <2>4, <2>5, <2>6 DEF Next
<1> QED
  BY <1>1, <1>2

LEMMA HarnessReports ==
  ASSUME HarnessInv
  PROVE  ReportIsTrue
<1>1. here \in Commands /\ here # None /\ onPath \subseteq Harness
  BY CommandsAssumption DEF HarnessInv, HarnessTypeOK
<1>2. ASSUME job.at = "report", NEW h \in Harness
      PROVE  Claim(h) /\ (Read(h) = here => ReachResult(h) = "ok")
  <2>1. job.todo = <<>>
    BY <1>2 DEF HarnessInv, JobInv
  <2>2. Claim(h)
    BY <1>2, <2>1, ListFacts DEF HarnessInv, ClaimInv
  <2>3. Read(h) = here => ReachResult(h) = "ok"
    BY <1>1 DEF ReachResult, CommandResolves
  <2> QED
    BY <2>2, <2>3
<1> QED
  BY <1>1, <1>2 DEF ReportIsTrue, Reported, Claim

(* What install, uninstall and doctor say of a harness is so when they say *)
(* it, whatever the user has done between the commands and whichever CLI   *)
(* has failed; and an install that reports no failure has registered every *)
(* harness on the PATH with the package that is there (runSetup, runRemove, *)
(* reachResult).                                                           *)
THEOREM ReportsAreTrue == Spec => []ReportIsTrue
<1>1. Init => HarnessInv
  BY HarnessBegins DEF Init
<1>2. HarnessInv /\ [Next]_vars => HarnessInv'
  BY HarnessNext
<1>3. HarnessInv => ReportIsTrue
  BY HarnessReports
<1> QED
  BY <1>1, <1>2, <1>3, PTL DEF Spec

(* No command changes, moves or drops a member of the user's, for any text *)
(* that parses; and what cannot be read is not written over (setupOpencode, *)
(* removeOpencode, setMember, deleteMember).                               *)
THEOREM OthersAreKept == Spec => OthersSurvive
<1>1. Init => HarnessInv
  BY HarnessBegins DEF Init
<1>2. HarnessInv /\ [Next]_vars => HarnessInv'
  BY HarnessNext
<1>3. HarnessInv /\ [Next]_vars =>
        [HarnessStep =>
           \/ Others(config') = Others(config)
           \/ config = None /\ Others(config') = {}
           \/ config' = None /\ Others(config) = {}]_harnesses
  BY HarnessNext DEF Spared
<1> QED
  BY <1>1, <1>2, <1>3, PTL DEF Spec, OthersSurvive

(***************************************************************************)
(* What install leaves in opencode.json, and what uninstall takes out.     *)
(***************************************************************************)
(* What install reads of a file with this content.                         *)
Kin(t) == IF t = None THEN Fresh ELSE t

InObject(t, u, x) ==
  \E a, b, m, e, q, s :
    /\ Holds(t, Token, "mcp", a, b, m, e) /\ Free(t, m, Ours)
    /\ InnerAdded(t, Token, u, "mcp", Ours, a, b, m, e, q, Word(x), s)
InRoot(t, u, x) ==
  \E a, b, t1, q, s, q1, s1 :
    /\ Spare(t, Token, "mcp", a, b)
    /\ BothAdded(t, Token, u, "mcp", Ours, a, b, Hull, Word(x), t1, q, s, q1, s1)

(* A text into which an install has put entry x, and nothing else.         *)
Installed(t, u, x) == x \in Entries /\ (InObject(t, u, x) \/ InRoot(t, u, x))

LEMMA InstalledBears ==
  ASSUME NEW t, NEW u, NEW x, Installed(t, u, x)
  PROVE  Bears(u, x)
<1>1. x \in Entries /\ Word(x)[1] = x
  BY EntryFacts, WordsAre DEF Installed
<1>2. CASE InObject(t, u, x)
  BY <1>1, <1>2 DEF InObject, InnerAdded, Bears
<1>3. CASE InRoot(t, u, x)
  BY <1>1, <1>3 DEF InRoot, BothAdded, InnerAdded, Bears
<1> QED
  BY <1>2, <1>3 DEF Installed

LEMMA InstalledFirst ==
  ASSUME NEW t, Plain(t), here \in Commands
  PROVE  Installed(t, WithOurs(t), NewEntry(t)) /\ NewEntry(t)[2] = here
<1>1. NewEntry(t) \in Entries /\ NewEntry(t)[2] = here
  BY PlainReads, NewEntryFacts
<1>2. CASE Bare(t)
  BY <1>1, <1>2, BareWithOurs DEF Bare, InRoot, Installed
<1>3. CASE Ready(t)
  BY <1>1, <1>3, ReadyWithOurs DEF Ready, InObject, Installed
<1> QED
  BY <1>1, <1>2, <1>3 DEF Plain

LEMMA FitsReplaced ==
  ASSUME NEW S, NEW t, NEW u, NEW a, NEW q, NEW name, NEW w, NEW s, Fits(u, S, t, a, q, name, w, s),
         Len(w) = 1, NEW v, Len(v) = 1, Len(t) \in Nat,
         NEW r, r \in Seq(S), Spliced(u, r, a + 1, a + 3, 2), r[a + 2] = Name(name), r[a + 3] = v[1]
  PROVE  Fits(r, S, t, a, q, name, v, s)
<1>1. /\ a \in Nat /\ q \in a .. Len(t) /\ Len(u) = Len(t) + 4 - (q - a)
      /\ \A k \in 1 .. a : u[k] = t[k]
      /\ \A k \in q + 1 .. Len(t) : u[k + (4 - (q - a))] = t[k]
  BY DEF Fits, Spliced
<1>2. /\ u[a + 1] = Blank /\ u[a + 4] = s
      /\ \A k \in a + 1 .. q : t[k] = Blank
      /\ Inert(t, a + 1, q)
      /\ s = Comma => q = a /\ t[SkipBlanks(t, a + 1)] # Close
      /\ s = Blank => t[q + 1] = Close
  BY DEF Fits
<1>3. (a + 3) - (a + 1) = 2 /\ 2 - 2 = 0
  BY <1>1
<1>4. /\ Len(r) = Len(u) + 2 - ((a + 3) - (a + 1)) /\ \A k \in 1 .. a + 1 : r[k] = u[k]
      /\ \A k \in (a + 3) + 1 .. Len(u) : r[k + (2 - ((a + 3) - (a + 1)))] = u[k]
  BY DEF Spliced
<1>5. Len(r) = Len(t) + 4 - (q - a)
  BY <1>1, <1>3, <1>4
<1>6. ASSUME NEW k \in a + 4 .. Len(u) PROVE r[k] = u[k]
  <2>1. k \in (a + 3) + 1 .. Len(u) /\ k + (2 - 2) = k
    BY <1>1, <1>6
  <2>2. r[k + (2 - ((a + 3) - (a + 1)))] = u[k]
    BY <1>4, <2>1
  <2> QED
    BY <1>3, <2>1, <2>2
<1>7. \A k \in 1 .. a : r[k] = t[k]
  <2>1. \A k \in 1 .. a : k \in 1 .. a + 1
    BY <1>1
  <2> QED
    BY <1>1, <1>4, <2>1
<1>8. ASSUME NEW k \in q + 1 .. Len(t) PROVE r[k + (4 - (q - a))] = t[k]
  <2>1. k + (4 - (q - a)) \in a + 4 .. Len(u)
    BY <1>1, <1>8
  <2> QED
    BY <1>1, <1>6, <1>8, <2>1
<1>9. Spliced(t, r, a, q, 4)
  <2>1. 4 \in Nat
    OBVIOUS
  <2> QED
    BY <1>1, <1>5, <1>7, <1>8, <2>1 DEF Spliced
<1>10. r[a + 1] = Blank /\ r[a + 4] = s
  <2>1. a + 1 \in 1 .. a + 1 /\ a + 4 \in a + 4 .. Len(u)
    BY <1>1
  <2> QED
    BY <1>2, <1>4, <1>6, <2>1
<1>11. \A k \in 1 .. Len(v) : r[a + (k + 2)] = v[k]
  <2> TAKE k \in 1 .. Len(v)
  <2>1. k = 1 /\ a + (k + 2) = a + 3
    BY <1>1
  <2> QED
    BY <2>1
<1>12. Len(v) + 3 = 4
  OBVIOUS
<1> QED
  BY <1>2, <1>9, <1>10, <1>11, <1>12 DEF Fits

(* An entry that an install puts in the place of the one of another.       *)
LEMMA InnerReplaced ==
  ASSUME NEW t, NEW u, NEW a, NEW b, NEW m, NEW e, NEW q, NEW s, NEW x, x \in Entries,
         Holds(t, Token, "mcp", a, b, m, e), Free(t, m, Ours),
         InnerAdded(t, Token, u, "mcp", Ours, a, b, m, e, q, Word(x), s), here \in Commands
  PROVE  /\ InnerAdded(t, Token, WithOurs(u), "mcp", Ours, a, b, m, e, q, Word(NewEntry(u)), s)
         /\ NewEntry(u) \in Entries
<1> DEFINE r == WithOurs(u)
           y == NewEntry(u)
           c == 4 - (q - (m + 1))
<1>1. Word(x)[1] = x /\ Len(Word(x)) = 1
  BY EntryFacts, WordsAre
<1>2. /\ Fits(u, Token, t, m + 1, q, Ours, Word(x), s) /\ q \in m + 1 .. e - 1 /\ s \in {Comma, Blank}
      /\ Holds(u, Token, "mcp", a, b + c, m, e + c)
      /\ Carries(u, m, Ours, m + 3, x)
  BY <1>1 DEF InnerAdded
<1> HIDE DEF c
<1>3. /\ y \in Entries
      /\ Holds(r, Token, "mcp", a, b + c, m, e + c) /\ Carries(r, m, Ours, m + 3, y)
      /\ Spliced(u, r, (m + 3) - 1, (m + 3) + 1, 2) /\ r[m + 3] = Name(Ours)
  BY <1>2, BearsWithOurs
<1>4. Word(y)[1] = y /\ Len(Word(y)) = 1 /\ IsScalar(Word(y)[1])
  BY <1>3, EntryFacts, WordsAre
<1> HIDE DEF r, y
<1>5. m \in Int /\ Len(t) \in Nat /\ r \in Seq(Token)
  BY <1>3, HoldsFacts
<1>6. (m + 3) - 1 = (m + 1) + 1 /\ (m + 3) + 1 = (m + 1) + 3 /\ (m + 1) + 2 = m + 3
  BY <1>5
<1>7. r[(m + 3) + 1] = y
  BY <1>3 DEF Carries
<1>8. Fits(r, Token, t, m + 1, q, Ours, Word(y), s)
  BY <1>1, <1>2, <1>3, <1>4, <1>5, <1>6, <1>7, FitsReplaced
<1>9. InnerAdded(t, Token, r, "mcp", Ours, a, b, m, e, q, Word(y), s)
  BY <1>2, <1>4, <1>8, InnerFits
<1> QED
  BY <1>3, <1>9 DEF r, y

LEMMA InstalledAgain ==
  ASSUME NEW t, NEW u, NEW x, Installed(t, u, x), here \in Commands
  PROVE  Installed(t, WithOurs(u), NewEntry(u)) /\ NewEntry(u)[2] = here
<1>1. x \in Entries /\ NewEntry(u)[2] = here
  BY InstalledBears, NewEntryFacts DEF Installed, Good
<1>2. CASE InObject(t, u, x)
  <2>1. PICK a, b, m, e, q, s :
          /\ Holds(t, Token, "mcp", a, b, m, e) /\ Free(t, m, Ours)
          /\ InnerAdded(t, Token, u, "mcp", Ours, a, b, m, e, q, Word(x), s)
    BY <1>2 DEF InObject
  <2>2. /\ InnerAdded(t, Token, WithOurs(u), "mcp", Ours, a, b, m, e, q, Word(NewEntry(u)), s)
        /\ NewEntry(u) \in Entries
    BY <1>1, <2>1, InnerReplaced
  <2> QED
    BY <1>1, <2>1, <2>2 DEF InObject, Installed
<1>3. CASE InRoot(t, u, x)
  <2>1. PICK a, b, t1, q, s, q1, s1 :
          /\ Spare(t, Token, "mcp", a, b)
          /\ BothAdded(t, Token, u, "mcp", Ours, a, b, Hull, Word(x), t1, q, s, q1, s1)
    BY <1>3 DEF InRoot
  <2>2. /\ OuterAdded(t, Token, t1, "mcp", Ours, a, b, q, Hull, s)
        /\ InnerAdded(t1, Token, u, "mcp", Ours, a, b + (5 - (q - a)), a + 2, a + 4, q1, Word(x), s1)
    BY <2>1 DEF BothAdded
  <2>3. Holds(t1, Token, "mcp", a, b + (5 - (q - a)), a + 2, a + 4) /\ Free(t1, a + 2, Ours)
    BY <2>2 DEF OuterAdded
  <2>4. /\ InnerAdded(t1, Token, WithOurs(u), "mcp", Ours, a, b + (5 - (q - a)), a + 2, a + 4, q1,
                      Word(NewEntry(u)), s1)
        /\ NewEntry(u) \in Entries
    BY <1>1, <2>2, <2>3, InnerReplaced
  <2>5. BothAdded(t, Token, WithOurs(u), "mcp", Ours, a, b, Hull, Word(NewEntry(u)), t1, q, s, q1, s1)
    BY <2>2, <2>4 DEF BothAdded
  <2> QED
    BY <1>1, <2>1, <2>4, <2>5 DEF InRoot, Installed
<1> QED
  BY <1>2, <1>3 DEF Installed

Restored(t, u) == Parses(u) /\ Parses(t) /\ Solid(u) = Solid(t)

LEMMA BlanksRemoved ==
  ASSUME NEW t, IsText(t), NEW u, IsText(u), NEW p, NEW q, Spliced(t, u, p, q, 0),
         \A k \in p + 1 .. q : t[k] = Blank
  PROVE  Solid(u) = Solid(t)
<1>1. \A k \in p + 1 .. q : t[k] \in {Blank}
  OBVIOUS
<1>2. Among(u, {Blank}) = Among(t, {Blank})
  BY <1>1, RemovedAmong
<1> QED
  BY <1>2 DEF Solid

(* A member of l tokens stands where an insertion puts it.                 *)
FirstIn(u, a, name, l) == FindMember(u, a, name) = a + 2 /\ ValueEnd(u, a + 3) = a + (l + 2)

LEMMA TakenBack ==
  ASSUME NEW S, NEW t, t \in Seq(S), NEW u, NEW a, NEW b, ObjectAt(t, a, b), NEW q, q \in a .. b - 1,
         NEW name, NEW value, value \in Seq(S), NEW s, s \in {Comma, Blank},
         Fits(u, S, t, a, q, name, value, s), FirstIn(u, a, name, Len(value)),
         NEW r, IsDeleted(r, u, a, name)
  PROVE  Spliced(t, r, a, q, 0) /\ r \in Seq(S) /\ (q = a => r = t)
BY DeleteInserted DEF FirstIn, IsDeleted

(* Our entry goes from an mcp object of the user's.                        *)
LEMMA InnerTakenBack ==
  ASSUME NEW t, NEW u, NEW a, NEW b, NEW m, NEW e, NEW q, NEW s, NEW x, x \in Entries,
         Holds(t, Token, "mcp", a, b, m, e), Free(t, m, Ours),
         InnerAdded(t, Token, u, "mcp", Ours, a, b, m, e, q, Word(x), s)
  PROVE  /\ Rest1(u) \in Seq(Token) /\ Solid(Rest1(u)) = Solid(t)
         /\ q \in m + 1 .. e - 1 /\ (q = m + 1 => Rest1(u) = t)
<1> DEFINE c == 4 - (q - (m + 1))
<1>1. Word(x)[1] = x /\ Len(Word(x)) = 1 /\ Word(x) \in Seq(Token) /\ IsScalar(x)
  BY EntryFacts, WordsAre
<1>2. /\ Fits(u, Token, t, m + 1, q, Ours, Word(x), s) /\ q \in m + 1 .. e - 1 /\ s \in {Comma, Blank}
      /\ Holds(u, Token, "mcp", a, b + c, m, e + c)
      /\ Carries(u, m, Ours, m + 3, x)
      /\ \A k \in m + 2 .. q : t[k] = Blank
  BY <1>1 DEF InnerAdded
<1> HIDE DEF c
<1>3. t \in Seq(Token) /\ IsText(t) /\ ObjectAt(t, m + 1, e) /\ m \in Int
  BY HoldsFacts
<1>4. FindMember(u, m + 1, Ours) = m + 3 /\ ValueEnd(u, (m + 3) + 1) = (m + 3) + 1
  BY <1>1, <1>2, CarriesFacts
<1>5. (m + 1) + 2 = m + 3 /\ (m + 1) + 3 = (m + 3) + 1 /\ (m + 1) + (1 + 2) = (m + 3) + 1
      /\ (m + 1) + 1 = m + 2
  BY <1>3
<1>6. FirstIn(u, m + 1, Ours, Len(Word(x)))
  BY <1>1, <1>4, <1>5 DEF FirstIn
<1>7. McpObject(u) = m + 1
  BY <1>2, HoldsReads
<1>8. PICK r : r = DeleteMember(u, m + 1, Ours)
  OBVIOUS
<1>9. r = Rest1(u) /\ IsDeleted(r, u, m + 1, Ours)
  BY <1>7, <1>8 DEF Rest1, IsDeleted
<1>10. Spliced(t, r, m + 1, q, 0) /\ r \in Seq(Token) /\ (q = m + 1 => r = t)
  <2>1. t \in Seq(Token) /\ ObjectAt(t, m + 1, e) /\ q \in m + 1 .. e - 1 /\ Word(x) \in Seq(Token)
        /\ s \in {Comma, Blank} /\ Fits(u, Token, t, m + 1, q, Ours, Word(x), s)
        /\ FirstIn(u, m + 1, Ours, Len(Word(x))) /\ IsDeleted(r, u, m + 1, Ours)
    BY <1>1, <1>2, <1>3, <1>6, <1>9
  <2> QED
    BY <2>1, TakenBack
<1>11. IsText(r)
  BY <1>10, AnySequence
<1>12. \A k \in (m + 1) + 1 .. q : t[k] = Blank
  BY <1>2, <1>5
<1>13. Solid(r) = Solid(t)
  BY <1>3, <1>10, <1>11, <1>12, BlanksRemoved
<1> QED
  BY <1>2, <1>9, <1>10, <1>13

(* The mcp object goes that install has put in.                            *)
LEMMA OuterTakenBack ==
  ASSUME NEW t, NEW t1, NEW a, NEW b, NEW q, NEW s, Spare(t, Token, "mcp", a, b),
         OuterAdded(t, Token, t1, "mcp", Ours, a, b, q, Hull, s), NEW r, IsDeleted(r, t1, a, "mcp")
  PROVE  /\ r \in Seq(Token) /\ Solid(r) = Solid(t)
         /\ q \in a .. b - 1 /\ (q = a => r = t)
<1>1. Hull \in Seq(Token) /\ Len(Hull) = 2
  BY TokenFacts DEF Hull
<1>2. /\ Fits(t1, Token, t, a, q, "mcp", Hull, s) /\ q \in a .. b - 1 /\ s \in {Comma, Blank}
      /\ Holds(t1, Token, "mcp", a, b + (5 - (q - a)), a + 2, a + 4)
      /\ \A k \in a + 1 .. q : t[k] = Blank
  BY DEF OuterAdded
<1>3. t \in Seq(Token) /\ IsText(t) /\ ObjectAt(t, a, b) /\ a \in Int
  BY SpareFacts
<1>4. FindMember(t1, a, "mcp") = a + 2 /\ IsText(t1) /\ ObjectAt(t1, (a + 2) + 1, a + 4)
  BY <1>2, HoldsFacts
<1>5. (a + 2) + 1 = a + 3 /\ a + (2 + 2) = a + 4
  BY <1>3
<1>6. ValueEnd(t1, a + 3) = a + 4
  BY <1>4, <1>5, ObjectFacts
<1>7. FirstIn(t1, a, "mcp", Len(Hull))
  BY <1>1, <1>4, <1>5, <1>6 DEF FirstIn
<1>8. Spliced(t, r, a, q, 0) /\ r \in Seq(Token) /\ (q = a => r = t)
  <2>1. t \in Seq(Token) /\ ObjectAt(t, a, b) /\ q \in a .. b - 1 /\ Hull \in Seq(Token)
        /\ s \in {Comma, Blank} /\ Fits(t1, Token, t, a, q, "mcp", Hull, s)
        /\ FirstIn(t1, a, "mcp", Len(Hull)) /\ IsDeleted(r, t1, a, "mcp")
    BY <1>1, <1>2, <1>3, <1>7
  <2> QED
    BY <2>1, TakenBack
<1>9. IsText(r)
  BY <1>8, AnySequence
<1>10. Solid(r) = Solid(t)
  BY <1>2, <1>3, <1>8, <1>9, BlanksRemoved
<1> QED
  BY <1>2, <1>8, <1>10

(* An mcp object in which only our entry stood between blanks was empty.   *)
LEMMA EmptyBefore ==
  ASSUME NEW t, NEW u, NEW x, NEW a, NEW b, NEW m, NEW e, NEW q, NEW s,
         Holds(t, Token, "mcp", a, b, m, e),
         InnerAdded(t, Token, u, "mcp", Ours, a, b, m, e, q, Word(x), s), q # m + 1
  PROVE  EmptyObject(t, McpObject(t))
<1>1. Fits(u, Token, t, m + 1, q, Ours, Word(x), s) /\ q \in m + 1 .. e - 1 /\ s \in {Comma, Blank}
      /\ \A k \in m + 2 .. q : t[k] = Blank
  BY DEF InnerAdded
<1>2. t[q + 1] = Close
  BY <1>1 DEF Fits
<1>3. /\ IsText(t) /\ Len(t) \in Nat /\ m \in 1 .. Len(t) /\ e \in 1 .. Len(t)
      /\ McpObject(t) = m + 1
  <2>1. IsText(t) /\ Len(t) \in Nat /\ a \in 1 .. Len(t) /\ m \in a + 1 .. Len(t)
        /\ ObjectAt(t, m + 1, e)
    BY HoldsFacts
  <2>2. e \in 1 .. Len(t)
    BY <2>1, ObjectFacts
  <2> QED
    BY <2>1, <2>2, HoldsReads
<1>4. /\ (m + 1) + 1 = m + 2 /\ m + 2 \in 1 .. Len(t) + 1 /\ q + 1 \in m + 2 .. Len(t) + 1
      /\ (q + 1) - 1 = q
  BY <1>1, <1>3
<1>5. t[q + 1] # Blank
  BY <1>2, BracesDiffer
<1>6. \A k \in m + 2 .. (q + 1) - 1 : t[k] = Blank
  BY <1>1, <1>4
<1>7. SkipBlanks(t, m + 2) = q + 1
  BY <1>3, <1>4, <1>5, <1>6, SkipTo
<1> QED
  BY <1>2, <1>3, <1>4, <1>7 DEF EmptyObject

LEMMA InObjectLeaves ==
  ASSUME NEW t, NEW u, NEW x, x \in Entries, InObject(t, u, x),
         ~McpWasOurs \/ ~EmptyObject(t, McpObject(t))
  PROVE  Restored(t, WithoutOurs(u))
<1>1. PICK a, b, m, e, q, s :
        /\ Holds(t, Token, "mcp", a, b, m, e) /\ Free(t, m, Ours)
        /\ InnerAdded(t, Token, u, "mcp", Ours, a, b, m, e, q, Word(x), s)
  BY DEF InObject
<1>2. /\ Rest1(u) \in Seq(Token) /\ Solid(Rest1(u)) = Solid(t)
      /\ q = m + 1 => Rest1(u) = t
  BY <1>1, InnerTakenBack
<1>3. t \in Seq(Token)
  BY <1>1, HoldsFacts
<1>4. Parses(t) /\ Parses(Rest1(u))
  BY <1>2, <1>3, NoTextAssumption DEF Parses
<1>5. ~McpWasOurs \/ ~EmptyObject(Rest1(u), McpObject(Rest1(u)))
  <2>1. ~EmptyObject(t, McpObject(t)) => q = m + 1
    BY <1>1, EmptyBefore
  <2> QED
    BY <1>2, <2>1
<1>6. WithoutOurs(u) = Rest1(u)
  BY <1>5, WithoutOursIs
<1> QED
  BY <1>2, <1>4, <1>6 DEF Restored

LEMMA InRootLeaves ==
  ASSUME NEW t, NEW u, NEW x, x \in Entries, InRoot(t, u, x), McpWasOurs
  PROVE  /\ Restored(t, WithoutOurs(u))
         /\ t = Fresh => WithoutOurs(u) = Fresh
<1>1. PICK a, b, t1, q, s, q1, s1 :
        /\ Spare(t, Token, "mcp", a, b)
        /\ BothAdded(t, Token, u, "mcp", Ours, a, b, Hull, Word(x), t1, q, s, q1, s1)
  BY DEF InRoot
<1>2. /\ OuterAdded(t, Token, t1, "mcp", Ours, a, b, q, Hull, s)
      /\ InnerAdded(t1, Token, u, "mcp", Ours, a, b + (5 - (q - a)), a + 2, a + 4, q1, Word(x), s1)
  BY <1>1 DEF BothAdded
<1>3. Holds(t1, Token, "mcp", a, b + (5 - (q - a)), a + 2, a + 4) /\ Free(t1, a + 2, Ours)
      /\ t1[a + 4] = Close
  BY <1>2 DEF OuterAdded
<1>4. q1 \in (a + 2) + 1 .. (a + 4) - 1 /\ (q1 = (a + 2) + 1 => Rest1(u) = t1)
  BY <1>2, <1>3, InnerTakenBack
<1>5. t \in Seq(Token) /\ a \in Int /\ ObjectAt(t, a, b)
  BY <1>1, SpareFacts
<1>6. (a + 2) + 1 = a + 3 /\ (a + 4) - 1 = a + 3 /\ (a + 3) + 1 = a + 4
  BY <1>5
<1>7. Rest1(u) = t1
  <2>1. q1 = (a + 2) + 1
    BY <1>4, <1>5, <1>6
  <2> QED
    BY <1>4, <2>1
<1>8. McpObject(t1) = a + 3 /\ RootObjectStart(t1) = a
  BY <1>3, <1>6, HoldsReads
<1>9. EmptyObject(t1, a + 3)
  <2>1. IsText(t1) /\ ObjectAt(t1, a + 3, a + 4) /\ Len(t1) \in Nat
    BY <1>3, <1>6, HoldsFacts
  <2>2. a + 4 \in 1 .. Len(t1)
    BY <2>1, ObjectFacts
  <2>3. a + 4 \in 1 .. Len(t1) + 1 /\ a + 4 \in a + 4 .. Len(t1) + 1
    BY <1>5, <2>1, <2>2
  <2>4. t1[a + 4] # Blank
    BY <1>3, BracesDiffer
  <2>5. \A k \in a + 4 .. (a + 4) - 1 : t1[k] = Blank
    BY <1>5
  <2>6. SkipBlanks(t1, a + 4) = a + 4
    BY <2>1, <2>3, <2>4, <2>5, SkipTo
  <2> QED
    BY <1>3, <1>6, <2>6 DEF EmptyObject
<1>11. IsDeleted(WithoutOurs(u), t1, a, "mcp")
  BY <1>7, <1>8, <1>9, WithoutOursIs
<1>12. /\ WithoutOurs(u) \in Seq(Token) /\ Solid(WithoutOurs(u)) = Solid(t)
       /\ q \in a .. b - 1 /\ (q = a => WithoutOurs(u) = t)
  BY <1>1, <1>2, <1>11, OuterTakenBack
<1>13. Parses(t) /\ Parses(WithoutOurs(u))
  BY <1>5, <1>12, NoTextAssumption DEF Parses
<1>14. ASSUME t = Fresh PROVE WithoutOurs(u) = t
  <2>1. RootObjectStart(t) = 1 /\ ObjectAt(t, 1, 2) /\ IsText(t)
    BY <1>14, FreshFacts, SpareFacts
  <2>2. RootObjectStart(t) = a
    BY <1>1, SpareFacts
  <2>3. b = 2
    BY <1>5, <2>1, <2>2, ObjectEndsOnce
  <2>4. q = a
    BY <1>12, <2>1, <2>2, <2>3
  <2> QED
    BY <1>12, <2>4
<1> QED
  BY <1>12, <1>13, <1>14 DEF Restored

LEMMA FreshEmpty == EmptyObject(Fresh, RootObjectStart(Fresh)) /\ Parses(Fresh) /\ ~HasMcp(Fresh)
<1>1. Spare(Fresh, Token, "mcp", 1, 2)
  BY FreshFacts
<1>2. RootObjectStart(Fresh) = 1 /\ McpObject(Fresh) = 0 /\ IsText(Fresh) /\ Fresh \in Seq(Token)
  BY <1>1, SpareReads, SpareFacts
<1>3. Fresh[2] = Close /\ Len(Fresh) = 3 /\ Close # Blank
  BY BracesDiffer DEF Fresh
<1>4. SkipBlanks(Fresh, 2) = 2
  <2>1. 2 \in 1 .. 3 + 1 /\ 2 \in 2 .. 3 + 1 /\ \A k \in 2 .. 2 - 1 : Fresh[k] = Blank
    OBVIOUS
  <2> QED
    BY <1>2, <1>3, <2>1, SkipTo
<1>5. Parses(Fresh)
  BY <1>2, NoTextAssumption DEF Parses
<1> QED
  BY <1>2, <1>3, <1>4, <1>5 DEF EmptyObject, HasMcp

(* What uninstall leaves of what install made: the file as it was, but for *)
(* blanks, or nothing where there was no file.                             *)
LEMMA InstalledLeaves ==
  ASSUME NEW t, t = found.config, NEW u, NEW x, Installed(Kin(t), u, x), backup = Saved, ~Misled
  PROVE  /\ t # None => Restored(t, WithoutOurs(u)) /\ backup # None
         /\ t = None => backup = None
                        /\ EmptyObject(WithoutOurs(u), RootObjectStart(WithoutOurs(u)))
<1>1. x \in Entries
  BY DEF Installed
<1>2. PICK old : old = found.backup
  OBVIOUS
<1>3. /\ old = None => backup = t
      /\ old # None => backup = old /\ t # None
      /\ old # None /\ HasMcp(old) => HasMcp(t)
      /\ old # None /\ ~HasMcp(old) => ~HasMcp(t) \/ ~EmptyObject(t, McpObject(t))
  BY <1>2 DEF Saved, Misled
<1>4. ASSUME t # None PROVE Restored(t, WithoutOurs(u))
  <2>1. InObject(t, u, x) \/ InRoot(t, u, x)
    BY <1>4 DEF Installed, Kin
  <2>2. CASE InObject(t, u, x)
    <3>1. PICK a, b, m, e : Holds(t, Token, "mcp", a, b, m, e)
      BY <2>2 DEF InObject
    <3>2. t \in Seq(Token) /\ McpObject(t) # 0
      BY <3>1, HoldsFacts, HoldsReads
    <3>3. HasMcp(t)
      BY <3>2, NoTextAssumption DEF HasMcp, Parses
    <3>4. ~McpWasOurs \/ ~EmptyObject(t, McpObject(t))
      BY <1>3, <1>4, <3>3 DEF McpWasOurs
    <3> QED
      BY <1>1, <2>2, <3>4, InObjectLeaves
  <2>3. CASE InRoot(t, u, x)
    <3>1. PICK a, b : Spare(t, Token, "mcp", a, b)
      BY <2>3 DEF InRoot
    <3>2. ~HasMcp(t)
      BY <3>1, SpareReads DEF HasMcp
    <3>3. McpWasOurs
      BY <1>3, <3>2 DEF McpWasOurs
    <3> QED
      BY <1>1, <2>3, <3>3, InRootLeaves
  <2> QED
    BY <2>1, <2>2, <2>3
<1>5. ASSUME t = None PROVE backup = None /\ WithoutOurs(u) = Fresh
  <2>1. Kin(t) = Fresh /\ backup = None
    BY <1>3, <1>5 DEF Kin
  <2>2. ~InObject(Fresh, u, x)
    <3>1. SUFFICES ASSUME InObject(Fresh, u, x) PROVE FALSE
      OBVIOUS
    <3>2. PICK a, b, m, e : Holds(Fresh, Token, "mcp", a, b, m, e)
      BY <3>1 DEF InObject
    <3>3. McpObject(Fresh) # 0
      BY <3>2, HoldsReads
    <3> QED
      BY <3>3, FreshEmpty DEF HasMcp
  <2>3. InRoot(Fresh, u, x)
    BY <2>1, <2>2 DEF Installed
  <2>4. McpWasOurs
    BY <2>1 DEF McpWasOurs
  <2> QED
    BY <1>1, <2>1, <2>3, <2>4, InRootLeaves
<1>6. t # None => backup # None
  BY <1>3
<1> QED
  BY <1>4, <1>5, <1>6, FreshEmpty

(***************************************************************************)
(* What becomes of the file that the first edit of an install has found.   *)
(***************************************************************************)
Contents == {None, Unparsable} \cup Seq(Token)

(* The restoration is promised.                                            *)
Judged == found # None /\ ~Misled

(* The file that was found, and our entry in it.                           *)
Fitted(u) ==
  \E x : Installed(Kin(found.config), u, x) /\ (found.config = None => x[2] = here)

(* The file that was found is about to get our entry, has it, is about to  *)
(* lose it, has lost it while the backup is still there, or is back.       *)
Coming ==
  /\ job.at = "write" /\ job.verb = "install"
  /\ backup = Saved /\ Fitted(job.text)
Present ==
  /\ job.at \notin {"write", "discard"}
  /\ backup = Saved /\ Fitted(config)
Going ==
  /\ job.at = "write" /\ job.verb = "uninstall"
  /\ backup = Saved /\ backup # None /\ Restored(found.config, job.text)
Parting ==
  /\ job.at = "discard"
  /\ backup = Saved /\ backup # None /\ Restored(found.config, config)
Gone ==
  /\ job.at \notin {"write", "discard"} /\ (config = None \/ Plain(config))
  /\ \/ config = None /\ found.config = None /\ backup = None
     \/ /\ Restored(found.config, config)
        /\ backup = IF config = Saved THEN None ELSE Saved

FoundTypeOK ==
  /\ backup \in Contents
  /\ found = None \/ found \in [config : Contents, backup : Contents, moved : BOOLEAN]

FoundInv == FoundTypeOK /\ (Judged => Coming \/ Present \/ Going \/ Parting \/ Gone)

LEMMA FoundBegins == HarnessInit => FoundInv
<1> SUFFICES ASSUME HarnessInit PROVE FoundInv
  OBVIOUS
<1>1. backup = None /\ found = None
  BY DEF HarnessInit
<1> QED
  BY <1>1 DEF FoundInv, FoundTypeOK, Judged, Contents

LEMMA Forgotten ==
  ASSUME FoundInv, found' = None, backup' \in {backup, Unparsable}
  PROVE  FoundInv'
BY DEF FoundInv, FoundTypeOK, Judged, Contents

LEMMA FoundSame ==
  ASSUME FoundInv, found' = found, backup' = backup, config' = config, here' = here,
         job' = job \/ {job.at, job'.at} \cap {"write", "discard"} = {}
  PROVE  FoundInv'
<1>1. FoundTypeOK' /\ (Judged' <=> Judged) /\ Saved' = Saved
  BY DEF FoundInv, FoundTypeOK, Judged, Misled, Saved
<1>2. CASE job' = job
  <2>1. /\ Coming => Coming'
        /\ Present => Present'
        /\ Going => Going'
        /\ Parting => Parting'
        /\ Gone => Gone'
    BY <1>1, <1>2 DEF Coming, Present, Going, Parting, Gone, Fitted
  <2> QED
    BY <1>1, <2>1 DEF FoundInv
<1>3. CASE {job.at, job'.at} \cap {"write", "discard"} = {}
  <2>1. job.at \notin {"write", "discard"} /\ job'.at \notin {"write", "discard"}
    BY <1>3
  <2>2. ~Coming /\ ~Going /\ ~Parting
    BY <2>1 DEF Coming, Going, Parting
  <2>3. Present => Present'
    BY <1>1, <2>1 DEF Present, Fitted
  <2>4. Gone => Gone'
    BY <1>1, <2>1 DEF Gone
  <2> QED
    BY <1>1, <2>2, <2>3, <2>4 DEF FoundInv
<1> QED
  BY <1>2, <1>3

LEMMA ResultAt ==
  ASSUME HarnessInv, NEW status, Result(status)
  PROVE  job'.at \in {"report", "read"}
BY DEF HarnessInv, HarnessTypeOK, Result, WithResult

LEMMA GoneReads ==
  ASSUME Gone
  PROVE  ReadOpencode = None /\ ~(Parses(config) /\ OurMember(config) # 0)
BY PlainReads DEF Gone, ReadOpencode, Parses

LEMMA FittedReads ==
  ASSUME NEW x, Installed(Kin(found.config), config, x)
  PROVE  ReadOpencode = x[2] /\ x[2] # None /\ Parses(config) /\ config # None
<1>1. Bears(config, x)
  BY InstalledBears
<1>2. OurMember(config) # 0 /\ config[OurMember(config) + 1] = x /\ x \in Entries /\ Good(config)
  BY <1>1, BearsReads
<1>3. Parses(config) /\ x[2] # None
  BY <1>2, GoodIsText, EntryFacts
<1> QED
  BY <1>2, <1>3 DEF ReadOpencode, Parses

(* A file of the user's, as install reads it.                              *)
LEMMA FoundPlain ==
  ASSUME HarnessInv, Parses(ReadText), ReadOpencode = None
  PROVE  Plain(ReadText) /\ ReadText = Kin(config) /\ config \in Contents
<1>1. config \in {None, Unparsable} \/ Good(config)
  BY DEF HarnessInv, HarnessTypeOK
<1>2. CASE config = None
  BY <1>2, FreshFacts DEF ReadText, Kin, Contents
<1>3. CASE config # None
  <2>1. ReadText = config /\ Kin(config) = config
    BY <1>3 DEF ReadText, Kin
  <2>2. Good(config) /\ Parses(config)
    BY <1>1, <1>3, <2>1 DEF Parses
  <2>3. OurMember(config) = 0
    <3>1. SUFFICES ASSUME OurMember(config) # 0 PROVE FALSE
      OBVIOUS
    <3>2. Bears(config, config[OurMember(config) + 1])
      BY <2>2, <3>1, GoodReads
    <3>3. config[OurMember(config) + 1] \in Entries
      BY <3>2, BearsReads
    <3>4. config[OurMember(config) + 1][2] # None
      BY <3>3, EntryFacts
    <3> QED
      BY <2>2, <3>1, <3>4 DEF ReadOpencode
  <2>4. Plain(config) /\ config \in Seq(Token)
    BY <2>2, <2>3, GoodReads, GoodIsText
  <2> QED
    BY <2>1, <2>4 DEF Contents
<1> QED
  BY <1>2, <1>3

LEMMA FoundSetup ==
  ASSUME HarnessInv, FoundInv, SetupOpencode
  PROVE  FoundInv'
<1>1. job.verb = "install" /\ job.at = "read" /\ config' = config /\ here' = here
  BY DEF SetupOpencode, Doing
<1>2. here \in Commands
      /\ job \in [at : Places, verb : Verbs, todo : Lists, text : {None} \cup Seq(Token),
                  results : [Harness -> Statuses]]
  BY DEF HarnessInv, HarnessTypeOK
<1>3. ASSUME NEW status, Result(status), backup' = backup, found' = found
      PROVE  FoundInv'
  <2>1. job'.at \in {"report", "read"}
    BY <1>3, ResultAt
  <2>2. {job.at, job'.at} \cap {"write", "discard"} = {}
    BY <1>1, <2>1
  <2> QED
    BY <1>1, <1>3, <2>2, FoundSame
<1>4. ASSUME Parses(ReadText), ~(ReadOpencode # None /\ SameCommand(ReadOpencode)),
             backup' = FirstCopy, job' = [job EXCEPT !.at = "write", !.text = WithOurs(ReadText)],
             found' = IF ReadOpencode = None
                      THEN [config |-> config, backup |-> backup, moved |-> FALSE] ELSE found
      PROVE  FoundInv'
  <2>1. job'.at = "write" /\ job'.verb = "install" /\ job'.text = WithOurs(ReadText)
    BY <1>1, <1>2, <1>4
  <2>2. CASE ReadOpencode = None
    <3>1. Plain(ReadText) /\ ReadText = Kin(config) /\ config \in Contents
      BY <1>4, <2>2, FoundPlain
    <3>2. found' = [config |-> config, backup |-> backup, moved |-> FALSE]
      BY <1>4, <2>2
    <3>3. found'.config = config /\ found'.backup = backup
      BY <3>2
    <3>4. FoundTypeOK'
      BY <1>4, <3>1, <3>2 DEF FoundInv, FoundTypeOK, FirstCopy
    <3>5. ASSUME Judged' PROVE Coming'
      <4>2. backup' = Saved'
        BY <1>4, <3>3 DEF FirstCopy, Saved
      <4>3. /\ Installed(ReadText, WithOurs(ReadText), NewEntry(ReadText))
            /\ NewEntry(ReadText)[2] = here
        BY <1>2, <3>1, InstalledFirst
      <4>4. PICK x, u : x = NewEntry(ReadText) /\ u = WithOurs(ReadText)
        OBVIOUS
      <4>5. Installed(Kin(config), u, x) /\ x[2] = here
        BY <3>1, <4>3, <4>4
      <4>6. Fitted(job.text)'
        BY <1>1, <2>1, <3>3, <4>4, <4>5 DEF Fitted
      <4> QED
        BY <2>1, <4>2, <4>6 DEF Coming
    <3> QED
      BY <3>4, <3>5 DEF FoundInv
  <2>3. CASE ReadOpencode # None
    <3>1. found' = found /\ ReadOpencode # here
      BY <1>4, <2>3 DEF SameCommand
    <3>2. FoundTypeOK'
      <4>1. config \in Contents
        BY GoodIsText DEF HarnessInv, HarnessTypeOK, Contents
      <4> QED
        BY <1>4, <3>1, <4>1 DEF FoundInv, FoundTypeOK, FirstCopy
    <3>3. ASSUME Judged' PROVE Coming'
      <4>1. Judged /\ Saved' = Saved
        BY <3>1, <3>3 DEF Judged, Misled, Saved
      <4>2. Present
        BY <1>1, <2>3, <4>1, GoneReads DEF FoundInv, Coming, Going, Parting
      <4>3. PICK x : Installed(Kin(found.config), config, x) /\ (found.config = None => x[2] = here)
        BY <4>2 DEF Present, Fitted
      <4>4. ReadOpencode = x[2] /\ config # None
        BY <4>3, FittedReads
      <4>5. found.config # None
        BY <3>1, <4>3, <4>4
      <4>6. backup' = Saved'
        BY <1>4, <4>1, <4>2, <4>5 DEF FirstCopy, Present, Saved
      <4>7. ReadText = config
        BY <4>4 DEF ReadText
      <4>8. Installed(Kin(found.config), WithOurs(config), NewEntry(config))
        BY <1>2, <4>3, InstalledAgain
      <4>9. PICK y, u : y = NewEntry(config) /\ u = WithOurs(config)
        OBVIOUS
      <4>10. Installed(Kin(found.config), u, y)
        BY <4>8, <4>9
      <4>11. Fitted(job.text)'
        BY <2>1, <3>1, <4>5, <4>7, <4>9, <4>10 DEF Fitted
      <4> QED
        BY <2>1, <4>6, <4>11 DEF Coming
    <3> QED
      BY <3>2, <3>3 DEF FoundInv
  <2> QED
    BY <2>2, <2>3
<1> QED
  BY <1>3, <1>4 DEF SetupOpencode

LEMMA FoundRemove ==
  ASSUME HarnessInv, FoundInv, RemoveOpencode
  PROVE  FoundInv'
<1>1. /\ job.verb = "uninstall" /\ job.at = "read" /\ here' = here /\ backup' = backup
      /\ found' = found
  BY DEF RemoveOpencode, Doing
<1>2. job \in [at : Places, verb : Verbs, todo : Lists, text : {None} \cup Seq(Token),
               results : [Harness -> Statuses]]
  BY DEF HarnessInv, HarnessTypeOK
<1>3. ASSUME NEW status, Result(status), config' = config
      PROVE  FoundInv'
  <2>1. job'.at \in {"report", "read"}
    BY <1>3, ResultAt
  <2>2. {job.at, job'.at} \cap {"write", "discard"} = {}
    BY <1>1, <2>1
  <2> QED
    BY <1>1, <1>3, <2>2, FoundSame
<1>4. ASSUME Parses(config), OurMember(config) # 0
      PROVE  FoundInv'
  <2>1. PICK rest : rest = WithoutOurs(config)
    OBVIOUS
  <2>2. FoundTypeOK' /\ (Judged' <=> Judged) /\ Saved' = Saved
    BY <1>1 DEF FoundInv, FoundTypeOK, Judged, Misled, Saved
  <2>3. ASSUME Judged PROVE Coming' \/ Present' \/ Going' \/ Parting' \/ Gone'
    <3>1. Present
      BY <1>1, <1>4, <2>3, GoneReads DEF FoundInv, Coming, Going, Parting
    <3>2. PICK x : Installed(Kin(found.config), config, x)
      BY <3>1 DEF Present, Fitted
    <3>3. backup = Saved
      BY <3>1 DEF Present
    <3>4. /\ backup # None => Restored(found.config, rest)
          /\ backup = None => found.config = None /\ EmptyObject(rest, RootObjectStart(rest))
      BY <2>1, <2>3, <3>2, <3>3, InstalledLeaves DEF Judged
    <3>5. CASE backup = None
      <4>1. config' = None /\ Result("removed")
        BY <1>4, <2>1, <3>4, <3>5 DEF RemoveOpencode, Parses
      <4>2. job'.at \in {"report", "read"}
        BY <4>1, ResultAt
      <4>3. Gone'
        BY <1>1, <3>4, <3>5, <4>1, <4>2 DEF Gone
      <4> QED
        BY <4>3
    <3>6. CASE backup # None
      <4>1. job' = [job EXCEPT !.at = "write", !.text = rest]
        BY <1>4, <2>1, <3>6 DEF RemoveOpencode, Parses
      <4>2. job'.at = "write" /\ job'.verb = "uninstall" /\ job'.text = rest
        BY <1>1, <1>2, <4>1
      <4>3. Going'
        BY <1>1, <2>2, <3>3, <3>4, <3>6, <4>2 DEF Going
      <4> QED
        BY <4>3
    <3> QED
      BY <3>5, <3>6
  <2> QED
    BY <2>2, <2>3 DEF FoundInv
<1>5. \/ Parses(config) /\ OurMember(config) # 0
      \/ \E status : Result(status) /\ config' = config
  BY DEF RemoveOpencode, Parses
<1> QED
  BY <1>3, <1>4, <1>5

LEMMA FoundWrite ==
  ASSUME HarnessInv, FoundInv, WriteConfig
  PROVE  FoundInv'
<1>1. /\ job.at = "write" /\ config' = job.text /\ here' = here /\ backup' = backup
      /\ found' = found
  BY DEF WriteConfig
<1>2. job \in [at : Places, verb : Verbs, todo : Lists, text : {None} \cup Seq(Token),
               results : [Harness -> Statuses]]
  BY DEF HarnessInv, HarnessTypeOK
<1>3. FoundTypeOK' /\ (Judged' <=> Judged) /\ Saved' = Saved
  BY <1>1 DEF FoundInv, FoundTypeOK, Judged, Misled, Saved
<1>4. Judged => Coming \/ Going
  BY <1>1 DEF FoundInv, Present, Parting, Gone
<1>5. ASSUME Coming PROVE Present'
  <2>1. Result("registered")
    BY <1>5 DEF WriteConfig, Coming
  <2>2. job'.at \in {"report", "read"}
    BY <2>1, ResultAt
  <2>3. Fitted(config)'
    BY <1>1, <1>5 DEF Coming, Fitted
  <2> QED
    BY <1>1, <1>3, <1>5, <2>2, <2>3 DEF Coming, Present
<1>6. ASSUME Going PROVE Parting'
  <2>1. job' = [job EXCEPT !.at = "discard"]
    BY <1>6 DEF WriteConfig, Going
  <2>2. job'.at = "discard"
    BY <1>2, <2>1
  <2> QED
    BY <1>1, <1>3, <1>6, <2>2 DEF Going, Parting
<1> QED
  BY <1>3, <1>4, <1>5, <1>6 DEF FoundInv

LEMMA FoundDiscard ==
  ASSUME HarnessInv, FoundInv, DiscardBackup
  PROVE  FoundInv'
<1>1. /\ job.at = "discard" /\ config' = config /\ here' = here /\ found' = found
      /\ backup' = IF backup = config THEN None ELSE backup
      /\ Result("removed")
  BY DEF DiscardBackup
<1>2. job'.at \in {"report", "read"}
  BY <1>1, ResultAt
<1>3. FoundTypeOK' /\ (Judged' <=> Judged) /\ Saved' = Saved
  BY <1>1 DEF FoundInv, FoundTypeOK, Judged, Misled, Saved, Contents
<1>4. Judged => Parting
  BY <1>1 DEF FoundInv, Coming, Present, Going, Gone
<1>5. Plain(config)
  BY <1>1 DEF HarnessInv, JobInv
<1>6. Parting => Gone'
  BY <1>1, <1>2, <1>3, <1>5 DEF Parting, Gone
<1> QED
  BY <1>3, <1>4, <1>6 DEF FoundInv

LEMMA FoundMoves ==
  ASSUME FoundInv, MovePackage
  PROVE  FoundInv'
<1>1. /\ job.at = "idle" /\ job' = job /\ config' = config /\ backup' = backup
      /\ found' = IF found = None THEN None ELSE [found EXCEPT !.moved = TRUE]
  BY DEF MovePackage, AtRest
<1>2. CASE found = None
  BY <1>1, <1>2, Forgotten
<1>3. CASE found # None
  <2>1. found \in [config : Contents, backup : Contents, moved : BOOLEAN]
    BY <1>3 DEF FoundInv, FoundTypeOK
  <2>2. /\ found' \in [config : Contents, backup : Contents, moved : BOOLEAN]
        /\ found'.config = found.config /\ found'.backup = found.backup /\ found'.moved
    BY <1>1, <1>3, <2>1
  <2>3. FoundTypeOK'
    BY <1>1, <2>2 DEF FoundInv, FoundTypeOK
  <2>4. ASSUME Judged' PROVE Present' \/ Gone'
    <3>1. found.config # None /\ Judged /\ Saved' = Saved
      BY <1>3, <2>2, <2>4 DEF Judged, Misled, Saved
    <3>2. Present \/ Gone
      BY <1>1, <3>1 DEF FoundInv, Coming, Going, Parting
    <3>3. Present => Present'
      BY <1>1, <2>2, <3>1 DEF Present, Fitted
    <3>4. Gone => Gone'
      BY <1>1, <2>2, <3>1 DEF Gone
    <3> QED
      BY <3>2, <3>3, <3>4
  <2> QED
    BY <2>3, <2>4 DEF FoundInv
<1> QED
  BY <1>2, <1>3

LEMMA FoundCli ==
  ASSUME HarnessInv, FoundInv, SetupCli \/ ReplaceOld \/ AddEntry \/ RemoveCli
  PROVE  FoundInv'
<1>1. job.at \in {"read", "add", "remove"}
  BY DEF SetupCli, ReplaceOld, AddEntry, RemoveCli, Doing
<1>2. found' = found /\ backup' = backup /\ config' = config /\ here' = here
  BY DEF SetupCli, ReplaceOld, AddEntry, RemoveCli
<1>3. job'.at \in {"report", "read", "add", "remove"}
  <2>1. CASE \E status : Result(status)
    BY <2>1, ResultAt
  <2>2. CASE job' = [job EXCEPT !.at = "add"] \/ job' = [job EXCEPT !.at = "remove"]
    BY <2>2 DEF HarnessInv, HarnessTypeOK
  <2> QED
    BY <2>1, <2>2 DEF SetupCli, ReplaceOld, AddEntry, RemoveCli
<1>4. {job.at, job'.at} \cap {"write", "discard"} = {}
  BY <1>1, <1>3
<1> QED
  BY <1>2, <1>4, FoundSame

(* Every step.                                                             *)
LEMMA FoundNext ==
  ASSUME HarnessInv, FoundInv, [Next]_vars
  PROVE  FoundInv'
<1>1. CASE HarnessStep
  BY <1>1, FoundSetup, FoundRemove, FoundWrite, FoundDiscard, FoundCli DEF HarnessStep
<1>2. ASSUME UserStep PROVE FoundInv'
  <2>1. CASE Interrupt \/ EditConfig
    BY <2>1, Forgotten DEF Interrupt, EditConfig
  <2>2. CASE ChangeHarness \/ LayOutEntry
    BY <2>2, FoundSame DEF ChangeHarness, LayOutEntry
  <2> QED
    BY <1>2, <2>1, <2>2, FoundMoves DEF UserStep
<1>3. ASSUME NEW verb \in {"install", "uninstall"}, BeginCommand(verb)
      PROVE  FoundInv'
  <2>1. /\ job.at = "idle" /\ job' = [Idle EXCEPT !.at = "read", !.verb = verb, !.todo = HARNESSES]
        /\ found' = found /\ backup' = backup /\ config' = config /\ here' = here
    BY <1>3 DEF BeginCommand, Begin
  <2>2. job'.at = "read"
    BY <2>1 DEF Idle
  <2>3. {job.at, job'.at} \cap {"write", "discard"} = {}
    BY <2>1, <2>2
  <2> QED
    BY <2>1, <2>3, FoundSame
<1>4. ASSUME Report PROVE FoundInv'
  <2>1. /\ job.at = "report" /\ job' = Idle
        /\ found' = found /\ backup' = backup /\ config' = config /\ here' = here
    BY <1>4 DEF Report
  <2>2. {job.at, job'.at} \cap {"write", "discard"} = {}
    BY <2>1, IdleFacts
  <2> QED
    BY <2>1, <2>2, FoundSame
<1>5. ASSUME UNCHANGED harnesses PROVE FoundInv'
  BY <1>5, FoundSame DEF harnesses
<1>6. Ask => UNCHANGED harnesses
  BY DEF Ask, AskOnly, OfferLibrary, OfferProjects, Keep, StopAllDaemons, AllStopped,
         EndUninstall, StopProjectDaemon, DeleteState
<1> QED
  BY <1>1, <1>2, <1>3, <1>4, <1>5, <1>6 DEF Next, vars

(* What is left when the removal is reported.                              *)
LEMMA FoundRestores ==
  ASSUME HarnessInv, FoundInv
  PROVE  ConfigIsRestored
<1>1. SUFFICES ASSUME Reported("uninstall"), job.results["opencode"] = "removed", found # None,
                      ~Misled
               PROVE  \/ config = None /\ found.config = None /\ backup = None
                      \/ /\ Restored(found.config, config)
                         /\ backup = IF config = Saved THEN None ELSE Saved
  BY DEF ConfigIsRestored, Restored
<1>2. job.at = "report"
  BY <1>1 DEF Reported
<1>3. Read("opencode") = None
  <2>1. job.todo = <<>> /\ job.at # "idle" /\ "opencode" \in Harness
    BY <1>2 DEF HarnessInv, JobInv, Harness
  <2>2. Claim("opencode")
    BY <2>1, ListFacts DEF HarnessInv, ClaimInv
  <2> QED
    BY <1>1, <2>2 DEF Claim
<1>4. ReadOpencode = None
  BY <1>3 DEF Read
<1>5. Present \/ Gone
  BY <1>1, <1>2 DEF FoundInv, Judged, Coming, Going, Parting
<1>6. ~Present
  BY <1>4, FittedReads DEF Present, Fitted
<1> QED
  BY <1>5, <1>6 DEF Gone

(* An uninstall that has removed our entry leaves opencode.json as the     *)
(* first edit of the install found it, up to the blanks of an object that  *)
(* was empty, and drops the backup exactly if the file is again what it    *)
(* holds: whatever earlier commands left behind, whatever is interrupted,  *)
(* for any text of the user's, outside the cases of Misled                 *)
(* (setupOpencode, removeOpencode).                                        *)
THEOREM FileIsRestored == Spec => []ConfigIsRestored
<1>1. Init => HarnessInv /\ FoundInv
  BY HarnessBegins, FoundBegins DEF Init
<1>2. HarnessInv /\ FoundInv /\ [Next]_vars => HarnessInv' /\ FoundInv'
  BY HarnessNext, FoundNext
<1>3. HarnessInv /\ FoundInv => ConfigIsRestored
  BY FoundRestores
<1> QED
  BY <1>1, <1>2, <1>3, PTL DEF Spec
=============================================================================
