---------------------------- MODULE DaemonStart ----------------------------
(***************************************************************************)
(* How the MCP processes of one project find its HTTP daemon or start it,  *)
(* and how "agent-flows stop" takes it away (bindings/mastra/              *)
(* daemonResolver.ts and daemonTools.ts, runtime/daemonRecord.ts,          *)
(* serve/server.ts, serve/idleShutdown.ts, serve/stop.ts).                 *)
(*                                                                         *)
(* The processes share the loopback ports and two files of the project's   *)
(* state directory: the start lock, created with O_EXCL, and the record    *)
(* daemon.json, which is truncated and then written, and which is read     *)
(* back before it is unlinked.  Any process may die between two steps.     *)
(*                                                                         *)
(* A client is one MCP process: its calls share one resolution, so they    *)
(* are taken one at a time.  Time is what may have happened: a probe may   *)
(* time out although somebody listens, a wait may reach its deadline after *)
(* any poll, and a lock may turn stale (60 s) only when its owner, who     *)
(* holds it for some 30 s, is dead.                                        *)
(***************************************************************************)
EXTENDS Integers, Sequences, FiniteSets

CONSTANTS
  Clients,        \* MCP processes of this project and this version
  Daemons,        \* every daemon that may ever run on the machine
  Ours,           \* those of this project and of the clients' version
  Old,            \* those of this project, of another version
  Ports,          \* loopback ports
  Conventional,   \* DEFAULT_PORT, which the operating system gives nobody
  Pinned,         \* AGENT_FLOWS_PORT of the clients, or NoPort
  NoPort, NoOne, Torn,
  ByHand,         \* the daemons a user may start with "agent-flows serve"
  MaxByHand,      \* BOUND: how many of them a user does start
  Mortal,         \* the clients and daemons that may die at any point
  MaxPolls        \* BOUND: polls of a client before its deadline

ASSUME KindsAssumption ==
  /\ Ours \subseteq Daemons
  /\ Old \subseteq Daemons
  /\ Ours \cap Old = {}
ASSUME NamesAssumption ==
  /\ NoOne \notin Clients \cup Daemons
  /\ Torn \notin Daemons \cup {NoOne}
  /\ NoPort \notin Ports
ASSUME PortsAssumption ==
  /\ Conventional \in Ports
  /\ Pinned \in Ports \cup {NoPort}
ASSUME BoundAssumption ==
  /\ MaxPolls \in Nat \ {0}
  /\ MaxByHand \in Nat
ASSUME EnvironmentAssumption ==
  /\ ByHand \subseteq Daemons
  /\ Mortal \subseteq Clients \cup Daemons

VARIABLES
  lock,           \* the owner named in daemon.start.lock, or NoOne
  stale,          \* the lock is older than DEFAULT_LOCK_STALE_MS
  record,         \* daemon.json: a daemon, Torn while half written, or NoOne
  daemon,         \* the daemons
  client,         \* the MCP processes
  stop            \* the stop command

vars == <<lock, stale, record, daemon, client, stop>>

OfProject == Ours \cup Old

Daemon ==
  [state: {"none", "starting", "writing", "up", "unlinking", "gone"},
   port: Ports \cup {NoPort},
   auto: BOOLEAN]                 \* AGENT_FLOWS_AUTOSTART

Client ==
  [pc: {"idle", "search", "probe", "lock", "stat", "reclaim", "retake",
        "spawn", "release", "fetch", "dead"},
   polls: 0 .. MaxPolls,          \* 0 in the search that precedes the lock
   holds: BOOLEAN,                \* holdsLock
   candidates: Seq(Ports),
   memo: Ports \cup {NoPort},     \* the resolution in inFlight
   lost: BOOLEAN]                 \* history: the last request was not answered

Stop ==
  [pc: {"idle", "probe", "signal", "forget", "unlink"},
   target: Daemons \cup {NoOne}]  \* the record it read

TypeOK ==
  /\ lock \in Clients \cup {NoOne}
  /\ stale \in BOOLEAN
  /\ record \in OfProject \cup {NoOne, Torn}
  /\ daemon \in [Daemons -> Daemon]
  /\ client \in [Clients -> Client]
  /\ stop \in Stop

Init ==
  /\ lock = NoOne
  /\ stale = FALSE
  /\ record = NoOne
  /\ daemon = [d \in Daemons |-> [state |-> "none", port |-> NoPort, auto |-> FALSE]]
  /\ client = [c \in Clients |->
                [pc |-> "idle", polls |-> 0, holds |-> FALSE, candidates |-> <<>>,
                 memo |-> NoPort, lost |-> FALSE]]
  /\ stop = [pc |-> "idle", target |-> NoOne]

Up(d) == daemon[d].state = "up"
AnswersAt(d, p) == Up(d) /\ daemon[d].port = p
Free(p) == \A d \in Daemons :
             daemon[d].port = p => daemon[d].state \notin {"writing", "up", "unlinking"}

(***************************************************************************)
(* Daemons.                                                                *)
(***************************************************************************)
StartedByHand == {d \in Daemons : daemon[d].state # "none" /\ ~daemon[d].auto}

(* A user runs "agent-flows serve" in this project or another one.         *)
ServeByHand(d) ==
  /\ d \in ByHand
  /\ Cardinality(StartedByHand) < MaxByHand
  /\ daemon[d].state = "none"
  /\ daemon' = [daemon EXCEPT ![d].state = "starting"]
  /\ UNCHANGED <<lock, stale, record, client, stop>>

(* resolvePortChoice and the second listen after EADDRINUSE: a started     *)
(* daemon has the port its user names, or DEFAULT_PORT, or one of the      *)
(* operating system's; an auto-started one always has one of those.        *)
PortFor(d, p) ==
  /\ Free(p)
  /\ daemon[d].auto => p # Conventional

(* The listen callback begins to write the record; a daemon of another     *)
(* project writes one elsewhere.                                           *)
Listen(d, p) ==
  /\ daemon[d].state = "starting"
  /\ PortFor(d, p)
  /\ IF d \in OfProject
     THEN /\ record' = Torn
          /\ daemon' = [daemon EXCEPT ![d].state = "writing", ![d].port = p]
     ELSE /\ record' = record
          /\ daemon' = [daemon EXCEPT ![d].state = "up", ![d].port = p]
  /\ UNCHANGED <<lock, stale, client, stop>>

WriteDaemonRecord(d) ==
  /\ daemon[d].state = "writing"
  /\ record' = d
  /\ daemon' = [daemon EXCEPT ![d].state = "up"]
  /\ UNCHANGED <<lock, stale, client, stop>>

(* Idle, signalled or closed: removeDaemonRecordIfOwned reads the record   *)
(* back, and unlinks it in a second system call.                           *)
Exit(d) ==
  /\ Up(d)
  /\ daemon' = [daemon EXCEPT ![d].state = IF record = d THEN "unlinking" ELSE "gone"]
  /\ UNCHANGED <<lock, stale, record, client, stop>>

UnlinkRecord(d) ==
  /\ daemon[d].state = "unlinking"
  /\ record' = NoOne
  /\ daemon' = [daemon EXCEPT ![d].state = "gone"]
  /\ UNCHANGED <<lock, stale, client, stop>>

(* A kill, a reboot, or a start that fails.                                *)
DaemonDies(d) ==
  /\ d \in Mortal
  /\ daemon[d].state \notin {"none", "gone"}
  /\ daemon' = [daemon EXCEPT ![d].state = "gone"]
  /\ UNCHANGED <<lock, stale, record, client, stop>>

DaemonStep(d) ==
  \/ ServeByHand(d)
  \/ \E p \in Ports : Listen(d, p)
  \/ WriteDaemonRecord(d)
  \/ Exit(d)
  \/ UnlinkRecord(d)
  \/ DaemonDies(d)

(***************************************************************************)
(* MCP processes.                                                          *)
(***************************************************************************)
At(c, pc) == client[c].pc = pc

Goto(c, pc) == client' = [client EXCEPT ![c].pc = pc]

(* daemonFetch -> resolveDaemonBase: a memoised port is not looked up      *)
(* again.                                                                  *)
Call(c) ==
  /\ At(c, "idle")
  /\ client' = [client EXCEPT
       ![c].pc = IF client[c].memo # NoPort THEN "fetch" ELSE "search",
       ![c].lost = @ /\ client[c].memo # NoPort]
  /\ UNCHANGED <<lock, stale, record, daemon, stop>>

Recorded == IF record \in Daemons THEN {daemon[record].port} ELSE {}

(* The ports findOurDaemon probes, the pinned one first.                   *)
Candidates ==
  (IF Pinned # NoPort THEN <<Pinned>> ELSE <<>>) \o
  (IF Recorded \ {Pinned} # {} THEN <<daemon[record].port>> ELSE <<>>)

FindOurDaemon(c) ==
  /\ At(c, "search")
  /\ client' = [client EXCEPT ![c].pc = "probe", ![c].candidates = Candidates]
  /\ UNCHANGED <<lock, stale, record, daemon, stop>>

(* A port that is not ours, or that does not answer in time, is passed     *)
(* over.                                                                   *)
PassOver(c) ==
  /\ At(c, "probe")
  /\ client[c].candidates # <<>>
  /\ client' = [client EXCEPT ![c].candidates = Tail(@)]
  /\ UNCHANGED <<lock, stale, record, daemon, stop>>

(* The finally of resolveDaemonPort, then the return or the error.         *)
Settled(cl, port) ==
  [cl EXCEPT !.memo = port, !.polls = 0, !.candidates = <<>>,
             !.pc = IF cl.holds THEN "release"
                    ELSE IF port = NoPort THEN "idle" ELSE "fetch"]

(* Variant: any daemon will do.                                            *)
AnyMatches(d) == "match"

(* classifyIdentity: ours is found, another version of ours is an error.   *)
Verdict(d) ==
  IF d \in Ours THEN "match" ELSE IF d \in Old THEN "other-version" ELSE "other-project"

Identified(c) ==
  /\ At(c, "probe")
  /\ client[c].candidates # <<>>
  /\ \E d \in Daemons :
       /\ AnswersAt(d, Head(client[c].candidates))
       /\ Verdict(d) # "other-project"
       /\ client' = [client EXCEPT
            ![c] = Settled(client[c], IF Verdict(d) = "match" THEN daemon[d].port ELSE NoPort)]
  /\ UNCHANGED <<lock, stale, record, daemon, stop>>

(* Variant: the deadline is never reached.                                 *)
PollForever(cl) ==
  IF cl.polls = 0 THEN {[cl EXCEPT !.pc = "lock"]} ELSE {[cl EXCEPT !.pc = "search"]}

(* Nothing found: on to the lock, or another poll, or the deadline.        *)
AfterNothing(cl) ==
  IF cl.polls = 0
  THEN {[cl EXCEPT !.pc = "lock"]}
  ELSE {Settled(cl, NoPort)} \cup
       {[cl EXCEPT !.pc = "search", !.polls = n] : n \in {cl.polls + 1} \cap 1 .. MaxPolls}

NothingFound(c) ==
  /\ At(c, "probe")
  /\ client[c].candidates = <<>>
  /\ \E next \in AfterNothing(client[c]) : client' = [client EXCEPT ![c] = next]
  /\ UNCHANGED <<lock, stale, record, daemon, stop>>

Waiting(cl) == [cl EXCEPT !.pc = "search", !.polls = 1]

(* Variant: openSync(lockPath, "w").                                       *)
Overwritten == TRUE

(* openSync(lockPath, "wx"): who creates the lock goes on to spawn.        *)
Created == lock = NoOne

Take(c, otherwise) ==
  /\ IF Created
     THEN /\ lock' = c
          /\ stale' = FALSE
          /\ client' = [client EXCEPT ![c].pc = "spawn", ![c].holds = TRUE]
     ELSE /\ client' = [client EXCEPT ![c] = otherwise]
          /\ UNCHANGED <<lock, stale>>
  /\ UNCHANGED <<record, daemon, stop>>

AcquireStartLock(c) == At(c, "lock") /\ Take(c, [client[c] EXCEPT !.pc = "stat"])

(* Variant: a lock is waited for, however old.                             *)
NeverReclaim(c) == IF lock = NoOne THEN [client[c] EXCEPT !.pc = "retake"] ELSE Waiting(client[c])

AfterStat(c) ==
  IF lock # NoOne /\ ~stale THEN Waiting(client[c])
  ELSE [client[c] EXCEPT !.pc = IF lock = NoOne THEN "retake" ELSE "reclaim"]

StatLock(c) ==
  /\ At(c, "stat")
  /\ client' = [client EXCEPT ![c] = AfterStat(c)]
  /\ UNCHANGED <<lock, stale, record, daemon, stop>>

ReclaimLock(c) ==
  /\ At(c, "reclaim")
  /\ lock' = NoOne
  /\ stale' = FALSE
  /\ Goto(c, "retake")
  /\ UNCHANGED <<record, daemon, stop>>

RetakeLock(c) == At(c, "retake") /\ Take(c, Waiting(client[c]))

(* spawnDaemon does not wait; the spawn may come to nothing.               *)
SpawnDaemon(c) ==
  /\ At(c, "spawn")
  /\ client' = [client EXCEPT ![c] = Waiting(client[c])]
  /\ \/ daemon' = daemon
     \/ \E d \in Ours :
          /\ daemon[d].state = "none"
          /\ daemon' = [daemon EXCEPT ![d].state = "starting", ![d].auto = TRUE]
  /\ UNCHANGED <<lock, stale, record, stop>>

(* Variant: the lock is only removed after a failure.                      *)
KeepLock(c) == IF client[c].memo = NoPort THEN NoOne ELSE lock

(* rmSync(lockPath, { force: true }), whoever's lock it is by now.         *)
LockRemoved(c) == NoOne

ReleaseLock(c) ==
  /\ At(c, "release")
  /\ lock' = LockRemoved(c)
  /\ stale' = FALSE
  /\ client' = [client EXCEPT ![c].holds = FALSE,
                              ![c].pc = IF client[c].memo = NoPort THEN "idle" ELSE "fetch"]
  /\ UNCHANGED <<record, daemon, stop>>

(* The request itself: whoever listens on the port answers it.             *)
Fetch(c) ==
  /\ At(c, "fetch")
  /\ client' = [client EXCEPT
       ![c].pc = "idle",
       ![c].lost = \A d \in Daemons : ~AnswersAt(d, client[c].memo)]
  /\ UNCHANGED <<lock, stale, record, daemon, stop>>

ClientDies(c) ==
  /\ c \in Mortal
  /\ client[c].pc \notin {"idle", "dead"}
  /\ Goto(c, "dead")
  /\ UNCHANGED <<lock, stale, record, daemon, stop>>

(* What a client does once a call has begun.                               *)
Resolve(c) ==
  \/ FindOurDaemon(c) \/ PassOver(c) \/ Identified(c) \/ NothingFound(c)
  \/ AcquireStartLock(c) \/ StatLock(c) \/ ReclaimLock(c) \/ RetakeLock(c)
  \/ SpawnDaemon(c) \/ ReleaseLock(c) \/ Fetch(c)

(* A minute passes over the lock of a dead client.                         *)
LockAges ==
  /\ lock # NoOne
  /\ ~stale
  /\ At(lock, "dead")
  /\ stale' = TRUE
  /\ UNCHANGED <<lock, record, daemon, client, stop>>

(***************************************************************************)
(* "agent-flows stop", one at a time.                                      *)
(***************************************************************************)
(* No record, or an unreadable one, ends it at once.                       *)
StopProjectDaemon ==
  /\ stop.pc = "idle"
  /\ record \in Daemons
  /\ stop' = [pc |-> "probe", target |-> record]
  /\ UNCHANGED <<lock, stale, record, daemon, client>>

Ended == [pc |-> "idle", target |-> NoOne]

(* The one that answers is the one recorded, and serves the project.       *)
MaySignal(d) == d = stop.target /\ d \in OfProject

(* Nothing answers, or a stranger does: nothing is signalled.              *)
StopProbe ==
  /\ stop.pc = "probe"
  /\ \/ stop' = Ended
     \/ \E d \in Daemons :
          /\ AnswersAt(d, daemon[stop.target].port)
          /\ MaySignal(d)
          /\ stop' = [stop EXCEPT !.pc = "signal"]
  /\ UNCHANGED <<lock, stale, record, daemon, client>>

(* SIGTERM, and the wait until the target no longer answers, in time or at *)
(* all.  It ends at the deadline; the kill throws if the process has gone. *)
StopSignal ==
  /\ stop.pc = "signal"
  /\ \/ stop' = Ended
     \/ daemon[stop.target].state # "gone" /\ stop' = [stop EXCEPT !.pc = "forget"]
  /\ UNCHANGED <<lock, stale, record, daemon, client>>

StopForget ==
  /\ stop.pc = "forget"
  /\ stop' = IF record = stop.target THEN [stop EXCEPT !.pc = "unlink"] ELSE Ended
  /\ UNCHANGED <<lock, stale, record, daemon, client>>

StopUnlink ==
  /\ stop.pc = "unlink"
  /\ record' = NoOne
  /\ stop' = Ended
  /\ UNCHANGED <<lock, stale, daemon, client>>

StopStep ==
  StopProjectDaemon \/ StopProbe \/ StopSignal \/ StopForget \/ StopUnlink

Next ==
  \/ \E d \in Daemons : DaemonStep(d)
  \/ \E c \in Clients : Call(c) \/ Resolve(c) \/ ClientDies(c)
  \/ LockAges
  \/ StopStep

(* A call that has begun runs to its end, and time passes.  Nobody has to  *)
(* make calls, serve by hand or stop a daemon.                             *)
Fairness ==
  /\ \A c \in Clients : WF_vars(Resolve(c))
  /\ WF_vars(LockAges)

Spec == Init /\ [][Next]_vars /\ Fairness
-----------------------------------------------------------------------------
(* One starter at a time (FR-014): as long as no client has died, at most  *)
(* one of them is between taking the lock and releasing it, so the others  *)
(* wait instead of spawning.  A dead owner lets two reclaimers race.       *)
OneStarter ==
  (\A c \in Clients : ~At(c, "dead")) =>
    \A c, other \in Clients : client[c].holds /\ client[other].holds => c = other

(* No lock is left behind (the finally of resolveDaemonPort): a lock on    *)
(* disk belongs to a client that still has to release it or that died.     *)
LockHasOwner ==
  lock # NoOne => At(lock, "dead") \/ client[lock].holds

(* What a client resolves to was, when it was asked, a daemon of this      *)
(* project and version, even if the record is old and its port has passed  *)
(* on to somebody else (FR-013, FR-015).                                   *)
FoundIsOurs ==
  [][\A c \in Clients :
       client'[c].memo \notin {client[c].memo, NoPort} =>
         \E d \in Ours : AnswersAt(d, client'[c].memo)]_vars

(* stop decides to signal a pid only when that very daemon has answered,   *)
(* even if the record was stale when it was read and another daemon, of    *)
(* this project or not, has the recorded port by now.                      *)
StopSparesOthers ==
  [][stop.pc = "probe" /\ stop'.pc = "signal" => Up(stop.target)]_vars

(* Every call comes to an end: a daemon, an error, or the client's death.  *)
ResolutionEnds ==
  \A c \in Clients : ~At(c, "idle") ~> (At(c, "idle") \/ At(c, "dead"))

(* "Without reclaiming those, one crash would wedge the project's auto-    *)
(* start forever": if a client keeps asking for the lock, the lock of a    *)
(* dead starter does not stay.                                             *)
NeverWedged ==
  \A c \in Clients : []<>At(c, "lock") => []<>(lock = NoOne \/ ~At(lock, "dead"))

=============================================================================
