------------------------- MODULE DaemonStartProofs -------------------------
(***************************************************************************)
(* What holds of DaemonStart for every number of MCP processes, daemons    *)
(* and ports, and under every pattern of deaths: the variables keep their  *)
(* types, no lock is left without an owner that releases it or has died,   *)
(* and as long as no client has died there is one starter at a time.       *)
(***************************************************************************)
EXTENDS DaemonStart, TLAPS

(* The ports that are looked up belong to daemons that have listened.      *)
PortsKnown ==
  /\ \A d \in Daemons :
       /\ daemon[d].state \in {"writing", "up", "unlinking"} => daemon[d].port \in Ports
       /\ daemon[d].state = "writing" => d \in OfProject
  /\ record \in Daemons =>
       /\ daemon[record].port \in Ports
       /\ daemon[record].state \notin {"none", "starting"}

TypeInv == TypeOK /\ PortsKnown

(* While no client has died the lock is fresh, nobody reclaims it, and     *)
(* whoever believes to hold it is the owner on disk.                       *)
Undisturbed ==
  (\A c \in Clients : ~At(c, "dead")) =>
    /\ ~stale
    /\ \A c \in Clients : ~At(c, "reclaim") /\ (client[c].holds => lock = c)

LockInv ==
  /\ LockHasOwner
  /\ Undisturbed
  /\ \A c \in Clients : At(c, "release") => client[c].holds

(* What a client looks like after a resolution and after a poll.           *)
LEMMA SettledType ==
  ASSUME NEW cl \in Client, NEW port \in Ports \cup {NoPort}
  PROVE  /\ Settled(cl, port) \in Client
         /\ Settled(cl, port).holds = cl.holds
         /\ Settled(cl, port).pc \notin {"dead", "reclaim"}
         /\ Settled(cl, port).pc = "release" => cl.holds
<1> DEFINE pc == IF cl.holds THEN "release"
                 ELSE IF port = NoPort THEN "idle" ELSE "fetch"
<1>1. 0 \in 0 .. MaxPolls /\ <<>> \in Seq(Ports)
  BY BoundAssumption
<1>2. pc \in {"release", "idle", "fetch"} /\ (pc = "release" => cl.holds)
  OBVIOUS
<1>3. \A p \in {"release", "idle", "fetch"} :
        LET next == [cl EXCEPT !.memo = port, !.polls = 0, !.candidates = <<>>, !.pc = p]
        IN  next \in Client /\ next.holds = cl.holds /\ next.pc = p
  BY <1>1 DEF Client
<1>4. Settled(cl, port) =
        [cl EXCEPT !.memo = port, !.polls = 0, !.candidates = <<>>, !.pc = pc]
  BY DEF Settled
<1> HIDE DEF pc
<1> QED BY <1>2, <1>3, <1>4

LEMMA WaitingType ==
  ASSUME NEW cl \in Client
  PROVE  /\ Waiting(cl) \in Client
         /\ Waiting(cl).holds = cl.holds
         /\ Waiting(cl).pc = "search"
<1>1. 1 \in 0 .. MaxPolls
  BY BoundAssumption
<1> QED BY <1>1 DEF Waiting, Client

LEMMA AfterNothingType ==
  ASSUME NEW cl \in Client, NEW next \in AfterNothing(cl)
  PROVE  /\ next \in Client
         /\ next.holds = cl.holds
         /\ next.pc \notin {"dead", "reclaim"}
         /\ next.pc = "release" => cl.holds
<1>1. CASE cl.polls = 0
  BY <1>1 DEF AfterNothing, Client
<1>2. CASE cl.polls # 0
  <2>1. CASE next = Settled(cl, NoPort)
    BY <2>1, SettledType
  <2>2. CASE \E n \in {cl.polls + 1} \cap 1 .. MaxPolls :
               next = [cl EXCEPT !.pc = "search", !.polls = n]
    <3>1. \A n \in 1 .. MaxPolls : n \in 0 .. MaxPolls
      BY BoundAssumption
    <3> QED BY <2>2, <3>1 DEF Client
  <2> QED BY <1>2, <2>1, <2>2 DEF AfterNothing
<1> QED BY <1>1, <1>2

LEMMA CandidatesType ==
  ASSUME TypeInv
  PROVE  Candidates \in Seq(Ports)
<1>1. Pinned # NoPort => <<Pinned>> \in Seq(Ports)
  BY PortsAssumption
<1>2. Recorded \ {Pinned} # {} => <<daemon[record].port>> \in Seq(Ports)
  BY DEF Recorded, TypeInv, PortsKnown
<1>3. <<>> \in Seq(Ports)
  OBVIOUS
<1>4. \A s, t \in Seq(Ports) : s \o t \in Seq(Ports)
  OBVIOUS
<1> QED BY <1>1, <1>2, <1>3, <1>4 DEF Candidates

-----------------------------------------------------------------------------
(* How a step of client c may change c: it keeps its type, does not        *)
(* resurrect it, and changes what it holds in Take and ReleaseLock only.   *)
LEMMA ClientStepShape ==
  ASSUME TypeInv, NEW c \in Clients, Call(c) \/ Resolve(c) \/ ClientDies(c)
  PROVE  /\ client[c].pc # "dead"
         /\ client'[c] \in Client
         /\ client' = [client EXCEPT ![c] = client'[c]]
<1> DEFINE Changed(cl) == client' = [client EXCEPT ![c] = cl]
<1>1. client \in [Clients -> Client] /\ client[c] \in Client
  BY DEF TypeInv, TypeOK
<1>2. SUFFICES client[c].pc # "dead" /\ \E cl \in Client : Changed(cl)
  BY <1>1
<1>3. CASE Call(c)
  <2> DEFINE cl == [client[c] EXCEPT
               !.pc = IF client[c].memo # NoPort THEN "fetch" ELSE "search",
               !.lost = @ /\ client[c].memo # NoPort]
  <2>1. cl \in Client
    BY <1>1 DEF Client
  <2>2. Changed(cl)
    BY <1>3, <1>1 DEF Call
  <2> QED BY <1>3, <2>1, <2>2 DEF Call, At
<1>4. CASE FindOurDaemon(c)
  <2>1. [client[c] EXCEPT !.pc = "probe", !.candidates = Candidates] \in Client
    BY <1>1, CandidatesType DEF Client
  <2>2. Changed([client[c] EXCEPT !.pc = "probe", !.candidates = Candidates])
    BY <1>4, <1>1 DEF FindOurDaemon
  <2> QED BY <1>4, <2>1, <2>2 DEF FindOurDaemon, At
<1>5. CASE PassOver(c)
  <2>1. Tail(client[c].candidates) \in Seq(Ports)
    BY <1>5, <1>1 DEF PassOver, Client
  <2>2. [client[c] EXCEPT !.candidates = Tail(client[c].candidates)] \in Client
    BY <1>1, <2>1 DEF Client
  <2>3. Changed([client[c] EXCEPT !.candidates = Tail(client[c].candidates)])
    BY <1>5, <1>1 DEF PassOver
  <2> QED BY <1>5, <2>2, <2>3 DEF PassOver, At
<1>6. CASE Identified(c)
  <2>1. PICK d \in Daemons :
          /\ AnswersAt(d, Head(client[c].candidates))
          /\ Changed(Settled(client[c], IF Verdict(d) = "match" THEN daemon[d].port
                                                                ELSE NoPort))
    BY <1>6 DEF Identified
  <2>2. daemon[d].port \in Ports
    BY <2>1 DEF AnswersAt, Up, TypeInv, PortsKnown
  <2>3. (IF Verdict(d) = "match" THEN daemon[d].port ELSE NoPort) \in Ports \cup {NoPort}
    BY <2>2
  <2>4. Settled(client[c], IF Verdict(d) = "match" THEN daemon[d].port ELSE NoPort) \in Client
    BY <1>1, <2>3, SettledType
  <2> QED BY <1>6, <2>1, <2>4 DEF Identified, At
<1>7. CASE NothingFound(c)
  BY <1>7, <1>1, AfterNothingType DEF NothingFound, At
<1>8. CASE AcquireStartLock(c) \/ RetakeLock(c)
  <2>1. \A cl : cl \in Client /\ Take(c, cl) => \E next \in Client : Changed(next)
    <3>1. [client[c] EXCEPT !.pc = "spawn", !.holds = TRUE] \in Client
      BY <1>1 DEF Client
    <3>2. \A cl : Take(c, cl) =>
            Changed(cl) \/ Changed([client[c] EXCEPT !.pc = "spawn", !.holds = TRUE])
      BY <1>1 DEF Take
    <3> QED BY <3>1, <3>2
  <2>2. [client[c] EXCEPT !.pc = "stat"] \in Client
    BY <1>1 DEF Client
  <2>3. Waiting(client[c]) \in Client
    BY <1>1, WaitingType
  <2>4. \E next \in Client : Changed(next)
    BY <1>8, <2>1, <2>2, <2>3 DEF AcquireStartLock, RetakeLock
  <2> QED BY <1>8, <2>4 DEF AcquireStartLock, RetakeLock, At
<1>9. CASE StatLock(c)
  <2>1. Waiting(client[c]) \in Client
    BY <1>1, WaitingType
  <2>2. AfterStat(c) \in Client
    BY <2>1, <1>1 DEF AfterStat, Client
  <2> QED BY <1>9, <2>2 DEF StatLock, At
<1>10. CASE ReclaimLock(c)
  <2>1. [client[c] EXCEPT !.pc = "retake"] \in Client
    BY <1>1 DEF Client
  <2> QED BY <1>10, <1>1, <2>1 DEF ReclaimLock, Goto, At
<1>11. CASE SpawnDaemon(c)
  BY <1>11, <1>1, WaitingType DEF SpawnDaemon, At
<1>12. CASE ReleaseLock(c)
  <2> DEFINE cl == [client[c] EXCEPT !.holds = FALSE,
                      !.pc = IF client[c].memo = NoPort THEN "idle" ELSE "fetch"]
  <2>1. cl \in Client
    BY <1>1 DEF Client
  <2>2. Changed(cl)
    BY <1>12, <1>1 DEF ReleaseLock
  <2> QED BY <1>12, <2>1, <2>2 DEF ReleaseLock, At
<1>13. CASE Fetch(c)
  <2> DEFINE unanswered == \A d \in Daemons : ~AnswersAt(d, client[c].memo)
             cl == [client[c] EXCEPT !.pc = "idle", !.lost = unanswered]
  <2>1. unanswered \in BOOLEAN
    OBVIOUS
  <2>2. cl \in Client
    BY <1>1, <2>1 DEF Client
  <2>3. Changed(cl)
    BY <1>13, <1>1 DEF Fetch
  <2> QED BY <1>13, <2>2, <2>3 DEF Fetch, At
<1>14. CASE ClientDies(c)
  <2>1. [client[c] EXCEPT !.pc = "dead"] \in Client
    BY <1>1 DEF Client
  <2> QED BY <1>14, <1>1, <2>1 DEF ClientDies, Goto
<1> QED
  BY <1>3, <1>4, <1>5, <1>6, <1>7, <1>8, <1>9, <1>10, <1>11, <1>12, <1>13, <1>14 DEF Resolve

LEMMA TypeInit == Init => TypeInv
<1> SUFFICES ASSUME Init PROVE TypeInv
  OBVIOUS
<1>1. [pc |-> "idle", polls |-> 0, holds |-> FALSE, candidates |-> <<>>,
       memo |-> NoPort, lost |-> FALSE] \in Client
  <2>1. 0 \in 0 .. MaxPolls /\ <<>> \in Seq(Ports)
    BY BoundAssumption
  <2> QED BY <2>1 DEF Client
<1>2. TypeOK
  BY <1>1 DEF Init, TypeOK, Daemon, Stop
<1>3. PortsKnown
  BY NamesAssumption DEF Init, PortsKnown
<1> QED BY <1>2, <1>3 DEF TypeInv

(* A step of a daemon.                                                     *)
LEMMA TypeDaemonStep ==
  ASSUME TypeInv, NEW d \in Daemons, DaemonStep(d)
  PROVE  TypeInv'
<1>1. /\ daemon \in [Daemons -> Daemon]
      /\ record \in OfProject \cup {NoOne, Torn}
      /\ UNCHANGED <<lock, stale, client, stop>>
  BY DEF TypeInv, TypeOK, DaemonStep, ServeByHand, Listen, WriteDaemonRecord, Exit,
         UnlinkRecord, DaemonDies
<1>2. Torn \notin Daemons /\ NoOne \notin Daemons /\ OfProject \subseteq Daemons
  BY NamesAssumption, KindsAssumption DEF OfProject
<1>3. TypeOK' /\ PortsKnown'
  <2>1. CASE ServeByHand(d)
    BY <2>1, <1>1, <1>2 DEF ServeByHand, TypeInv, TypeOK, PortsKnown, Daemon
  <2>2. CASE \E p \in Ports : Listen(d, p)
    <3>1. PICK p \in Ports : Listen(d, p)
      BY <2>2
    <3>2. TypeOK'
      BY <3>1, <1>1, <1>2 DEF Listen, TypeInv, TypeOK, Daemon
    <3>3. \A e \in Daemons \ {d} : daemon'[e] = daemon[e]
      BY <3>1, <1>1 DEF Listen
    <3>4. daemon[d].state = "starting" /\ daemon'[d].port = p
      BY <3>1, <1>1 DEF Listen, Daemon
    <3>5. d \notin OfProject => daemon'[d].state = "up"
      BY <3>1, <1>1 DEF Listen, Daemon
    <3>6. \/ record' = Torn
          \/ record' = record /\ record # d
      BY <3>1, <3>4 DEF Listen, TypeInv, PortsKnown
    <3>7. PortsKnown'
      BY <3>3, <3>4, <3>5, <3>6, <1>2 DEF TypeInv, PortsKnown
    <3> QED BY <3>2, <3>7
  <2>3. CASE WriteDaemonRecord(d)
    BY <2>3, <1>1, <1>2 DEF WriteDaemonRecord, TypeInv, TypeOK, PortsKnown, Daemon
  <2>4. CASE Exit(d)
    BY <2>4, <1>1, <1>2 DEF Exit, Up, TypeInv, TypeOK, PortsKnown, Daemon
  <2>5. CASE UnlinkRecord(d)
    BY <2>5, <1>1, <1>2 DEF UnlinkRecord, TypeInv, TypeOK, PortsKnown, Daemon
  <2>6. CASE DaemonDies(d)
    BY <2>6, <1>1, <1>2 DEF DaemonDies, TypeInv, TypeOK, PortsKnown, Daemon
  <2> QED BY <2>1, <2>2, <2>3, <2>4, <2>5, <2>6 DEF DaemonStep
<1> QED BY <1>3 DEF TypeInv

(* A step of a client.                                                     *)
LEMMA TypeClientStep ==
  ASSUME TypeInv, NEW c \in Clients, Call(c) \/ Resolve(c) \/ ClientDies(c)
  PROVE  TypeInv'
<1>1. client' \in [Clients -> Client]
  BY ClientStepShape DEF TypeInv, TypeOK
<1>2. UNCHANGED <<record, stop>>
  BY DEF Call, Resolve, ClientDies, FindOurDaemon, PassOver, Identified, NothingFound,
         AcquireStartLock, StatLock, ReclaimLock, RetakeLock, Take, SpawnDaemon,
         ReleaseLock, Fetch
<1>3. lock' \in Clients \cup {NoOne} /\ stale' \in BOOLEAN
  BY DEF TypeInv, TypeOK, Call, Resolve, ClientDies, FindOurDaemon, PassOver, Identified,
         NothingFound, AcquireStartLock, StatLock, ReclaimLock, RetakeLock, Take,
         SpawnDaemon, ReleaseLock, LockRemoved, Fetch
<1>4. \/ daemon' = daemon
      \/ \E d \in Ours : /\ daemon[d].state = "none"
                         /\ daemon' = [daemon EXCEPT ![d].state = "starting", ![d].auto = TRUE]
  BY DEF Call, Resolve, ClientDies, FindOurDaemon, PassOver, Identified, NothingFound,
         AcquireStartLock, StatLock, ReclaimLock, RetakeLock, Take, SpawnDaemon,
         ReleaseLock, Fetch
<1>5. daemon' \in [Daemons -> Daemon] /\ PortsKnown'
  <2>1. CASE daemon' = daemon
    BY <2>1, <1>2 DEF TypeInv, TypeOK, PortsKnown
  <2>2. ASSUME NEW d \in Ours, daemon[d].state = "none",
               daemon' = [daemon EXCEPT ![d].state = "starting", ![d].auto = TRUE]
        PROVE  daemon' \in [Daemons -> Daemon] /\ PortsKnown'
    BY <2>2, <1>2, KindsAssumption DEF TypeInv, TypeOK, PortsKnown, Daemon
  <2> QED BY <1>4, <2>1, <2>2
<1> QED BY <1>1, <1>2, <1>3, <1>5 DEF TypeInv, TypeOK

(* A step of the stop command.                                             *)
LEMMA TypeStopStep ==
  ASSUME TypeInv, StopStep
  PROVE  TypeInv'
<1>1. UNCHANGED <<lock, stale, daemon, client>> /\ record' \in {record, NoOne}
  BY DEF StopStep, StopProjectDaemon, StopProbe, StopSignal, StopForget, StopUnlink
<1>2. stop' \in Stop
  <2>1. stop \in Stop
    BY DEF TypeInv, TypeOK
  <2>2. Ended \in Stop /\ \A pc \in {"probe", "signal", "forget", "unlink"} :
                            [stop EXCEPT !.pc = pc] \in Stop
    BY <2>1 DEF Ended, Stop
  <2>3. \A d \in Daemons : [pc |-> "probe", target |-> d] \in Stop
    BY DEF Stop
  <2> QED BY <2>2, <2>3 DEF StopStep, StopProjectDaemon, StopProbe, StopSignal, StopForget,
                            StopUnlink
<1>3. NoOne \notin Daemons
  BY NamesAssumption
<1> QED BY <1>1, <1>2, <1>3 DEF TypeInv, TypeOK, PortsKnown

LEMMA TypeStep == TypeInv /\ [Next]_vars => TypeInv'
<1> SUFFICES ASSUME TypeInv, [Next]_vars PROVE TypeInv'
  OBVIOUS
<1>1. CASE LockAges
  BY <1>1 DEF LockAges, TypeInv, TypeOK, PortsKnown
<1>2. CASE UNCHANGED vars
  BY <1>2 DEF vars, TypeInv, TypeOK, PortsKnown
<1> QED BY <1>1, <1>2, TypeDaemonStep, TypeClientStep, TypeStopStep DEF Next

(* Every variable keeps its type: in particular a client only ever probes  *)
(* ports somebody listened on, and polls no more often than it may.        *)
THEOREM TypeCorrect == Spec => []TypeOK
<1>1. TypeInv => TypeOK
  BY DEF TypeInv
<1> QED BY TypeInit, TypeStep, <1>1, PTL DEF Spec

-----------------------------------------------------------------------------
(* What a step of client c does to the lock.                               *)
LEMMA LockClientStep ==
  ASSUME TypeInv, LockInv, NEW c \in Clients, Call(c) \/ Resolve(c) \/ ClientDies(c)
  PROVE  LockInv'
<1> DEFINE old == client[c]
           new == client'[c]
<1>1. /\ old.pc # "dead"
      /\ client' = [client EXCEPT ![c] = new]
      /\ client \in [Clients -> Client]
      /\ new \in Client
      /\ lock \in Clients \cup {NoOne}
  BY ClientStepShape DEF TypeInv, TypeOK
<1>2. \A o \in Clients \ {c} : client'[o] = client[o]
  BY <1>1
<1>3. CASE /\ UNCHANGED <<lock, stale>>
           /\ new.holds = old.holds
           /\ new.pc = "reclaim" => (lock # NoOne /\ stale)
           /\ new.pc = "release" => old.holds
  <2>1. LockHasOwner'
    BY <1>1, <1>2, <1>3 DEF LockInv, LockHasOwner, At
  <2>2. Undisturbed'
    BY <1>1, <1>2, <1>3 DEF LockInv, Undisturbed, At
  <2>3. (\A o \in Clients : At(o, "release") => client[o].holds)'
    BY <1>1, <1>2, <1>3 DEF LockInv, At
  <2> QED BY <2>1, <2>2, <2>3 DEF LockInv
<1>4. CASE /\ lock = NoOne /\ lock' = c /\ stale' = FALSE
           /\ new.holds /\ new.pc = "spawn"
  <2>1. LockHasOwner'
    BY <1>1, <1>4 DEF LockHasOwner
  <2>2. Undisturbed'
    BY <1>1, <1>2, <1>4, NamesAssumption DEF LockInv, Undisturbed, At
  <2>3. (\A o \in Clients : At(o, "release") => client[o].holds)'
    BY <1>1, <1>2, <1>4 DEF LockInv, At
  <2> QED BY <2>1, <2>2, <2>3 DEF LockInv
<1>5. CASE ReclaimLock(c)
  <2>1. lock' = NoOne /\ new.pc = "retake" /\ new.holds = old.holds /\ old.pc = "reclaim"
    BY <1>1, <1>5 DEF ReclaimLock, Goto, At
  <2>2. Undisturbed'
    BY <2>1, <1>1, <1>2 DEF LockInv, Undisturbed, At
  <2>3. (\A o \in Clients : At(o, "release") => client[o].holds)'
    BY <2>1, <1>1, <1>2 DEF LockInv, At
  <2> QED BY <2>1, <2>2, <2>3 DEF LockInv, LockHasOwner
<1>6. CASE ReleaseLock(c)
  <2>1. /\ lock' = NoOne /\ stale' = FALSE
        /\ new.pc \in {"idle", "fetch"} /\ ~new.holds
        /\ old.pc = "release"
    BY <1>1, <1>6 DEF ReleaseLock, LockRemoved, At, Client
  <2>2. old.holds
    BY <2>1 DEF LockInv, At
  <2>3. Undisturbed'
    BY <2>1, <2>2, <1>1, <1>2 DEF LockInv, Undisturbed, At
  <2>4. (\A o \in Clients : At(o, "release") => client[o].holds)'
    BY <2>1, <1>1, <1>2 DEF LockInv, At
  <2> QED BY <2>1, <2>3, <2>4 DEF LockInv, LockHasOwner
<1>7. CASE Call(c) \/ FindOurDaemon(c) \/ PassOver(c) \/ Fetch(c) \/ ClientDies(c)
  BY <1>1, <1>3, <1>7 DEF Call, FindOurDaemon, PassOver, Fetch, ClientDies, Goto, At, Client
<1>8. CASE Identified(c)
  <2>1. PICK d \in Daemons :
          /\ AnswersAt(d, Head(old.candidates))
          /\ client' = [client EXCEPT
               ![c] = Settled(old, IF Verdict(d) = "match" THEN daemon[d].port ELSE NoPort)]
    BY <1>8 DEF Identified
  <2>2. (IF Verdict(d) = "match" THEN daemon[d].port ELSE NoPort) \in Ports \cup {NoPort}
    BY <2>1 DEF AnswersAt, Up, TypeInv, PortsKnown
  <2>3. /\ new.holds = old.holds
        /\ new.pc # "reclaim"
        /\ new.pc = "release" => old.holds
    BY <1>1, <2>1, <2>2, SettledType
  <2> QED BY <1>3, <1>8, <2>3 DEF Identified
<1>9. CASE NothingFound(c)
  <2>1. PICK next \in AfterNothing(old) : client' = [client EXCEPT ![c] = next]
    BY <1>9 DEF NothingFound
  <2>2. /\ new.holds = old.holds
        /\ new.pc # "reclaim"
        /\ new.pc = "release" => old.holds
    BY <1>1, <2>1, AfterNothingType
  <2> QED BY <1>3, <1>9, <2>2 DEF NothingFound
<1>10. ASSUME NEW otherwise \in Client, Take(c, otherwise),
              otherwise.holds = old.holds, otherwise.pc \in {"stat", "search"}
       PROVE  LockInv'
  <2>1. CASE Created
    <3>1. new = [old EXCEPT !.pc = "spawn", !.holds = TRUE]
      BY <1>1, <1>10, <2>1 DEF Take
    <3>2. new.pc = "spawn" /\ new.holds
      BY <3>1, <1>1 DEF Client
    <3> QED BY <1>4, <1>10, <2>1, <3>2 DEF Take, Created
  <2>2. CASE ~Created
    BY <1>1, <1>3, <1>10, <2>2 DEF Take
  <2> QED BY <2>1, <2>2
<1>11. CASE AcquireStartLock(c)
  <2>1. LET cl == [old EXCEPT !.pc = "stat"]
        IN  cl \in Client /\ cl.holds = old.holds /\ cl.pc = "stat"
    BY <1>1 DEF Client
  <2> QED BY <1>10, <1>11, <2>1 DEF AcquireStartLock
<1>12. CASE RetakeLock(c)
  BY <1>1, <1>10, <1>12, WaitingType DEF RetakeLock
<1>13. CASE StatLock(c)
  <2>1. new = AfterStat(c)
    BY <1>1, <1>13 DEF StatLock
  <2>2. CASE lock # NoOne /\ ~stale
    BY <1>1, <1>3, <1>13, <2>1, <2>2, WaitingType DEF StatLock, AfterStat
  <2>3. CASE ~(lock # NoOne /\ ~stale)
    <3>1. new.holds = old.holds /\ new.pc = IF lock = NoOne THEN "retake" ELSE "reclaim"
      BY <1>1, <2>1, <2>3 DEF AfterStat, Client
    <3> QED BY <1>3, <1>13, <2>3, <3>1 DEF StatLock, TypeInv, TypeOK
  <2> QED BY <2>2, <2>3
<1>14. CASE SpawnDaemon(c)
  <2>1. new = Waiting(old)
    BY <1>1, <1>14 DEF SpawnDaemon
  <2> QED BY <1>1, <1>3, <1>14, <2>1, WaitingType DEF SpawnDaemon
<1> QED
  BY <1>5, <1>6, <1>7, <1>8, <1>9, <1>11, <1>12, <1>13, <1>14 DEF Resolve

LEMMA LockInvariant == Spec => []LockInv
<1>1. Init => LockInv
  BY DEF Init, LockInv, LockHasOwner, Undisturbed, At
<1>2. TypeInv /\ LockInv /\ [Next]_vars => LockInv'
  <2> SUFFICES ASSUME TypeInv, LockInv, [Next]_vars PROVE LockInv'
    OBVIOUS
  <2>1. CASE \E d \in Daemons : DaemonStep(d)
    <3>1. UNCHANGED <<lock, stale, client>>
      BY <2>1 DEF DaemonStep, ServeByHand, Listen, WriteDaemonRecord, Exit, UnlinkRecord,
                  DaemonDies
    <3> QED BY <3>1 DEF LockInv, LockHasOwner, Undisturbed, At
  <2>2. CASE LockAges
    <3>1. lock \in Clients /\ At(lock, "dead") /\ UNCHANGED <<lock, client>>
      BY <2>2 DEF LockAges, TypeInv, TypeOK
    <3> QED BY <3>1 DEF LockInv, LockHasOwner, Undisturbed, At
  <2>3. CASE StopStep
    <3>1. UNCHANGED <<lock, stale, client>>
      BY <2>3 DEF StopStep, StopProjectDaemon, StopProbe, StopSignal, StopForget, StopUnlink
    <3> QED BY <3>1 DEF LockInv, LockHasOwner, Undisturbed, At
  <2>4. CASE UNCHANGED vars
    BY <2>4 DEF vars, LockInv, LockHasOwner, Undisturbed, At
  <2> QED BY <2>1, <2>2, <2>3, <2>4, LockClientStep DEF Next
<1> QED BY TypeInit, TypeStep, <1>1, <1>2, PTL DEF Spec

(* FR-014 for any number of MCP processes: while none of them has died, at *)
(* most one is between taking the start lock and releasing it.             *)
THEOREM OneStarterAtATime == Spec => []OneStarter
<1>1. LockInv => OneStarter
  BY DEF LockInv, Undisturbed, OneStarter
<1> QED BY LockInvariant, <1>1, PTL

(* For any number of processes and whichever of them die: the start lock   *)
(* never outlives its use, unless its owner died with it.                  *)
THEOREM NoLockLeftBehind == Spec => []LockHasOwner
<1>1. LockInv => LockHasOwner
  BY DEF LockInv
<1> QED BY LockInvariant, <1>1, PTL

-----------------------------------------------------------------------------
(* What a resolution changes: only a port that answered for a daemon of    *)
(* this project and version is memoised.                                   *)
LEMMA MemoStep ==
  ASSUME TypeInv, NEW o \in Clients, Call(o) \/ Resolve(o) \/ ClientDies(o),
         NEW c \in Clients, client'[c].memo \notin {client[c].memo, NoPort}
  PROVE  \E d \in Ours : AnswersAt(d, client'[c].memo)
<1>1. client' = [client EXCEPT ![o] = client'[o]] /\ client \in [Clients -> Client]
  BY ClientStepShape DEF TypeInv, TypeOK
<1>2. o = c
  BY <1>1
<1>3. CASE Identified(c)
  <2>1. PICK d \in Daemons :
          /\ AnswersAt(d, Head(client[c].candidates))
          /\ client' = [client EXCEPT ![c] =
               Settled(client[c], IF Verdict(d) = "match" THEN daemon[d].port ELSE NoPort)]
    BY <1>3 DEF Identified
  <2>2. \A cl \in Client : \A port \in Ports \cup {NoPort} : Settled(cl, port).memo = port
    BY DEF Settled, Client
  <2>3. client'[c].memo = IF Verdict(d) = "match" THEN daemon[d].port ELSE NoPort
    <3>1. daemon[d].port \in Ports
      BY <2>1 DEF AnswersAt, Up, TypeInv, PortsKnown
    <3> QED BY <1>1, <2>1, <2>2, <3>1
  <2>4. d \in Ours /\ client'[c].memo = daemon[d].port
    BY <2>3 DEF Verdict
  <2> QED BY <2>1, <2>4 DEF AnswersAt
<1>4. CASE NothingFound(c)
  <2>1. PICK next \in AfterNothing(client[c]) : client' = [client EXCEPT ![c] = next]
    BY <1>4 DEF NothingFound
  <2>2. client[c] \in Client
    BY <1>1
  <2>3. CASE next = Settled(client[c], NoPort)
    BY <1>1, <2>1, <2>2, <2>3 DEF Settled, Client
  <2>4. CASE next = [client[c] EXCEPT !.pc = "lock"]
    BY <1>1, <2>1, <2>2, <2>4 DEF Client
  <2>5. CASE \E n \in {client[c].polls + 1} \cap 1 .. MaxPolls :
               next = [client[c] EXCEPT !.pc = "search", !.polls = n]
    BY <1>1, <2>1, <2>2, <2>5 DEF Client
  <2> QED BY <2>1, <2>3, <2>4, <2>5 DEF AfterNothing
<1>5. CASE Call(c) \/ FindOurDaemon(c) \/ PassOver(c) \/ Fetch(c) \/ ClientDies(c)
           \/ ReclaimLock(c) \/ ReleaseLock(c)
  BY <1>1, <1>5 DEF Call, FindOurDaemon, PassOver, Fetch, ClientDies, ReclaimLock,
                    ReleaseLock, Goto, Client
<1>6. CASE AcquireStartLock(c) \/ RetakeLock(c) \/ StatLock(c) \/ SpawnDaemon(c)
  <2>1. \A cl \in Client : Waiting(cl).memo = cl.memo
    BY DEF Waiting, Client
  <2> QED
    BY <1>1, <1>6, <2>1 DEF AcquireStartLock, RetakeLock, Take, StatLock, AfterStat,
                            SpawnDaemon, Client
<1> QED BY <1>2, <1>3, <1>4, <1>5, <1>6 DEF Resolve

(* For any number of processes, daemons and ports, however old the record  *)
(* and whoever has its port: a client resolves to a daemon of its own      *)
(* project and version, that answers at that moment (FR-013, FR-015).      *)
THEOREM OnlyOursIsFound == Spec => FoundIsOurs
<1>1. TypeInv /\ [Next]_vars =>
        [\A c \in Clients :
           client'[c].memo \notin {client[c].memo, NoPort} =>
             \E d \in Ours : AnswersAt(d, client'[c].memo)]_vars
  <2> SUFFICES ASSUME TypeInv, [Next]_vars, NEW c \in Clients,
                      client'[c].memo \notin {client[c].memo, NoPort}
               PROVE  \E d \in Ours : AnswersAt(d, client'[c].memo)
    OBVIOUS
  <2>1. CASE \E o \in Clients : Call(o) \/ Resolve(o) \/ ClientDies(o)
    BY <2>1, MemoStep
  <2>2. CASE LockAges \/ StopStep \/ (\E d \in Daemons : DaemonStep(d)) \/ UNCHANGED vars
    <3>1. client' = client
      BY <2>2 DEF LockAges, StopStep, StopProjectDaemon, StopProbe, StopSignal, StopForget,
                  StopUnlink, DaemonStep, ServeByHand, Listen, WriteDaemonRecord, Exit,
                  UnlinkRecord, DaemonDies, vars
    <3> QED BY <3>1
  <2> QED BY <2>1, <2>2 DEF Next
<1> QED BY TypeInit, TypeStep, <1>1, PTL DEF Spec, FoundIsOurs

(* For any daemons and ports: stop only ever signals a pid that has just   *)
(* answered for itself.                                                    *)
THEOREM StopIsCareful == Spec => StopSparesOthers
<1>1. [Next]_vars => [stop.pc = "probe" /\ stop'.pc = "signal" => Up(stop.target)]_vars
  <2> SUFFICES ASSUME [Next]_vars, stop.pc = "probe", stop'.pc = "signal"
               PROVE  Up(stop.target)
    OBVIOUS
  <2>1. StopProbe
    BY DEF Next, vars, DaemonStep, ServeByHand, Listen, WriteDaemonRecord, Exit,
           UnlinkRecord, DaemonDies, Call, Resolve, ClientDies, FindOurDaemon, PassOver,
           Identified, NothingFound, AcquireStartLock, StatLock, ReclaimLock, RetakeLock,
           Take, SpawnDaemon, ReleaseLock, Fetch, LockAges, StopStep, StopProjectDaemon,
           StopSignal, StopForget, StopUnlink
  <2>2. stop'.pc = "signal" => stop' # Ended
    BY DEF Ended
  <2> QED BY <2>1, <2>2 DEF StopProbe, MaySignal, AnswersAt
<1> QED BY <1>1, PTL DEF Spec, StopSparesOthers
=============================================================================
