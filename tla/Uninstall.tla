------------------------------ MODULE Uninstall ------------------------------
(***************************************************************************)
(* "agent-flows uninstall" (src/harness/uninstall.ts): the registrations   *)
(* of Harnesses are removed, then the user is asked whether to delete the  *)
(* personal library and the state of the projects, which the daemons of    *)
(* ProjectHome may still be using.                                         *)
(***************************************************************************)
EXTENDS Harnesses, ProjectHome

vars == <<harnesses, home>>

Init == HarnessInit /\ HomeInit

(* The user asks for an install or an uninstall, one at a time.            *)
BeginCommand(verb) ==
  /\ offer.at = "idle"
  /\ Begin(verb)
  /\ UNCHANGED home

(* The results are printed.  Without a terminal nothing is asked.          *)
Report ==
  /\ job.at = "report"
  /\ job' = Idle
  /\ \/ offer' = offer
     \/ job.verb = "uninstall" /\ offer' = [NoOffer EXCEPT !.at = "library"]
  /\ UNCHANGED <<onPath, here, entry, config, backup, rival, found, events>>
  /\ UNCHANGED <<dir, start, library, deaths, spoiled, seen>>

(* What the questions leave alone.                                         *)
AskOnly == UNCHANGED <<harnesses, deaths>>

(* offerLibrary: only an explicit yes deletes.                             *)
OfferLibrary ==
  /\ offer.at = "library"
  /\ library' \in {library, FALSE}
  /\ offer' = [offer EXCEPT !.at = "projects"]
  /\ AskOnly /\ UNCHANGED <<dir, start, spoiled, seen>>

Existing == {p \in Project : dir[p] # Absent}

(* offerProjects: lists the state directories, and asks.                   *)
OfferProjects ==
  /\ offer.at = "projects"
  /\ offer' = IF Existing = {} THEN NoOffer
              ELSE [offer EXCEPT !.at = "ask", !.listed = Existing]
  /\ AskOnly /\ UNCHANGED <<dir, start, library, spoiled, seen>>

Keep ==
  /\ offer.at = "ask"
  /\ offer' = NoOffer
  /\ AskOnly /\ UNCHANGED <<dir, start, library, spoiled, seen>>

(* A yes: stopAllDaemons lists the directories again.                      *)
StopAllDaemons ==
  /\ offer.at = "ask"
  /\ offer' = [offer EXCEPT !.at = "stop", !.left = Existing]
  /\ AskOnly /\ UNCHANGED <<dir, start, library, spoiled, seen>>

(* stopProjectDaemon as its caller sees it (see DaemonStart): the recorded *)
(* daemon is stopped, or it outlives its SIGTERM, or it does not answer in *)
(* time; where it has gone, its port may be held by somebody else.         *)
Stopped(p) ==
  LET s == dir[p].record IN
  /\ start' = [start EXCEPT ![s].pc = "dead"]
  /\ dir' = [dir EXCEPT ![p].record = Absent]
  /\ seen' = seen \cup {s}
  /\ offer' = [offer EXCEPT !.left = @ \ {p}]

(* The outcome "unresolved".                                               *)
Unresolved(p) == offer' = [offer EXCEPT !.left = @ \ {p}, !.blocked = @ \cup {p}]

NoDaemon(p) == offer' = [offer EXCEPT !.left = @ \ {p}]

StopProjectDaemon(p) ==
  /\ offer.at = "stop"
  /\ p \in offer.left
  /\ IF dir[p] = Absent \/ dir[p].record = Absent
     THEN NoDaemon(p) /\ UNCHANGED <<dir, start, seen>>
     ELSE IF At(dir[p].record, "up")
     THEN \/ Stopped(p)
          \/ Unresolved(p) /\ seen' = seen \cup {dir[p].record} /\ UNCHANGED <<dir, start>>
          \/ NoDaemon(p) /\ UNCHANGED <<dir, start, seen>>
     ELSE /\ Unresolved(p) \/ NoDaemon(p)
          /\ UNCHANGED <<dir, start, seen>>
  /\ AskOnly /\ UNCHANGED <<library, spoiled>>

AllStopped ==
  /\ offer.at = "stop"
  /\ offer.left = {}
  /\ offer' = [offer EXCEPT !.at = "delete", !.left = offer.listed]
  /\ AskOnly /\ UNCHANGED <<dir, start, library, spoiled, seen>>

(* Variant: what was not stopped is deleted all the same.                  *)
NothingKept(p) == FALSE

(* A project whose daemon could not be identified and stopped is kept.     *)
Kept(p) == p \in offer.blocked

DeleteState(p) ==
  /\ offer.at = "delete"
  /\ p \in offer.left
  /\ offer' = [offer EXCEPT !.left = @ \ {p}]
  /\ IF Kept(p) THEN UNCHANGED <<dir, spoiled>>
     ELSE /\ dir' = [dir EXCEPT ![p] = Absent]
          /\ spoiled' = spoiled \cup {p}
  /\ AskOnly /\ UNCHANGED <<start, library, seen>>

(* The directory of the projects goes too if nothing is left in it.        *)
EndUninstall ==
  /\ offer.at = "delete"
  /\ offer.left = {}
  /\ offer' = NoOffer
  /\ seen' = {}
  /\ AskOnly /\ UNCHANGED <<dir, start, library, spoiled>>

Ask ==
  \/ OfferLibrary \/ OfferProjects \/ Keep \/ StopAllDaemons \/ AllStopped \/ EndUninstall
  \/ \E p \in Project : StopProjectDaemon(p) \/ DeleteState(p)

Next ==
  \/ \E verb \in {"install", "uninstall"} : BeginCommand(verb)
  \/ (HarnessStep \/ UserStep) /\ UNCHANGED home
  \/ Report
  \/ Ask
  \/ (\E s \in Start : StartStep(s)) /\ UNCHANGED harnesses
  \/ (\E p \in Project : LockAges(p)) /\ UNCHANGED harnesses

Spec == Init /\ [][Next]_vars

---------------------------------------------------------------------------
(* Properties.                                                             *)

(* No state directory is deleted under a daemon that is recorded there and *)
(* answers: "deleting a database directory out from under a live process   *)
(* is worse than leaving it behind" (offerProjects).  One that is too busy *)
(* to answer a probe within its 2 s, or starts after its project was       *)
(* looked at, or is not the recorded one, is not protected.                *)
LiveStateIsKept ==
  [][\A s \in seen :
       dir[ProjectOf[s]] # Absent /\ dir'[ProjectOf[s]] = Absent => At(s, "dead")]_vars
=============================================================================
