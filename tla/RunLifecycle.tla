--------------------------- MODULE RunLifecycle ---------------------------
(***************************************************************************)
(* What the run service promises the operator and the callers of           *)
(* waitForSettled, whatever the interleaving of approvals, cancellations,  *)
(* engine answers and model calls:                                         *)
(*                                                                         *)
(*   - a run executes, stops at a gate, executes again, and ends once;     *)
(*     nothing revives or relabels a run that has ended;                   *)
(*   - every gate is answered at most once before the next one is reached; *)
(*   - the promise handed to the starter resolves at most once, and with   *)
(*     the status the run has at that moment.                              *)
(*                                                                         *)
(* This is the RunRecord of runService.ts reduced to the fields a caller   *)
(* can rely on.  RunService implements it (see Lifecycle there).           *)
(***************************************************************************)
EXTENDS Naturals

CONSTANT NumGates     \* gate suspensions the workflow can reach

VARIABLES
  status,             \* RunRecord.status
  gate,               \* the last suspension reached, 0 before the first
  settled             \* what settledPromise resolved with, "pending" before

vars == <<status, gate, settled>>

Terminal == {"succeeded", "rejected", "failed", "cancelled"}

Open == {"running", "awaiting_approval"}

Init ==
  /\ status = "running"
  /\ gate = 0
  /\ settled = "pending"

(* A step may resolve the promise, once, with the status it leaves behind. *)
MaySettle ==
  \/ UNCHANGED settled
  \/ /\ settled = "pending"
     /\ status' # "running"
     /\ settled' = status'

Suspend ==
  /\ status = "running"
  /\ gate < NumGates
  /\ status' = "awaiting_approval"
  /\ gate' = gate + 1
  /\ MaySettle

Answer ==
  /\ status = "awaiting_approval"
  /\ status' = "running"
  /\ UNCHANGED <<gate, settled>>

(* Only a cancellation ends a run that waits at a gate. *)
Finish ==
  /\ status \in Open
  /\ status' \in Terminal
  /\ status = "awaiting_approval" => status' = "cancelled"
  /\ UNCHANGED gate
  /\ MaySettle

SettleLater ==
  /\ UNCHANGED <<status, gate>>
  /\ MaySettle

Next == Suspend \/ Answer \/ Finish \/ SettleLater

Spec == Init /\ [][Next]_vars
=============================================================================
