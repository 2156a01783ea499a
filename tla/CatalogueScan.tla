------------------------------ MODULE CatalogueScan ------------------------------
(* The long-form scans of one source asset (backend/app/catalog/              *)
(* scan_scheduler.py) and their rows in the store (.../store.py): one scan at *)
(* a time, cancelled through an event that the scan polls, started again      *)
(* after a restart.                                                           *)
EXTENDS Naturals

CONSTANT Scans  \* segmentation jobs of the asset, in the order of creation

ASSUME ScansAssumption == Scans \in Nat

VARIABLES
  scan,       \* state of each row of segmentation_jobs; "none" before it
  revisions,  \* the scans whose segments were stored as a revision of the map
  active,     \* _active: its job, where _process is, its event, still known
  request     \* a cancel whose row was written and whose event was not yet set

scanVars == <<scan, revisions, active, request>>

Job == 1 .. Scans
NoScan == [job |-> 0, at |-> "none", stop |-> FALSE, known |-> FALSE]
NoRequest == [job |-> 0, state |-> "none"]
Pending == {"queued", "running"}

(* An asset whose first scans have given it a map, or none yet. *)
ScanInit ==
  /\ \E mapped \in 0 .. Scans :
       /\ scan = [j \in Job |-> IF j <= mapped THEN "completed" ELSE "none"]
       /\ revisions = 1 .. mapped
  /\ active = NoScan
  /\ request = NoRequest

(* create_segmentation_job gives the pending job of the asset when it has one.*)
StartAsset(j) ==
  /\ scan[j] = "none" /\ \A i \in Job : i < j => scan[i] # "none"
  /\ \A i \in Job : scan[i] \notin Pending
  /\ scan' = [scan EXCEPT ![j] = "queued"]
  /\ UNCHANGED <<revisions, active, request>>

(* The first half of cancel: the row, in a thread. *)
RequestCancel(j) ==
  /\ request = NoRequest /\ scan[j] \in Pending
  /\ scan' = [scan EXCEPT ![j] = IF @ = "queued" THEN "cancelled" ELSE @]
  /\ request' = [job |-> j, state |-> scan'[j]]
  /\ UNCHANGED <<revisions, active>>

(* The second half sets the event of a running scan, or forgets it.  An event *)
(* that was forgotten is still the one the scan polls.                        *)
SignalCancel ==
  /\ request # NoRequest
  /\ active' =
       IF request.job # active.job THEN active
       ELSE IF request.state = "running"
         THEN [active EXCEPT !.stop = @ \/ active.known]
         ELSE [active EXCEPT !.known = FALSE]
  /\ request' = NoRequest
  /\ UNCHANGED <<scan, revisions>>

-----------------------------------------------------------------------------
(* The runner and _process *)

TakeScan(j) ==
  /\ active = NoScan
  /\ scan[j] = "queued" /\ \A i \in Job : i < j => scan[i] # "queued"
  /\ active' = [NoScan EXCEPT !.job = j, !.at = "taken", !.known = TRUE]
  /\ UNCHANGED <<scan, revisions, request>>

(* Whatever the row says by now. *)
BeginScan ==
  /\ active.at = "taken"
  /\ scan' = [scan EXCEPT ![active.job] = "running"]
  /\ active' = [active EXCEPT !.at = "scanning"]
  /\ UNCHANGED <<revisions, request>>

EndScan(state) ==
  /\ scan' = [scan EXCEPT ![active.job] = state]
  /\ active' = NoScan
  /\ UNCHANGED request

ScanSucceeds ==
  /\ active.at = "scanning" /\ ~active.stop
  /\ active' = [active EXCEPT !.at = "scanned"]
  /\ UNCHANGED <<scan, revisions, request>>

ScanStops ==
  /\ active.at = "scanning" /\ active.stop
  /\ EndScan("cancelled") /\ UNCHANGED revisions

(* An exception anywhere, even when the map is stored. *)
ScanFails ==
  /\ active.at # "none"
  /\ EndScan("failed") /\ UNCHANGED revisions

(* replace_segments deletes the segments of the asset first, which the store  *)
(* refuses as long as a row refers to one of them.                            *)
StoreMap(referenced) ==
  /\ active.at = "scanned"
  /\ \/ /\ referenced
        /\ EndScan("failed") /\ UNCHANGED revisions
     \/ /\ ~referenced
        /\ revisions' = revisions \cup {active.job}
        /\ active' = [active EXCEPT !.at = "stored"]
        /\ UNCHANGED <<scan, request>>

(* A cancel that came after the scan is not looked at any more. *)
CompleteScan ==
  /\ active.at = "stored"
  /\ EndScan("completed") /\ UNCHANGED revisions

Process(referenced) ==
  \/ BeginScan \/ ScanSucceeds \/ ScanStops \/ ScanFails
  \/ StoreMap(referenced) \/ CompleteScan

(* recover_segmentation_jobs *)
RecoverScans ==
  /\ scan' = [j \in Job |-> IF scan[j] = "running" THEN "queued" ELSE scan[j]]
  /\ active' = NoScan /\ request' = NoRequest
  /\ UNCHANGED revisions
=============================================================================
