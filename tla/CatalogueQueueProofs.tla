------------------------- MODULE CatalogueQueueProofs -------------------------
(* What the rows of the catalogue say has happened (RowsAreTrue), for every   *)
(* number of scans, items, tasks and requests.                                *)
EXTENDS CatalogueQueue, TLAPS

ItemRow == [state : {"none", "queued", "running", "completed", "failed", "cancelled"},
            job : Nat]
TaskRow == [item : Nat, doomed : BOOLEAN, at : {"none", "new", "accepted", "running",
              "registered", "ending", "closing", "patching"}]
ScanState == {"none", "queued", "running", "completed", "failed", "cancelled"}
ActiveRow == [job : Nat, stop : BOOLEAN, known : BOOLEAN,
              at : {"none", "taken", "scanning", "scanned", "stored"}]

Types ==
  /\ scan \in [Job -> ScanState] /\ active \in ActiveRow
  /\ item \in [Item -> ItemRow] /\ task \in [Slot -> TaskRow]

(* A running scan is the one at work, past its first step; its row is closed  *)
(* as completed only after its segments were stored.                          *)
ScanRows ==
  /\ \A j \in Job :
       /\ scan[j] = "running" =>
            active.job = j /\ active.at \in {"scanning", "scanned", "stored"}
       /\ scan[j] = "completed" => j \in revisions
  /\ active.at = "stored" => active.job \in revisions

(* The task that backs a running item is one that will still write its row,   *)
(* and a task that will complete its item has stored the result.              *)
Backed(i) == \E k \in Slot : task[k].item = i /\ task[k].at \in {"running", "registered"}

ItemRows ==
  /\ \A i \in Item :
       /\ item[i].state = "running" => Backed(i)
       /\ item[i].state = "completed" => i \in results
  /\ \A k \in Slot : task[k].at = "registered" => task[k].item \in results

QueueInv == Types /\ ScanRows /\ ItemRows

LEMMA RowsFollow == QueueInv => RowsAreTrue
BY DEF QueueInv, ScanRows, ItemRows, Backed, RowsAreTrue

-----------------------------------------------------------------------------
LEMMA InitHolds == Init => QueueInv
<1> SUFFICES ASSUME Init PROVE QueueInv
  OBVIOUS
<1>1. /\ item \in [Item -> ItemRow] /\ \A i \in Item : item[i].state \in {"none", "queued"}
  BY DEF Init, ItemRow
<1>2. task \in [Slot -> TaskRow] /\ \A k \in Slot : task[k].at = "none"
  BY DEF Init, TaskRow, NoTask
<1>3. active \in ActiveRow /\ active.at = "none"
  BY DEF Init, ScanInit, ActiveRow, NoScan
<1>4. PICK mapped \in 0 .. Scans :
        /\ scan = [j \in Job |-> IF j <= mapped THEN "completed" ELSE "none"]
        /\ revisions = 1 .. mapped
  BY DEF Init, ScanInit
<1>5. /\ scan \in [Job -> ScanState]
      /\ \A j \in Job : scan[j] # "running" /\ (scan[j] = "completed" => j \in revisions)
  BY <1>4, ScansAssumption DEF Job, ScanState
<1> QED BY <1>1, <1>2, <1>3, <1>5 DEF QueueInv, Types, ScanRows, ItemRows

(* The scans: their rows and where _process is.                               *)
LEMMA ScanSteps ==
  ASSUME QueueInv,
         \/ \E j \in Job : StartAsset(j) \/ RequestCancel(j) \/ TakeScan(j)
         \/ SignalCancel
         \/ Process(\E i \in Item : item[i].state # "none")
         \/ RecoverScans
  PROVE  scan' \in [Job -> ScanState] /\ active' \in ActiveRow /\ ScanRows'
<1>1. scan \in [Job -> ScanState] /\ active \in ActiveRow /\ ScanRows
  BY DEF QueueInv, Types
<1>2. ASSUME NEW j \in Job, StartAsset(j)
      PROVE  scan' \in [Job -> ScanState] /\ active' \in ActiveRow /\ ScanRows'
  BY <1>1, <1>2 DEF StartAsset, ScanRows, ScanState
<1>3. ASSUME NEW j \in Job, RequestCancel(j)
      PROVE  scan' \in [Job -> ScanState] /\ active' \in ActiveRow /\ ScanRows'
  BY <1>1, <1>3 DEF RequestCancel, ScanRows, ScanState
<1>4. ASSUME NEW j \in Job, TakeScan(j)
      PROVE  scan' \in [Job -> ScanState] /\ active' \in ActiveRow /\ ScanRows'
  <2>1. /\ active'.at = "taken" /\ active.at = "none"
        /\ active' = [job |-> j, at |-> "taken", stop |-> FALSE, known |-> TRUE]
    BY <1>4 DEF TakeScan, NoScan
  <2>2. active' \in ActiveRow
    BY <2>1, ScansAssumption DEF ActiveRow, Job
  <2> QED BY <1>1, <1>4, <2>1, <2>2 DEF TakeScan, ScanRows
<1>5. CASE SignalCancel
  <2>1. active' \in ActiveRow /\ active'.job = active.job /\ active'.at = active.at
    BY <1>1, <1>5 DEF SignalCancel, ActiveRow
  <2> QED BY <1>1, <1>5, <2>1 DEF SignalCancel, ScanRows
<1>6. CASE BeginScan
  <2>1. active' \in ActiveRow /\ active'.job = active.job /\ active'.at = "scanning"
    BY <1>1, <1>6 DEF BeginScan, ActiveRow
  <2> QED BY <1>1, <1>6, <2>1 DEF BeginScan, ScanRows, ScanState
<1>7. ASSUME NEW state \in {"cancelled", "failed", "completed"}, EndScan(state),
             revisions' = revisions,
             state = "completed" => active.at = "stored"
      PROVE  scan' \in [Job -> ScanState] /\ active' \in ActiveRow /\ ScanRows'
  <2>1. active' \in ActiveRow /\ active'.at = "none"
    BY <1>7 DEF EndScan, NoScan, ActiveRow
  <2> QED BY <1>1, <1>7, <2>1 DEF EndScan, ScanRows, ScanState
<1>8. ASSUME NEW where \in {"scanned", "stored"}, active' = [active EXCEPT !.at = where],
             active.at \in {"scanning", "scanned"}, scan' = scan,
             revisions \subseteq revisions',
             where = "stored" => active.job \in revisions'
      PROVE  scan' \in [Job -> ScanState] /\ active' \in ActiveRow /\ ScanRows'
  <2>1. active' \in ActiveRow /\ active'.job = active.job /\ active'.at = where
    BY <1>1, <1>8 DEF ActiveRow
  <2> QED BY <1>1, <1>8, <2>1 DEF ScanRows
<1>9. CASE RecoverScans
  <2>1. active' \in ActiveRow /\ active'.at = "none"
    BY <1>9 DEF RecoverScans, NoScan, ActiveRow
  <2> QED BY <1>1, <1>9, <2>1 DEF RecoverScans, ScanRows, ScanState
<1>10. CASE ScanStops \/ ScanFails \/ CompleteScan
  BY <1>7, <1>10 DEF ScanStops, ScanFails, CompleteScan
<1>11. CASE ScanSucceeds
  BY <1>8, <1>11 DEF ScanSucceeds
<1>12. ASSUME NEW b \in BOOLEAN, StoreMap(b)
       PROVE  scan' \in [Job -> ScanState] /\ active' \in ActiveRow /\ ScanRows'
  BY <1>7, <1>8, <1>12 DEF StoreMap
<1>13. CASE Process(\E i \in Item : item[i].state # "none")
  BY <1>6, <1>10, <1>11, <1>12, <1>13 DEF Process
<1> QED BY <1>2, <1>3, <1>4, <1>5, <1>9, <1>13

-----------------------------------------------------------------------------
(* The items and their tasks. *)

Kept == /\ item' \in [Item -> ItemRow] /\ task' \in [Slot -> TaskRow] /\ ItemRows'

(* A step that makes no row running or completed, and moves no task that will *)
(* still write its row, is harmless.                                          *)
LEMMA Harmless ==
  ASSUME QueueInv, item' \in [Item -> ItemRow], task' \in [Slot -> TaskRow],
         results \subseteq results',
         \A i \in Item : item'[i].state \in {"running", "completed"} =>
                           item'[i].state = item[i].state,
         \A k \in Slot : task[k].at \in {"running", "registered"} =>
                           task'[k].item = task[k].item /\ task'[k].at = task[k].at,
         \A k \in Slot : task'[k].at = "registered" => task[k].at = "registered"
  PROVE  Kept
<1>1. ItemRows /\ task \in [Slot -> TaskRow]
  BY DEF QueueInv, Types
<1>2. ASSUME NEW i \in Item, item'[i].state = "running"
      PROVE  Backed(i)'
  <2>1. Backed(i)
    BY <1>1, <1>2 DEF ItemRows
  <2> QED BY <2>1 DEF Backed
<1> QED BY <1>1, <1>2 DEF Kept, ItemRows

LEMMA TaskMoves ==
  ASSUME QueueInv, NEW k \in Slot, NEW where \in {"ending", "accepted", "patching"},
         Goto(k, where), task[k].at \notin {"running", "registered"},
         item' = item, results' = results
  PROVE  Kept
<1>1. task \in [Slot -> TaskRow] /\ item \in [Item -> ItemRow]
  BY DEF QueueInv, Types
<1>2. /\ task' \in [Slot -> TaskRow] /\ task'[k].at = where
      /\ \A l \in Slot \ {k} : task'[l] = task[l]
  BY <1>1 DEF Goto, TaskRow
<1> QED BY <1>1, <1>2, Harmless

LEMMA TaskIsFreed ==
  ASSUME QueueInv, NEW k \in Slot, task' = [task EXCEPT ![k] = NoTask],
         task[k].at \notin {"running", "registered"},
         item' = item, results' = results
  PROVE  Kept
<1>1. task \in [Slot -> TaskRow] /\ item \in [Item -> ItemRow] /\ NoTask \in TaskRow
  BY DEF QueueInv, Types, TaskRow, NoTask
<1> QED BY <1>1, Harmless DEF NoTask

(* The steps of a dispatch task.                                              *)
LEMMA TaskSteps ==
  ASSUME QueueInv, NEW k \in Slot, Progress(k) \/ Admitted(k)
  PROVE  Kept /\ UNCHANGED scanVars
<1>1. /\ task \in [Slot -> TaskRow] /\ item \in [Item -> ItemRow] /\ ItemRows
      /\ \A l \in Slot : l \in Nat
  BY DEF QueueInv, Types, Slot
<1>2. CASE ReadContext(k) \/ Refused(k)
  BY <1>2, TaskMoves DEF ReadContext, Refused, OnlyTask, ByTask
<1>3. CASE Admitted(k)
  <2> DEFINE i == task[k].item
  <2>1. /\ task' \in [Slot -> TaskRow] /\ task'[k].at = "running" /\ task'[k].item = i
        /\ \A l \in Slot \ {k} : task'[l] = task[l]
    BY <1>1, <1>3 DEF Admitted, Goto, TaskRow
  <2>2. /\ item' \in [Item -> ItemRow]
        /\ \A h \in Item : h # i => item'[h] = item[h]
        /\ \A h \in Item : h = i => item'[h].state = "running"
    BY <1>1, <1>3 DEF Admitted, SetRow, ItemRow
  <2>3. results' = results /\ task[k].at = "accepted" /\ UNCHANGED scanVars
    BY <1>3 DEF Admitted, ByTask
  <2> HIDE DEF i
  <2>4. ASSUME NEW h \in Item, item'[h].state = "running"
        PROVE  Backed(h)'
    BY <1>1, <2>1, <2>2, <2>3, <2>4 DEF Backed, ItemRows
  <2>5. ItemRows'
    BY <1>1, <2>1, <2>2, <2>3, <2>4 DEF ItemRows
  <2> QED BY <2>1, <2>2, <2>3, <2>5 DEF Kept
<1>4. CASE RegisterArtifacts(k)
  <2>1. /\ task' \in [Slot -> TaskRow] /\ task'[k].at = "registered"
        /\ task'[k].item = task[k].item
        /\ \A l \in Slot \ {k} : task'[l] = task[l]
    BY <1>1, <1>4 DEF RegisterArtifacts, Goto, TaskRow
  <2>2. /\ item' = item /\ results' = results \cup {task[k].item}
        /\ task[k].at = "running" /\ UNCHANGED scanVars
    BY <1>4 DEF RegisterArtifacts, ByTask
  <2>3. ASSUME NEW h \in Item, Backed(h)
        PROVE  Backed(h)'
    BY <2>1, <2>2, <2>3 DEF Backed
  <2>4. ItemRows'
    BY <1>1, <2>1, <2>2, <2>3 DEF ItemRows
  <2> QED BY <1>1, <2>1, <2>2, <2>4 DEF Kept
<1>5. ASSUME NEW state \in {"failed", "cancelled", "completed"},
             SetState(task[k].item, state) \/ SetRow(task[k].item, state, k),
             Goto(k, "ending"), results' = results,
             state = "completed" => task[k].at = "registered"
      PROVE  Kept
  <2> DEFINE i == task[k].item
  <2>1. /\ task' \in [Slot -> TaskRow] /\ task'[k].at = "ending"
        /\ \A l \in Slot \ {k} : task'[l] = task[l]
    BY <1>1, <1>5 DEF Goto, TaskRow
  <2>2. /\ item' \in [Item -> ItemRow]
        /\ \A h \in Item : h # i => item'[h] = item[h]
        /\ \A h \in Item : h = i => item'[h].state = state
    BY <1>1, <1>5 DEF SetState, SetRow, ItemRow
  <2>3. ASSUME NEW h \in Item, item'[h].state = "running"
        PROVE  Backed(h)'
    <3>1. h # i /\ Backed(h)
      BY <1>1, <2>2, <2>3 DEF ItemRows
    <3> QED BY <2>1, <3>1 DEF Backed
  <2>4. state = "completed" => i \in results
    BY <1>1, <1>5 DEF ItemRows
  <2> HIDE DEF i
  <2>5. ItemRows'
    BY <1>1, <1>5, <2>1, <2>2, <2>3, <2>4 DEF ItemRows
  <2> QED BY <2>1, <2>2, <2>5 DEF Kept
<1>6. CASE TaskFails(k) \/ CompleteItem(k)
  BY <1>5, <1>6 DEF TaskFails, CompleteItem, ByTask
<1>7. CASE Finish(k)
  <2>1. /\ item' \in [Item -> ItemRow]
        /\ \A i \in Item : item'[i].state = item[i].state
    BY <1>1, <1>7 DEF Finish, ItemRow
  <2>2. /\ task' \in [Slot -> TaskRow] /\ task'[k].at \in {"none", "closing"}
        /\ \A l \in Slot \ {k} : task'[l] = task[l]
    BY <1>1, <1>7 DEF Finish, TaskRow, NoTask
  <2>3. task[k].at = "ending" /\ results' = results /\ UNCHANGED scanVars
    BY <1>7 DEF Finish, ByTask
  <2> QED BY <2>1, <2>2, <2>3, Harmless
<1>8. CASE ReadBatch(k) \/ CloseBatch(k)
  BY <1>8, TaskIsFreed, TaskMoves DEF ReadBatch, CloseBatch, ByTask
<1>9. UNCHANGED scanVars
  BY DEF Progress, Admitted, ReadContext, Refused, RegisterArtifacts, TaskFails,
         CompleteItem, Finish, ReadBatch, CloseBatch, OnlyTask, ByTask
<1> QED BY <1>2, <1>3, <1>4, <1>6, <1>7, <1>8, <1>9 DEF Progress

(* The runner and the requests.                                               *)
LEMMA RequestSteps ==
  ASSUME QueueInv,
         \/ Dispatch \/ Enqueue \/ SetBatch \/ RetryFailed \/ RetryItem
         \/ CancelBatch \/ CancelBatchStep
  PROVE  Kept /\ UNCHANGED scanVars
<1>1. task \in [Slot -> TaskRow] /\ item \in [Item -> ItemRow]
  BY DEF QueueInv, Types
<1>2. CASE Dispatch
  <2>1. PICK i \in Item, k \in Slot :
          /\ task[k] = NoTask
          /\ task' = [task EXCEPT ![k] = [NoTask EXCEPT !.item = i, !.at = "new"]]
    BY <1>2 DEF Dispatch
  <2>2. i \in Nat /\ NoTask \in TaskRow
    BY ItemsAssumption DEF Item, NoTask, TaskRow
  <2>3. LET row == [NoTask EXCEPT !.item = i, !.at = "new"]
        IN  row \in TaskRow /\ row.at = "new"
    BY <2>2 DEF TaskRow
  <2>4. /\ task' \in [Slot -> TaskRow] /\ task'[k].at = "new" /\ task[k].at = "none"
        /\ \A l \in Slot \ {k} : task'[l] = task[l]
    <3>1. task[k].at = "none"
      BY <2>1 DEF NoTask
    <3> QED BY <1>1, <2>1, <2>3, <3>1
  <2>5. item' = item /\ results' = results /\ UNCHANGED scanVars
    BY <1>2 DEF Dispatch
  <2> QED BY <1>1, <2>4, <2>5, Harmless
<1>3. CASE Enqueue
  <2>1. /\ item' \in [Item -> ItemRow]
        /\ \A i \in Item : item'[i].state \in {item[i].state, "queued"}
    BY <1>1, <1>3 DEF Enqueue, ItemRow
  <2>2. task' = task /\ results' = results /\ UNCHANGED scanVars
    BY <1>3 DEF Enqueue
  <2> QED BY <1>1, <2>1, <2>2, Harmless
<1>4. ASSUME NEW i, NEW state \in {"queued", "cancelled"}, SetState(i, state)
      PROVE  /\ item' \in [Item -> ItemRow]
             /\ \A h \in Item : item'[h].state \in {item[h].state, state}
  BY <1>1, <1>4 DEF SetState, ItemRow
<1>5. CASE RetryItem
  <2>1. task' = task /\ results' = results /\ UNCHANGED scanVars
    BY <1>5 DEF RetryItem
  <2> QED BY <1>1, <1>4, <1>5, <2>1, Harmless DEF RetryItem
<1>6. CASE SetBatch \/ RetryFailed \/ CancelBatch \/ WithdrawBatch
  BY <1>1, <1>6, Harmless DEF SetBatch, RetryFailed, CancelBatch, WithdrawBatch, ByCancel
<1>7. CASE CancelItem
  <2>1. task' = task /\ results' = results /\ UNCHANGED scanVars
    BY <1>7 DEF CancelItem, ByCancel
  <2> QED BY <1>1, <1>4, <1>7, <2>1, Harmless DEF CancelItem
<1>8. CASE CancelJob
  <2>1. /\ task' \in [Slot -> TaskRow]
        /\ \A k \in Slot : task'[k].item = task[k].item /\ task'[k].at = task[k].at
    <3>1. PICK i \in cancel.left :
            task' = [k \in Slot |-> IF k = item[i].job /\ task[k].at = "running"
                                     THEN [task[k] EXCEPT !.doomed = TRUE] ELSE task[k]]
      BY <1>8 DEF CancelJob
    <3>2. ASSUME NEW k \in Slot
          PROVE  task'[k] \in TaskRow /\ task'[k].item = task[k].item
                   /\ task'[k].at = task[k].at
      BY <1>1, <3>1 DEF TaskRow
    <3> QED BY <3>1, <3>2
  <2>2. item' = item /\ results' = results /\ UNCHANGED scanVars
    BY <1>8 DEF CancelJob, ByCancel
  <2> QED BY <1>1, <2>1, <2>2, Harmless
<1> QED BY <1>2, <1>3, <1>5, <1>6, <1>7, <1>8 DEF CancelBatchStep

-----------------------------------------------------------------------------
LEMMA RestartStep ==
  ASSUME QueueInv, Restart
  PROVE  QueueInv'
<1>1. task \in [Slot -> TaskRow] /\ item \in [Item -> ItemRow] /\ ItemRows
  BY DEF QueueInv, Types
<1>2. /\ item' \in [Item -> ItemRow]
      /\ \A i \in Item : item'[i].state # "running"
      /\ \A i \in Item : item'[i].state = "completed" => item[i].state = "completed"
  BY <1>1 DEF Restart, Recovered, ItemRow
<1>3. /\ task' \in [Slot -> TaskRow] /\ \A k \in Slot : task'[k].at = "none"
      /\ results' = results
  BY DEF Restart, TaskRow, NoTask
<1>4. ItemRows'
  BY <1>1, <1>2, <1>3 DEF ItemRows
<1> QED BY <1>2, <1>3, <1>4, ScanSteps DEF Restart, QueueInv, Types

LEMMA NextKeeps ==
  ASSUME QueueInv, [Next]_vars
  PROVE  QueueInv'
<1>1. ASSUME Kept, UNCHANGED scanVars
      PROVE  QueueInv'
  BY <1>1 DEF Kept, scanVars, QueueInv, Types, ScanRows
<1>2. ASSUME UNCHANGED queueVars, scan' \in [Job -> ScanState], active' \in ActiveRow, ScanRows'
      PROVE  QueueInv'
  BY <1>2 DEF queueVars, QueueInv, Types, ItemRows, Backed
<1>3. CASE ScanRequest \/ ScanSignal \/ ScanStep
  BY <1>2, <1>3, ScanSteps DEF ScanRequest, ScanSignal, ScanStep
<1>4. CASE \/ Dispatch \/ Enqueue \/ SetBatch \/ RetryFailed \/ RetryItem
           \/ CancelBatch \/ CancelBatchStep
  BY <1>1, <1>4, RequestSteps
<1>5. ASSUME NEW k \in Slot, Progress(k) \/ Admitted(k)
      PROVE  QueueInv'
  BY <1>1, <1>5, TaskSteps
<1>6. CASE UNCHANGED vars
  BY <1>1, <1>2, <1>6 DEF vars, scanVars, queueVars, QueueInv, Types, ScanRows
<1> QED BY <1>3, <1>4, <1>5, <1>6, RestartStep DEF Next

(* A running item or scan always has something at work that will write its    *)
(* row, and a completed one has its result, through every double dispatch,    *)
(* cancellation and restart.                                                  *)
THEOREM RowsAlwaysTrue == Spec => []RowsAreTrue
<1>1. Spec => []QueueInv
  BY InitHolds, NextKeeps, PTL DEF Spec
<1> QED BY <1>1, RowsFollow, PTL
=============================================================================
