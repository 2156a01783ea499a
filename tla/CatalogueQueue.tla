------------------------------ MODULE CatalogueQueue ------------------------------
(* The child analyses of one batch (backend/app/catalog/scheduler.py,         *)
(* .../router.py and .../store.py) together with the scans of the asset their *)
(* segments belong to.  Each call of the store runs in a thread, so a task    *)
(* and a request give way at every one of them.  The analysis job of a task   *)
(* ends one way or another (module AnalysisJobs); once it was cancelled it    *)
(* does not complete.  A shutdown leaves what a crash leaves.                 *)
EXTENDS CatalogueScan, FiniteSets

CONSTANTS
  Items,        \* queue items of the segments of the asset, in order
  Slots,        \* bound on the dispatch tasks there are at a time
  MaxActive,    \* max_active_analyses
  MaxEvents     \* bound on requests and restarts together

ASSUME ItemsAssumption == Items \in Nat /\ Slots \in Nat /\ MaxActive \in Nat

VARIABLES
  batch,       \* state of the batch
  item,        \* per item: state of its row, "none" before it, and its job
  results,     \* items the result of which is a stored artifact
  task,        \* per dispatch task: its item, where it is, its job cancelled
  registered,  \* the keys of _tasks
  withdrawn,   \* the batch is in _cancelled_batches
  cancel,      \* a cancel_batch: where it is, and the items it has left
  retry,       \* a retry_failed: the items it has left
  events

queueVars == <<batch, item, results, task, registered, withdrawn, cancel, retry>>
vars == <<scanVars, queueVars, events>>

Item == 1 .. Items
Slot == 1 .. Slots
NoTask == [item |-> 0, at |-> "none", doomed |-> FALSE]
NoCancel == [at |-> "none", left |-> {}]

(* Before the segments of an asset were enqueued, or just after it when its   *)
(* last scan within the bound is over.                                        *)
Init ==
  /\ ScanInit
  /\ LET batched == revisions = Job IN
       /\ batch = IF batched THEN "queued" ELSE "draft"
       /\ item = [i \in Item |->
                    [state |-> IF batched THEN "queued" ELSE "none", job |-> 0]]
  /\ results = {}
  /\ task = [k \in Slot |-> NoTask]
  /\ registered = {}
  /\ withdrawn = FALSE
  /\ cancel = NoCancel
  /\ retry = {}
  /\ events = 0

(* Mutant: a queued batch waits for somebody to start it. *)
MutantLive == batch = "running"

(* The batches queued_batch_ids looks for, and _process goes on with. *)
Live == batch \in {"queued", "running"}

(* transition_queue_item, without a job and with one. *)
SetState(i, state) == item' = [item EXCEPT ![i].state = state]
SetRow(i, state, job) == item' = [item EXCEPT ![i] = [state |-> state, job |-> job]]

-----------------------------------------------------------------------------
(* The runner *)

(* _loop with _next_item: the oldest queued item, even when it has a task     *)
(* that has not marked it yet.                                                *)
Dispatch ==
  /\ Live /\ Cardinality(registered) < MaxActive
  /\ \E i \in Item, k \in Slot :
       /\ item[i].state = "queued" /\ \A h \in Item : h < i => item[h].state # "queued"
       /\ task[k] = NoTask /\ \A l \in Slot : l < k => task[l] # NoTask
       /\ task' = [task EXCEPT ![k] = [NoTask EXCEPT !.item = i, !.at = "new"]]
       /\ registered' = registered \cup {i}
  /\ UNCHANGED <<scanVars, batch, item, results, withdrawn, cancel, retry, events>>

-----------------------------------------------------------------------------
(* A dispatch task *)

Goto(k, where) == task' = [task EXCEPT ![k].at = where, ![k].doomed = FALSE]

ByTask == UNCHANGED <<scanVars, cancel, retry, events>>
OnlyTask == ByTask /\ UNCHANGED <<batch, item, results, registered, withdrawn>>

ReadContext(k) ==
  /\ task[k].at = "new"
  /\ Goto(k, IF Live THEN "accepted" ELSE "ending")
  /\ OnlyTask

(* try_admit refuses: the item stays queued. *)
Refused(k) ==
  /\ task[k].at = "accepted"
  /\ Goto(k, "ending")
  /\ OnlyTask

(* The analysis job is created and the row marked, whatever its state is. *)
Admitted(k) ==
  /\ task[k].at = "accepted"
  /\ SetRow(task[k].item, "running", k)
  /\ Goto(k, "running")
  /\ ByTask /\ UNCHANGED <<batch, results, registered, withdrawn>>

(* The job completes and its artifacts are stored. *)
RegisterArtifacts(k) ==
  /\ task[k].at = "running" /\ ~task[k].doomed
  /\ results' = results \cup {task[k].item}
  /\ Goto(k, "registered")
  /\ ByTask /\ UNCHANGED <<batch, item, registered, withdrawn>>

(* An exception anywhere, or a job that ended otherwise.  The row is given    *)
(* the job of this task, unless the task has not named one yet.               *)
TaskFails(k) ==
  /\ task[k].at \in {"new", "accepted", "running", "registered"}
  /\ LET i == task[k].item
         state == IF withdrawn THEN "cancelled" ELSE "failed"
     IN  IF task[k].at = "new" THEN SetState(i, state) ELSE SetRow(i, state, k)
  /\ Goto(k, "ending")
  /\ ByTask /\ UNCHANGED <<batch, results, registered, withdrawn>>

CompleteItem(k) ==
  /\ task[k].at = "registered"
  /\ SetRow(task[k].item, "completed", k)
  /\ Goto(k, "ending")
  /\ ByTask /\ UNCHANGED <<batch, results, registered, withdrawn>>

(* The finally block: the job is deleted, the key is removed even when it     *)
(* stands for another task of the item by now, and the batch is looked at.    *)
Finish(k) ==
  /\ task[k].at = "ending"
  /\ registered' = registered \ {task[k].item}
  /\ item' = [i \in Item |-> IF item[i].job = k THEN [item[i] EXCEPT !.job = 0] ELSE item[i]]
  /\ task' = [task EXCEPT ![k] =
                IF \E i \in Item : item[i].state \in Pending THEN NoTask
                ELSE [@ EXCEPT !.at = "closing"]]
  /\ ByTask /\ UNCHANGED <<batch, results, withdrawn>>

(* The batch is read first and written later. *)
ReadBatch(k) ==
  /\ task[k].at = "closing"
  /\ IF batch = "cancelled"
       THEN task' = [task EXCEPT ![k] = NoTask] /\ withdrawn' = FALSE
       ELSE Goto(k, "patching") /\ UNCHANGED withdrawn
  /\ ByTask /\ UNCHANGED <<batch, item, results, registered>>

CloseBatch(k) ==
  /\ task[k].at = "patching"
  /\ task' = [task EXCEPT ![k] = NoTask]
  /\ batch' = "completed" /\ withdrawn' = FALSE
  /\ ByTask /\ UNCHANGED <<item, results, registered>>

Progress(k) ==
  \/ ReadContext(k) \/ Refused(k) \/ RegisterArtifacts(k) \/ TaskFails(k)
  \/ CompleteItem(k) \/ Finish(k) \/ ReadBatch(k) \/ CloseBatch(k)

-----------------------------------------------------------------------------
(* Requests *)

Happens ==
  /\ events < MaxEvents /\ events' = events + 1

(* enqueue_segments: a segment with a row that has not ended keeps it, another *)
(* gets a new row. *)
Enqueue ==
  /\ Happens /\ revisions # {}
  /\ \E fresh \in SUBSET {i \in Item : item[i].state = "none"} :
       /\ fresh # {} \/ \E i \in Item : item[i].state \in Pending
       /\ \A i \in fresh, h \in Item : h < i => h \in fresh \/ item[h].state # "none"
       /\ item' = [i \in Item |->
                    IF i \in fresh THEN [item[i] EXCEPT !.state = "queued"] ELSE item[i]]
  /\ batch' = "queued"
  /\ UNCHANGED <<scanVars, results, task, registered, withdrawn, cancel, retry>>

(* start, resume and pause do not look at the state there is. *)
SetBatch ==
  /\ Happens
  /\ \E state \in {"running", "paused"} : batch' = state
  /\ UNCHANGED <<scanVars, item, results, task, registered, withdrawn, cancel, retry>>

(* retry_failed lists the failed rows and then queues them one by one,        *)
(* whatever their states are by then.                                         *)
RetryFailed ==
  /\ Happens /\ retry = {}
  /\ retry' = {i \in Item : item[i].state = "failed"}
  /\ UNCHANGED <<scanVars, batch, item, results, task, registered, withdrawn, cancel>>

RetryItem ==
  /\ \E i \in retry : SetState(i, "queued") /\ retry' = retry \ {i}
  /\ UNCHANGED <<scanVars, batch, results, task, registered, withdrawn, cancel, events>>

(* cancel_batch of the router: the batch, the rows that were queued when they *)
(* were listed, one by one, and then cancel_batch of the scheduler: the set,  *)
(* and the jobs the registered items have, one by one.                        *)
CancelBatch ==
  /\ Happens /\ cancel = NoCancel
  /\ batch' = "cancelled"
  /\ cancel' = [at |-> "items", left |-> {i \in Item : item[i].state = "queued"}]
  /\ UNCHANGED <<scanVars, item, results, task, registered, withdrawn, retry>>

ByCancel == UNCHANGED <<scanVars, batch, results, registered, retry, events>>

CancelItem ==
  /\ cancel.at = "items"
  /\ \E i \in cancel.left :
       SetState(i, "cancelled") /\ cancel' = [cancel EXCEPT !.left = @ \ {i}]
  /\ ByCancel /\ UNCHANGED <<task, withdrawn>>

JobsLeft(left) == IF left = {} THEN NoCancel ELSE [at |-> "jobs", left |-> left]

WithdrawBatch ==
  /\ cancel.at = "items" /\ cancel.left = {}
  /\ withdrawn' = TRUE
  /\ cancel' = JobsLeft(registered)
  /\ ByCancel /\ UNCHANGED <<item, task>>

CancelJob ==
  /\ cancel.at = "jobs"
  /\ \E i \in cancel.left :
       /\ task' = [k \in Slot |->
                     IF k = item[i].job /\ task[k].at = "running"
                       THEN [task[k] EXCEPT !.doomed = TRUE] ELSE task[k]]
       /\ cancel' = JobsLeft(cancel.left \ {i})
  /\ ByCancel /\ UNCHANGED <<item, withdrawn>>

CancelBatchStep == CancelItem \/ WithdrawBatch \/ CancelJob

ScanRequest ==
  /\ Happens
  /\ \E j \in Job : StartAsset(j) \/ RequestCancel(j)
  /\ UNCHANGED queueVars

-----------------------------------------------------------------------------
(* The server *)

ScanStep ==
  /\ \/ \E j \in Job : TakeScan(j)
     \/ Process(\E i \in Item : item[i].state # "none")
  /\ UNCHANGED <<queueVars, events>>

ScanSignal == SignalCancel /\ UNCHANGED <<queueVars, events>>

(* Mutant: a running item is left to the task it had. *)
MutantRecovered(state) == state

(* recover_queue *)
Recovered(state) == IF state = "running" THEN "queued" ELSE state

Restart ==
  /\ Happens
  /\ RecoverScans
  /\ item' = [i \in Item |-> [state |-> Recovered(item[i].state), job |-> 0]]
  /\ task' = [k \in Slot |-> NoTask] /\ registered' = {}
  /\ withdrawn' = FALSE /\ cancel' = NoCancel /\ retry' = {}
  /\ UNCHANGED <<batch, results>>

Next ==
  \/ ScanRequest \/ ScanSignal \/ ScanStep
  \/ Enqueue \/ SetBatch \/ RetryFailed \/ RetryItem \/ CancelBatch \/ CancelBatchStep
  \/ Dispatch
  \/ \E k \in Slot : Progress(k) \/ Admitted(k)
  \/ Restart

Spec == Init /\ [][Next]_vars

(* The event loop runs what is ready, scans and analyses end (both have time  *)
(* limits), and when a task asks for admission again and again there is room  *)
(* for it once: other jobs end too.                                           *)
Fairness ==
  /\ WF_vars(ScanStep) /\ WF_vars(ScanSignal)
  /\ WF_vars(CancelBatchStep) /\ WF_vars(RetryItem)
  /\ WF_vars(Dispatch)
  /\ \A k \in Slot : WF_vars(Progress(k)) /\ SF_vars(Admitted(k))

FairSpec == Spec /\ Fairness

-----------------------------------------------------------------------------
(* Properties. *)

(* What the rows say has happened: a running item or scan has a task that     *)
(* will end it, however often it was dispatched, cancelled or recovered, and  *)
(* a completed one has its result in the store, even when the server dies     *)
(* between the two.                                                           *)
RowsAreTrue ==
  /\ \A i \in Item :
       /\ item[i].state = "running" => \E k \in Slot : task[k].item = i
       /\ item[i].state = "completed" => i \in results
  /\ \A j \in Job :
       /\ scan[j] = "running" => active.job = j
       /\ scan[j] = "completed" => j \in revisions

(* No work is left lying: a scan that was asked for ends, an item of a batch  *)
(* that is not paused, cancelled or closed is taken up and ends, whatever is  *)
(* dispatched twice, refused or interrupted.                                  *)
WorkProceeds ==
  /\ \A j \in Job : scan[j] \in Pending ~> scan[j] \notin Pending
  /\ \A i \in Item :
       LET Due == item[i].state \in Pending /\ batch \in {"queued", "running"}
       IN  Due ~> ~Due
=============================================================================
