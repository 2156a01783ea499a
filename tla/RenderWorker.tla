------------------------------ MODULE RenderWorker ------------------------------
(* The pull workers of cloud_render/worker/core.py (WorkerService.run_once    *)
(* and run_until_idle) around the scheduler of ChunkScheduler and an object   *)
(* store.  Between two scheduler transactions of a worker anything may        *)
(* happen: other workers, the operator, time, the death of the process.       *)
(*                                                                            *)
(* A runtime (Blender subprocess or mock) is what it may do to the worker:    *)
(* call progress() any number of times, then return the frames or raise.      *)
EXTENDS ChunkScheduler

CONSTANTS
  HeartbeatTerm,  \* heartbeat_seconds, in ticks
  IdleTerm,       \* no_work_timeout_seconds, in ticks
  StepTime,       \* bound on the ticks between two steps of a timely worker
  MaxRestarts,    \* how often a dead worker process may be started again
  NoLease         \* the worker holds no ChunkLease

ASSUME WorkerAssumption ==
  /\ HeartbeatTerm \in Nat /\ 1 <= HeartbeatTerm /\ HeartbeatTerm < LeaseTerm
  /\ IdleTerm \in Nat /\ StepTime \in Nat /\ MaxRestarts \in Nat
  /\ NoLease \notin Lease

VARIABLES
  proc,       \* proc[w]: the worker process, see Process
  objects,    \* frames put into the object store
  manifests   \* chunk output manifests put into the object store

workerVars == <<vars, proc, objects, manifests>>

Stages == {"leased", "rendering", "uploading", "validating", "sealed"}
Process ==
  [pc : {"poll", "claim", "giveUp", "cancelling", "stopped", "dead"} \cup Stages,
   lease : Lease \cup {NoLease},
   content : (UNION {[FramesOf(c) -> Sha] : c \in Chunk}) \cup {<<>>},  \* frames rendered
   uploaded : SUBSET Frame,
   sinceBeat : 0 .. HeartbeatTerm + MaxLag,  \* ticks since last_heartbeat
   idle : 0 .. IdleTerm,              \* ticks since idle_since
   age : 0 .. StepTime,               \* ticks since the last step
   restarts : 0 .. MaxRestarts]

Fresh(restarts) ==
  [pc |-> "poll", lease |-> NoLease, content |-> <<>>, uploaded |-> {},
   sinceBeat |-> 0, idle |-> 0, age |-> 0, restarts |-> restarts]

WorkerInit ==
  /\ Init
  /\ proc = [w \in Worker |-> Fresh(0)]
  /\ objects = {}
  /\ manifests = {}

At(w, pc) == proc[w].pc = pc
Goto(w, pc) == proc' = [proc EXCEPT ![w].pc = pc, ![w].age = 0]
SchedulerUnchanged == UNCHANGED <<chunk, leases, cancelled, ledgerVars>>
StoreUnchanged == UNCHANGED <<objects, manifests>>

-----------------------------------------------------------------------------
(* run_once, from the top. *)

(* Mutant: a CANCELLED outcome does not end run_until_idle. *)
MutantPollOn(w) ==
  /\ At(w, "poll") /\ cancelled
  /\ Goto(w, "poll")
  /\ SchedulerUnchanged /\ StoreUnchanged

(* A CANCELLED outcome shuts the runtime down and ends run_until_idle. *)
PollCancelled(w) ==
  /\ At(w, "poll") /\ cancelled
  /\ Goto(w, "stopped")
  /\ SchedulerUnchanged /\ StoreUnchanged

PollOpen(w) ==
  /\ At(w, "poll") /\ ~cancelled
  /\ Goto(w, "claim")
  /\ SchedulerUnchanged /\ StoreUnchanged

Claimed(w, c, lag) ==
  /\ At(w, "claim")
  /\ ClaimGranted(w, c, lag)
  /\ proc' = [proc EXCEPT ![w] =
                [Fresh(proc[w].restarts) EXCEPT
                   !.pc = "leased",
                   !.lease = [chunk |-> c, worker |-> w, token |-> chunk'[c].token]]]
  /\ StoreUnchanged

(* NO_WORK: stop after no_work_timeout_seconds without any other outcome.     *)
NoWork(w, lag) ==
  /\ At(w, "claim")
  /\ ClaimRefused(lag)
  /\ Goto(w, IF proc[w].idle >= IdleTerm THEN "stopped" ELSE "poll")
  /\ StoreUnchanged

(* transition(lease, target); LeaseLostError makes the attempt a failed one.  *)
Advance(w, target, pc, lag) ==
  \/ /\ Transition(proc[w].lease, target, lag)
     /\ Goto(w, pc)
  \/ /\ ~Holds(proc[w].lease, lag)
     /\ Goto(w, "giveUp")
     /\ SchedulerUnchanged

(* Mutant: the transition to RENDERING is left out. *)
MutantBeginSilently(w, lag) ==
  /\ At(w, "leased")
  /\ Goto(w, "rendering")
  /\ SchedulerUnchanged /\ StoreUnchanged

BeginRender(w, lag) ==
  /\ At(w, "leased")
  /\ Advance(w, "RENDERING", "rendering", lag)
  /\ StoreUnchanged

(* Mutant: strictly more than heartbeat_seconds. *)
MutantBeatLate(w, lag) == proc[w].sinceBeat - lag > HeartbeatTerm

(* heartbeat(): a call to the scheduler only if, at the time stamp the worker *)
(* reads, heartbeat_seconds have gone by since the last one; that time stamp  *)
(* becomes last_heartbeat.                                                    *)
BeatDue(w, lag) == proc[w].sinceBeat - lag >= HeartbeatTerm

Beat(w, stage, kept, lag) ==
  \/ /\ ~BeatDue(w, 0)
     /\ proc' = [proc EXCEPT ![w] = [kept EXCEPT !.age = 0]]
     /\ SchedulerUnchanged
  \/ /\ BeatDue(w, lag)
     /\ Heartbeat(proc[w].lease, stage, lag)
     /\ proc' = [proc EXCEPT ![w] = [kept EXCEPT !.age = 0, !.sinceBeat = lag]]
  \/ /\ BeatDue(w, lag)
     /\ ~Holds(proc[w].lease, lag) \/ chunk[proc[w].lease.chunk].state # stage
     /\ proc' = [proc EXCEPT ![w] = [kept EXCEPT !.age = 0, !.pc = "giveUp"]]
     /\ SchedulerUnchanged

(* progress(), called by the runtime while it renders *)
Progress(w, lag) ==
  /\ At(w, "rendering") /\ ~cancelled
  /\ Beat(w, "RENDERING", proc[w], lag)
  /\ StoreUnchanged

(* WorkerCancelled, from progress(), from the runtime or between two uploads. *)
SeeCancelled(w) ==
  /\ cancelled
  /\ \/ At(w, "rendering")
     \/ At(w, "uploading") /\ proc[w].uploaded # FramesOf(proc[w].lease.chunk)
  /\ Goto(w, "cancelling")
  /\ SchedulerUnchanged /\ StoreUnchanged

(* The runtime returned exactly the leased frames. *)
FinishRender(w, content, lag) ==
  /\ At(w, "rendering")
  /\ \/ /\ Transition(proc[w].lease, "UPLOADING", lag)
        /\ proc' = [proc EXCEPT ![w].pc = "uploading", ![w].age = 0,
                                ![w].content = content]
     \/ /\ ~Holds(proc[w].lease, lag)
        /\ Goto(w, "giveUp")
        /\ SchedulerUnchanged
  /\ StoreUnchanged

(* WorkerError, FrameValidationError, OSError or ValueError: a lease for      *)
(* another package, a failed or timed out render, a wrong frame set, a frame  *)
(* that violates the image contract.                                          *)
StepFails(w) ==
  /\ proc[w].pc \in {"leased", "rendering", "uploading", "validating"}
  /\ Goto(w, "giveUp")
  /\ SchedulerUnchanged /\ StoreUnchanged

(* Frames are uploaded in ascending order, under a key that contains the      *)
(* hash of the lease token; the heartbeat follows the upload.                 *)
UploadFrame(w, f, lag) ==
  LET l == proc[w].lease
  IN  /\ At(w, "uploading") /\ ~cancelled
      /\ f \in FramesOf(l.chunk) \ proc[w].uploaded
      /\ \A g \in FramesOf(l.chunk) \ proc[w].uploaded : f <= g
      /\ objects' = objects \cup
           {[chunk |-> l.chunk, token |-> l.token, frame |-> f, sha |-> proc[w].content[f]]}
      /\ Beat(w, "UPLOADING", [proc[w] EXCEPT !.uploaded = @ \cup {f}], lag)
      /\ UNCHANGED manifests

(* Mutant: the uploads need not be finished. *)
MutantFinishUploadEarly(w, lag) ==
  /\ At(w, "uploading")
  /\ Advance(w, "VALIDATING", "validating", lag)
  /\ StoreUnchanged

FinishUpload(w, lag) ==
  /\ At(w, "uploading")
  /\ proc[w].uploaded = FramesOf(proc[w].lease.chunk)
  /\ Advance(w, "VALIDATING", "validating", lag)
  /\ StoreUnchanged

SealManifest(w) ==
  LET l == proc[w].lease
  IN  /\ At(w, "validating")
      /\ manifests' = manifests \cup
           {[chunk |-> l.chunk, token |-> l.token, content |-> proc[w].content]}
      /\ Goto(w, "sealed")
      /\ SchedulerUnchanged /\ UNCHANGED objects

(* COMPLETED_CHUNK resets idle_since. *)
Publish(w, lag) ==
  LET l == proc[w].lease
  IN  /\ At(w, "sealed")
      /\ \/ /\ CompleteChunk(l, proc[w].content, lag)
            /\ proc' = [proc EXCEPT ![w] = Fresh(proc[w].restarts)]
         \/ /\ ~Holds(l, lag)
            /\ Goto(w, "giveUp")
            /\ SchedulerUnchanged
      /\ StoreUnchanged

(* Mutant: the lease is handed back without asking whether it is still held.  *)
MutantHandBackAlways(w, lag) ==
  LET c == proc[w].lease.chunk
  IN  /\ chunk' = [chunk EXCEPT ![c] = Released(@, RetryOrFail(@))]
      /\ UNCHANGED <<leases, cancelled, ledgerVars>>

(* The two handlers of run_once: hand the lease back, or find it lost.  The   *)
(* process goes on polling after FAILED and stops after CANCELLED.            *)
HandBack(w, lag) ==
  \/ Transition(proc[w].lease, "RETRYABLE", lag)
  \/ ~Holds(proc[w].lease, lag) /\ SchedulerUnchanged

(* Mutant: the lease of a failed attempt is not handed back. *)
MutantGiveUpSilently(w, lag) ==
  /\ At(w, "giveUp")
  /\ proc' = [proc EXCEPT ![w] = Fresh(proc[w].restarts)]
  /\ SchedulerUnchanged /\ StoreUnchanged

GiveUp(w, lag) ==
  /\ At(w, "giveUp")
  /\ HandBack(w, lag)
  /\ proc' = [proc EXCEPT ![w] = Fresh(proc[w].restarts)]
  /\ StoreUnchanged

(* Mutant: the stopped process keeps its lease object. *)
MutantStopWithLease(w, lag) ==
  /\ At(w, "cancelling")
  /\ HandBack(w, lag)
  /\ Goto(w, "stopped")
  /\ StoreUnchanged

StopCancelled(w, lag) ==
  /\ At(w, "cancelling")
  /\ HandBack(w, lag)
  /\ proc' = [proc EXCEPT ![w] = [Fresh(proc[w].restarts) EXCEPT !.pc = "stopped"]]
  /\ StoreUnchanged

(* The process dies: killed, its instance lost, or by an exception run_once   *)
(* does not catch (ObjectStorageError and sqlite3.Error are RuntimeErrors of  *)
(* their own).  The lease stays in the database.                              *)
Die(w) ==
  /\ ~At(w, "stopped") /\ ~At(w, "dead")
  /\ proc' = [proc EXCEPT ![w] = [Fresh(proc[w].restarts) EXCEPT !.pc = "dead"]]
  /\ SchedulerUnchanged /\ StoreUnchanged

Restart(w) ==
  /\ At(w, "dead") /\ proc[w].restarts < MaxRestarts
  /\ proc' = [proc EXCEPT ![w] = Fresh(proc[w].restarts + 1)]
  /\ SchedulerUnchanged /\ StoreUnchanged

-----------------------------------------------------------------------------
Capped(n, bound) == IF n < bound THEN n + 1 ELSE bound

Busy(w) == proc[w].pc \in Stages

(* Time passes for leases and for the worker's own timers. *)
WorkerTick ==
  /\ Tick
  /\ proc' = [w \in Worker |->
       [proc[w] EXCEPT
          !.sinceBeat = IF Busy(w) THEN Capped(@, HeartbeatTerm + MaxLag) ELSE @,
          !.idle = IF proc[w].pc \in {"poll", "claim"} THEN Capped(@, IdleTerm) ELSE @,
          !.age = IF Busy(w) THEN Capped(@, StepTime) ELSE @]]
  /\ StoreUnchanged

(* What the operator and the rest of the system do to the scheduler. *)
Operator ==
  /\ \/ CancelJob
     \/ \E lag \in Lag : RecoverExpiredLeases(lag)
     \/ \E e \in Outside : RegisterExternalPublication(e)
     \/ \E f \in Frame, s \in Sha : ResolveConflict(f, s)
  /\ UNCHANGED proc /\ StoreUnchanged

(* The runtime stops calling progress(): it returns, raises or is cancelled.  *)
RenderEnds(w) ==
  /\ At(w, "rendering")
  /\ \/ \E lag \in Lag, content \in [FramesOf(proc[w].lease.chunk) -> Sha] :
          FinishRender(w, content, lag)
     \/ SeeCancelled(w)
     \/ StepFails(w)

WorkerStep(w) ==
  \/ PollCancelled(w)
  \/ PollOpen(w)
  \/ SeeCancelled(w)
  \/ StepFails(w)
  \/ SealManifest(w)
  \/ \E lag \in Lag :
       \/ \E c \in Chunk : Claimed(w, c, lag)
       \/ NoWork(w, lag)
       \/ BeginRender(w, lag)
       \/ Progress(w, lag)
       \/ \E f \in Frame : UploadFrame(w, f, lag)
       \/ FinishUpload(w, lag)
       \/ Publish(w, lag)
       \/ GiveUp(w, lag)
       \/ StopCancelled(w, lag)

WorkerNext ==
  \/ \E w \in Worker : WorkerStep(w) \/ RenderEnds(w) \/ Die(w) \/ Restart(w)
  \/ Operator
  \/ WorkerTick

WorkerSpec == WorkerInit /\ [][WorkerNext]_workerVars

(* A live process keeps executing its loop, a runtime ends (the subprocess    *)
(* runner kills Blender at render_timeout_seconds) and time passes.  Nobody   *)
(* has to start a dead process again, to cancel or to resolve a conflict.     *)
WorkerFairness ==
  /\ \A w \in Worker : /\ WF_workerVars(WorkerStep(w))
                        /\ WF_workerVars(RenderEnds(w))
  /\ WF_workerVars(WorkerTick)

FairWorkerSpec == WorkerSpec /\ WorkerFairness

(* Workers that never die and take at most StepTime ticks from one scheduler  *)
(* call or progress report to the next.                                       *)
TimelyTick ==
  /\ \A w \in Worker : Busy(w) => proc[w].age < StepTime
  /\ WorkerTick

TimelyNext ==
  \/ \E w \in Worker : WorkerStep(w) \/ RenderEnds(w)
  \/ Operator
  \/ TimelyTick

TimelySpec == WorkerInit /\ [][TimelyNext]_workerVars

-----------------------------------------------------------------------------
(* Properties. *)

Working(w) == Busy(w) \/ proc[w].pc \in {"giveUp", "cancelling"}

(* Process records have the shape of Process, and a process holds a lease     *)
(* exactly while it works on one.                                             *)
WorkerTypeOK ==
  /\ proc \in [Worker -> Process]
  /\ \A w \in Worker : Working(w) <=> proc[w].lease # NoLease

(* Every call a worker makes is one the scheduler model allows its clients:   *)
(* what holds of ChunkScheduler for arbitrary clients holds for the workers.  *)
WorkersAreClients == Spec

(* While its lease is the chunk's current one, the worker and the database    *)
(* agree on how far the chunk is.  run_once catches LeaseLostError but not    *)
(* the other SchedulerErrors ("invalid chunk transition", "state differs"):   *)
(* if the two could disagree, the process would die with the lease held.      *)
Stage(pc) ==
  CASE pc = "leased" -> {"LEASED"}
    [] pc = "rendering" -> {"RENDERING"}
    [] pc = "uploading" -> {"UPLOADING"}
    [] pc \in {"validating", "sealed"} -> {"VALIDATING"}
    [] OTHER -> Active

StageAgrees ==
  \A w \in Worker : (Working(w) /\ Opens(proc[w].lease)) =>
    chunk[proc[w].lease.chunk].state \in Stage(proc[w].pc)

(* No path through run_once forgets a lease: a chunk that is still leased to  *)
(* a worker is the one that worker is busy with or about to hand back, unless *)
(* the lease has expired or the process died with it.                         *)
LeasesAreReturned ==
  \A c \in Chunk : \A w \in Worker :
    (chunk[c].worker = w /\ chunk[c].remaining > 0) =>
      \/ Working(w) /\ Opens(proc[w].lease) /\ proc[w].lease.chunk = c
      \/ proc[w].restarts > 0 \/ At(w, "dead")

(* Objects first, tables second: a row that points at an uploaded frame is    *)
(* never visible before the frame and the manifest of its attempt are in the  *)
(* store, with the content the row says, whatever crash came in between.      *)
ObjectsBeforePublication ==
  \A c \in Chunk : \A f \in FramesOf(c) : \A r \in cands[f] : r.key # 0 =>
    /\ [chunk |-> c, token |-> r.key, frame |-> f, sha |-> r.sha] \in objects
    /\ \E m \in manifests : m.chunk = c /\ m.token = r.key /\ m.content[f] = r.sha

(* A worker whose steps are timely never loses its lease: the heartbeats at   *)
(* progress and after each upload bridge the transitions, the sealing and the *)
(* completion, none of which extends the lease.                               *)
TimelyWorkerKeepsLease ==
  \A w \in Worker : Busy(w) =>
    Opens(proc[w].lease) /\ chunk[proc[w].lease.chunk].remaining > 0

Settled(c) == chunk[c].state \in {"COMPLETE", "QUARANTINED", "FAILED"}
Ended(w) == At(w, "stopped") \/ At(w, "dead")

(* If no worker stays dead, every chunk is eventually delivered or out of     *)
(* attempts, unless the job is cancelled: also when a worker dies holding a   *)
(* lease and the others have gone home in the meantime.                       *)
EveryChunkSettles ==
  (\A w \in Worker : []<>~At(w, "dead")) => <>(cancelled \/ \A c \in Chunk : Settled(c))

(* After cancel_job (which nothing takes back) every worker process ends, and *)
(* one that is started again ends again.                                      *)
CancelStops == <>[](cancelled => \A w \in Worker : Ended(w))
=============================================================================
