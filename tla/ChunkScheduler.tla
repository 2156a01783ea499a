----------------------------- MODULE ChunkScheduler -----------------------------
(* SqliteScheduler of cloud_render/scheduler.py for one job: the chunks table *)
(* with its leases, the cancelled flag, and (from FrameLedger) the three      *)
(* publication tables.  Every public method runs in one BEGIN IMMEDIATE       *)
(* transaction under an RLock, so each is one action; a call that raises is   *)
(* rolled back and is no step.                                                *)
(*                                                                            *)
(* Clients are the most general ones: whoever was ever granted a lease keeps  *)
(* the (immutable) ChunkLease and may use it at any time, in any order, as    *)
(* often as it likes - late, after expiry, after somebody else's grant.       *)
(*                                                                            *)
(* Time.  remaining = lease_expires_at minus the current time, counted in     *)
(* ticks.  A caller reads its clock before it waits for SQLite's write lock   *)
(* (timeout=30), so a transaction may run with a time stamp that is lag ticks *)
(* old, lag \in 0 .. MaxLag.                                                  *)
(*                                                                            *)
(* Left out: the heartbeats table, last_error, updated_at, timing, cost and   *)
(* output manifest columns, which no operation reads to decide anything.      *)
EXTENDS FrameLedger, FiniteSets

CONSTANTS
  FrameStart, FrameEnd, FramesPerChunk,   \* create_job arguments
  MaxAttempts,                            \* create_job argument
  LeaseTerm,                              \* lease_seconds, in ticks
  MaxLag,                                 \* age of a time stamp, in ticks
  Outside,                                \* [frame, worker, sha]: frames validated
                                          \* outside the queue, to be registered
  NoWorker                                \* assigned_worker IS NULL

ASSUME SchedulerAssumption ==
  /\ FrameStart \in Nat /\ FrameEnd \in Nat /\ FrameStart <= FrameEnd
  /\ FramesPerChunk \in Nat \ {0}
  /\ MaxAttempts \in Nat \ {0}
  /\ LeaseTerm \in Nat \ {0} /\ MaxLag \in Nat
  /\ Frame = FrameStart .. FrameEnd
  /\ ObjectKey = 0 .. MaxAttempts
  /\ NoWorker \notin Worker
  /\ Outside \subseteq [frame : Frame, worker : Worker, sha : Sha]

VARIABLES
  chunk,      \* rows of the chunks table, by start_frame
  leases,     \* every ChunkLease claim_next has returned
  cancelled   \* jobs.cancelled

vars == <<chunk, leases, cancelled, cands, pub, conflicts>>

(* create_job: chunks are named by their first frame, and range() counts      *)
(* these from frame_start in steps of frames_per_chunk.                       *)
Chunk == {s \in Frame : \E i \in 0 .. FrameEnd - FrameStart :
                          s = FrameStart + i * FramesPerChunk}
FramesOf(c) == {f \in Frame : c <= f /\ f < c + FramesPerChunk}

Active == {"LEASED", "RENDERING", "UPLOADING", "VALIDATING"}
Claimable == {"PENDING", "RETRYABLE"}
State == Active \cup Claimable \cup {"COMPLETE", "FAILED", "QUARANTINED"}

(* token: secrets.token_urlsafe never returns a token twice; a token is named *)
(* by the attempt of the chunk it was made for, 0 is NULL.                    *)
ChunkRow == [state : State, worker : Worker \cup {NoWorker}, token : 0 .. MaxAttempts,
             remaining : Int, attempts : 0 .. MaxAttempts]
Lease == [chunk : Chunk, worker : Worker, token : 1 .. MaxAttempts]
Lag == 0 .. MaxLag

Init ==
  /\ LedgerInit
  /\ chunk = [c \in Chunk |-> [state |-> "PENDING", worker |-> NoWorker, token |-> 0,
                               remaining |-> 0, attempts |-> 0]]
  /\ leases = {}
  /\ cancelled = FALSE

-----------------------------------------------------------------------------
(* Leases. *)

(* Mutants: the token column is forgotten; the attempts start again. *)
MutantReleasedKeepsToken(row, state) ==
  [row EXCEPT !.state = state, !.worker = NoWorker, !.remaining = 0]
MutantReleasedForgivesAttempts(row, state) ==
  [row EXCEPT !.state = state, !.worker = NoWorker, !.token = 0, !.remaining = 0, !.attempts = 0]

Released(row, state) ==
  [row EXCEPT !.state = state, !.worker = NoWorker, !.token = 0, !.remaining = 0]

(* Mutant: one retry too many. *)
MutantRetryOnceMore(row) == IF row.attempts <= MaxAttempts THEN "RETRYABLE" ELSE "FAILED"

RetryOrFail(row) == IF row.attempts < MaxAttempts THEN "RETRYABLE" ELSE "FAILED"

(* Mutants: the sweep does not look at the state; there is no sweep. *)
MutantSweptAnyState(lag) ==
  [c \in Chunk |-> IF chunk[c].remaining + lag <= 0
                     THEN Released(chunk[c], RetryOrFail(chunk[c]))
                     ELSE chunk[c]]
MutantNeverSwept(lag) == chunk

(* _expire_leases *)
Swept(lag) ==
  [c \in Chunk |-> IF chunk[c].state \in Active /\ chunk[c].remaining + lag <= 0
                     THEN Released(chunk[c], RetryOrFail(chunk[c]))
                     ELSE chunk[c]]

RecoverExpiredLeases(lag) ==
  /\ chunk' = Swept(lag)
  /\ UNCHANGED <<leases, cancelled, ledgerVars>>

(* claim_next: expired leases are swept first, and stay swept when there is   *)
(* nothing to claim or the job is cancelled; otherwise the claimable chunk    *)
(* with the lowest start_frame is leased under a fresh token.                 *)
ClaimRefused(lag) ==
  /\ cancelled \/ \A c \in Chunk : Swept(lag)[c].state \notin Claimable
  /\ chunk' = Swept(lag)
  /\ UNCHANGED <<leases, cancelled, ledgerVars>>

ClaimGranted(w, c, lag) ==
  LET rows == Swept(lag)
      attempt == rows[c].attempts + 1
  IN  /\ ~cancelled
      /\ rows[c].state \in Claimable
      /\ \A d \in Chunk : rows[d].state \in Claimable => c <= d
      /\ chunk' = [rows EXCEPT ![c] =
                     [state |-> "LEASED", worker |-> w, token |-> attempt,
                      remaining |-> LeaseTerm - lag, attempts |-> attempt]]
      /\ leases' = leases \cup {[chunk |-> c, worker |-> w, token |-> attempt]}
      /\ UNCHANGED <<cancelled, ledgerVars>>

(* Mutant: the token is not compared. *)
MutantHoldsAnyToken(l, lag) ==
  /\ chunk[l.chunk].worker = l.worker
  /\ chunk[l.chunk].remaining + lag > 0

(* _leased_chunk raises LeaseLostError otherwise.  worker_kind is a function  *)
(* of the worker, so comparing it adds nothing.                               *)
Holds(l, lag) ==
  /\ chunk[l.chunk].token = l.token
  /\ chunk[l.chunk].worker = l.worker
  /\ chunk[l.chunk].remaining + lag > 0

Extend(l, lag) ==
  /\ chunk' = [chunk EXCEPT ![l.chunk].remaining = LeaseTerm - lag]
  /\ UNCHANGED <<leases, cancelled, ledgerVars>>

RenewLease(l, lag) ==
  /\ Holds(l, lag)
  /\ chunk[l.chunk].state \in Active
  /\ Extend(l, lag)

(* believed: the state the caller says the chunk is in *)
Heartbeat(l, believed, lag) ==
  /\ Holds(l, lag)
  /\ chunk[l.chunk].state = believed
  /\ Extend(l, lag)

(* _TRANSITIONS, without the targets transition() itself refuses *)
Successors(state) ==
  CASE state = "LEASED"     -> {"RENDERING", "RETRYABLE", "FAILED"}
    [] state = "RENDERING"  -> {"UPLOADING", "RETRYABLE", "FAILED"}
    [] state = "UPLOADING"  -> {"VALIDATING", "RETRYABLE", "FAILED"}
    [] state = "VALIDATING" -> {"RETRYABLE", "FAILED"}
    [] OTHER -> {}

Transition(l, target, lag) ==
  LET row == chunk[l.chunk]
      reached == IF target = "RETRYABLE" THEN RetryOrFail(row) ELSE target
  IN  /\ Holds(l, lag)
      /\ target \in Successors(row.state)
      /\ chunk' = [chunk EXCEPT ![l.chunk] =
                     IF reached \in {"RETRYABLE", "FAILED"}
                       THEN Released(row, reached)
                       ELSE [row EXCEPT !.state = reached]]
      /\ UNCHANGED <<leases, cancelled, ledgerVars>>

-----------------------------------------------------------------------------
(* Publication. *)

(* complete_chunk: content has exactly the frames of the lease.  The job's    *)
(* cancelled flag is not consulted.                                           *)
CompleteChunk(l, content, lag) ==
  /\ Holds(l, lag)
  /\ chunk[l.chunk].state = "VALIDATING"
  /\ Deliver(content, l.worker, l.token, TRUE)
  /\ chunk' = [chunk EXCEPT ![l.chunk] =
                 Released(@, IF \E f \in FramesOf(l.chunk) : Differs(f, content[f])
                               THEN "QUARANTINED" ELSE "COMPLETE")]
  /\ UNCHANGED <<leases, cancelled>>

CancelJob ==
  /\ cancelled' = TRUE
  /\ UNCHANGED <<chunk, leases, ledgerVars>>

RegisterExternalPublication(e) ==
  /\ Deliver([f \in {e.frame} |-> e.sha], e.worker, 0, FALSE)
  /\ UNCHANGED <<chunk, leases, cancelled>>

(* Mutant: the chunks are not looked at after the decision. *)
MutantResolveKeepsChunks(f, s) ==
  /\ Resolve(f, s)
  /\ UNCHANGED <<chunk, leases, cancelled>>

(* resolve_conflict: afterwards every quarantined chunk without an open       *)
(* conflict in its range is COMPLETE.                                         *)
ResolveConflict(f, s) ==
  /\ Resolve(f, s)
  /\ chunk' = [c \in Chunk |->
                 IF /\ chunk[c].state = "QUARANTINED"
                    /\ \A g \in FramesOf(c) : ~Pending(conflicts', g)
                   THEN [chunk[c] EXCEPT !.state = "COMPLETE"]
                   ELSE chunk[c]]
  /\ UNCHANGED <<leases, cancelled>>

(* One tick of time.  A lease whose remaining time is -MaxLag is expired for  *)
(* every time stamp a caller can hold; counting further would add nothing.    *)
Tick ==
  /\ chunk' = [c \in Chunk |->
                 IF chunk[c].token # 0 /\ chunk[c].remaining > -MaxLag
                   THEN [chunk[c] EXCEPT !.remaining = @ - 1]
                   ELSE chunk[c]]
  /\ UNCHANGED <<leases, cancelled, ledgerVars>>

LeaseStep(l, lag) ==
  \/ RenewLease(l, lag)
  \/ \E s \in Active : Heartbeat(l, s, lag)
  \/ \E s \in State : Transition(l, s, lag)
  \/ \E content \in [FramesOf(l.chunk) -> Sha] : CompleteChunk(l, content, lag)

Next ==
  \/ \E lag \in Lag :
       \/ RecoverExpiredLeases(lag)
       \/ ClaimRefused(lag)
       \/ \E w \in Worker, c \in Chunk : ClaimGranted(w, c, lag)
       \/ \E l \in leases : LeaseStep(l, lag)
  \/ CancelJob
  \/ \E e \in Outside : RegisterExternalPublication(e)
  \/ \E f \in Frame, s \in Sha : ResolveConflict(f, s)
  \/ Tick

Spec == Init /\ [][Next]_vars

(* Mutant: the chunk counts are not consulted. *)
MutantCompleteWithoutChunks ==
  /\ ~cancelled
  /\ \A f \in Frame : ~Pending(conflicts, f)
  /\ \A f \in Frame : Published(f)

(* status().complete *)
JobComplete ==
  /\ ~cancelled
  /\ \A f \in Frame : ~Pending(conflicts, f)
  /\ \A f \in Frame : Published(f)
  /\ \A c \in Chunk : chunk[c].state = "COMPLETE"

-----------------------------------------------------------------------------
(* Properties. *)

(* Rows and leases have the shape the schema gives them. *)
TypeOK ==
  /\ chunk \in [Chunk -> ChunkRow]
  /\ leases \subseteq Lease
  /\ cancelled \in BOOLEAN
  /\ LedgerTypeOK

(* claim_next, transition, complete_chunk and the sweep each set or clear the *)
(* four lease columns in SQL of their own: a chunk carries a token exactly    *)
(* while it is active, the token is the one granted last for that chunk, and  *)
(* of all leases ever granted exactly one opens it.                           *)
LeaseDiscipline ==
  \A c \in Chunk :
    /\ chunk[c].state \in Active <=> chunk[c].token # 0
    /\ chunk[c].token # 0 =>
         /\ chunk[c].token = chunk[c].attempts
         /\ \A l \in leases :
              (l.chunk = c /\ l.token = chunk[c].token) <=>
              l = [chunk |-> c, worker |-> chunk[c].worker, token |-> chunk[c].token]
         /\ [chunk |-> c, worker |-> chunk[c].worker, token |-> chunk[c].token] \in leases

(* Every grant costs an attempt and there are at most max_attempts of them,   *)
(* however sweeps, explicit retries and late calls interleave; a chunk that   *)
(* may be claimed again always has an attempt left.                           *)
RetryBudget ==
  \A c \in Chunk :
    /\ {l.token : l \in {m \in leases : m.chunk = c}} = 1 .. chunk[c].attempts
    /\ chunk[c].state \in Claimable => chunk[c].attempts < MaxAttempts

(* A QUARANTINED chunk has an open conflict an operator can resolve: nothing  *)
(* else ever moves it on.                                                     *)
QuarantineExplained ==
  \A c \in Chunk : chunk[c].state = "QUARANTINED" =>
    \E f \in FramesOf(c) : Pending(conflicts, f)

Finished(c) == chunk[c].state \in {"COMPLETE", "QUARANTINED"}

(* A chunk is delivered at most once, by the attempt granted last, and is     *)
(* COMPLETE or QUARANTINED exactly when that attempt delivered all its        *)
(* frames: a superseded worker contributes nothing.                           *)
DeliveredOnce ==
  \A c \in Chunk : \A f \in FramesOf(c) :
    {r.key : r \in {q \in cands[f] : q.key # 0}} =
      IF Finished(c) THEN {chunk[c].attempts} ELSE {}

(* What status() reports as complete is finished: no lease granted so far can *)
(* change a chunk any more, and every frame is ACCEPTED with a delivered      *)
(* candidate behind it.                                                       *)
CompleteJobIsQuiet ==
  JobComplete =>
    /\ \A l \in leases, lag \in Lag : ~Holds(l, lag)
    /\ \A f \in Frame : /\ pub[f].status = "ACCEPTED"
                         /\ \E r \in cands[f] : SameObject(r, pub[f])

(* A chunk in a final state stays as it is; a quarantined one leaves only     *)
(* when the last conflict on its frames is resolved.                          *)
FinalRow(c) ==
  /\ chunk[c].state \in {"COMPLETE", "FAILED"} => chunk'[c] = chunk[c]
  /\ (chunk[c].state = "QUARANTINED" /\ chunk'[c] # chunk[c]) =>
       /\ chunk'[c].state = "COMPLETE"
       /\ \A f \in FramesOf(c) : ~Pending(conflicts', f)

FinishedIsFinal == [][\A c \in Chunk : FinalRow(c)]_vars

(* A lease that has lost its chunk never opens it again, whatever is granted  *)
(* or swept later.                                                            *)
Opens(l) == chunk[l.chunk].token = l.token /\ chunk[l.chunk].worker = l.worker

LostIsLost == [][\A l \in leases : Opens(l)' => Opens(l)]_vars
=============================================================================
