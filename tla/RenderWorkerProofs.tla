--------------------------- MODULE RenderWorkerProofs ---------------------------
(* Workers and scheduler together: the two agree on how far a chunk is, no    *)
(* path through run_once forgets a lease, and rows point at stored objects    *)
(* only; for every number of workers, frames, attempts and restarts, every    *)
(* lease and heartbeat term and every staleness of time stamps.               *)
EXTENDS RenderWorker, ChunkSchedulerProofs

(* The invariant of one worker, on values: p is its process record, rows the  *)
(* chunks, given the leases granted, objs and mans the object store.          *)
Work == Stages \cup {"giveUp", "cancelling"}

Shaped(p) == p \in Process /\ (p.pc \in Work <=> p.lease # NoLease)

HasLease(w, p, given) == p.pc \in Work => p.lease \in given /\ p.lease.worker = w

Object(l, f, s) == [chunk |-> l.chunk, token |-> l.token, frame |-> f, sha |-> s]
Manifest(l, x) == [chunk |-> l.chunk, token |-> l.token, content |-> x]

Stored(p, objs, mans) ==
  LET l == p.lease
  IN  /\ p.pc \in {"leased", "rendering"} => p.uploaded = {}
      /\ p.pc \in {"uploading", "validating", "sealed"} => p.content \in [FramesOf(l.chunk) -> Sha]
      /\ p.pc = "uploading" => \A f \in p.uploaded :
            f \in FramesOf(l.chunk) /\ Object(l, f, p.content[f]) \in objs
      /\ p.pc \in {"validating", "sealed"} =>
            \A f \in FramesOf(l.chunk) : Object(l, f, p.content[f]) \in objs
      /\ p.pc = "sealed" => Manifest(l, p.content) \in mans

OpenIn(rows, l) == rows[l.chunk].token = l.token /\ rows[l.chunk].worker = l.worker

Agrees(p, rows) ==
  p.pc \in Work /\ OpenIn(rows, p.lease) => rows[p.lease.chunk].state \in Stage(p.pc)

Accounted(w, p, rows) ==
  \A c \in Chunk : rows[c].worker = w /\ rows[c].remaining > 0 =>
    \/ p.pc \in Work /\ OpenIn(rows, p.lease) /\ p.lease.chunk = c
    \/ p.restarts > 0 \/ p.pc = "dead"

Sound(w, p, rows, given, objs, mans) ==
  /\ Shaped(p)
  /\ HasLease(w, p, given)
  /\ Stored(p, objs, mans)
  /\ Agrees(p, rows)
  /\ Accounted(w, p, rows)

Unassigned == \A c \in Chunk : chunk[c].token = 0 => chunk[c].worker = NoWorker

WorkerInv ==
  /\ proc \in [Worker -> Process]
  /\ Unassigned
  /\ \A w \in Worker : Sound(w, proc[w], chunk, leases, objects, manifests)
  /\ ObjectsBeforePublication

-----------------------------------------------------------------------------
(* Stages and process records. *)

LEMMA StageFacts ==
  /\ Stage("leased") = {"LEASED"} /\ Stage("rendering") = {"RENDERING"}
  /\ Stage("uploading") = {"UPLOADING"} /\ Stage("validating") = {"VALIDATING"}
  /\ Stage("sealed") = {"VALIDATING"}
  /\ Stage("giveUp") = Active /\ Stage("cancelling") = Active
  /\ \A pc \in Work : Stage(pc) \subseteq Active
BY DEF Stage, Work, Stages, Active

LEMMA WorkFacts ==
  /\ \A w \in Worker : Working(w) <=> proc[w].pc \in Work
  /\ \A l : Opens(l) <=> OpenIn(chunk, l)
BY DEF Working, Busy, Work, Opens, OpenIn

PcOf == {"poll", "claim", "giveUp", "cancelling", "stopped", "dead"} \cup Stages
Rendered == UNION {[FramesOf(c) -> Sha] : c \in Chunk}
ContentOf == Rendered \cup {<<>>}

LEMMA ProcessFacts ==
  /\ Process = [pc : PcOf, lease : Lease \cup {NoLease}, content : ContentOf,
                 uploaded : SUBSET Frame, sinceBeat : 0 .. HeartbeatTerm + MaxLag,
                 idle : 0 .. IdleTerm, age : 0 .. StepTime, restarts : 0 .. MaxRestarts]
  /\ <<>> \in ContentOf
  /\ \A c \in Chunk : \A x \in [FramesOf(c) -> Sha] : x \in ContentOf
<1>1. Process = [pc : PcOf, lease : Lease \cup {NoLease}, content : ContentOf,
                 uploaded : SUBSET Frame, sinceBeat : 0 .. HeartbeatTerm + MaxLag,
                 idle : 0 .. IdleTerm, age : 0 .. StepTime, restarts : 0 .. MaxRestarts]
  BY DEF Process, PcOf, ContentOf, Rendered
<1>2. <<>> \in ContentOf
  BY DEF ContentOf
<1>3. \A c \in Chunk : \A x \in [FramesOf(c) -> Sha] : x \in ContentOf
  <2> TAKE c \in Chunk
  <2> TAKE x \in [FramesOf(c) -> Sha]
  <2>1. [FramesOf(c) -> Sha] \in {[FramesOf(d) -> Sha] : d \in Chunk}
    OBVIOUS
  <2>2. x \in UNION {[FramesOf(d) -> Sha] : d \in Chunk}
    BY <2>1
  <2> QED BY <2>2 DEF ContentOf, Rendered
<1> QED BY <1>1, <1>2, <1>3

LEMMA FreshFacts ==
  ASSUME NEW n \in 0 .. MaxRestarts
  PROVE  /\ Fresh(n) \in Process
         /\ Fresh(n).pc = "poll" /\ Fresh(n).lease = NoLease /\ Fresh(n).restarts = n
<1>1. 0 \in 0 .. HeartbeatTerm + MaxLag /\ 0 \in 0 .. IdleTerm /\ 0 \in 0 .. StepTime
  BY WorkerAssumption, SchedulerAssumption
<1>2. "poll" \in PcOf
  BY DEF PcOf
<1> QED BY <1>1, <1>2, ProcessFacts DEF Fresh

(* A process that only goes somewhere else. *)
LEMMA GotoFacts ==
  ASSUME proc \in [Worker -> Process], NEW w \in Worker, NEW pc \in PcOf, Goto(w, pc)
  PROVE  /\ proc' \in [Worker -> Process] /\ proc'[w].pc = pc /\ proc'[w].lease = proc[w].lease
         /\ proc'[w].content = proc[w].content /\ proc'[w].uploaded = proc[w].uploaded
         /\ proc'[w].restarts = proc[w].restarts
         /\ proc'[w].age = 0 /\ proc'[w].sinceBeat = proc[w].sinceBeat
<1>1. 0 \in 0 .. StepTime
  BY WorkerAssumption
<1>2. proc[w] \in Process
  OBVIOUS
<1>3. [proc[w] EXCEPT !.pc = pc, !.age = 0] \in Process
  BY <1>1, <1>2 DEF Process, PcOf
<1>4. proc' = [proc EXCEPT ![w] = [proc[w] EXCEPT !.pc = pc, !.age = 0]]
  BY DEF Goto
<1>5. proc'[w] = [proc[w] EXCEPT !.pc = pc, !.age = 0]
  BY <1>4
<1>6. proc' \in [Worker -> Process]
  BY <1>3, <1>4
<1> QED BY <1>2, <1>5, <1>6 DEF Process

(* A process that starts afresh. *)
Afresh(w, n, pc, l) == proc' = [proc EXCEPT ![w] = [Fresh(n) EXCEPT !.pc = pc, !.lease = l]]

LEMMA AfreshFacts ==
  ASSUME proc \in [Worker -> Process], NEW w \in Worker, NEW n \in 0 .. MaxRestarts,
         NEW pc \in PcOf, NEW l \in Lease \cup {NoLease},
         Afresh(w, n, pc, l)
  PROVE  /\ proc' \in [Worker -> Process] /\ proc'[w].pc = pc /\ proc'[w].lease = l
         /\ proc'[w].restarts = n /\ proc'[w].uploaded = {}
         /\ proc'[w].age = 0 /\ proc'[w].sinceBeat = 0
<1> DEFINE r == Fresh(n)
<1>1. /\ r \in Process /\ r.restarts = n /\ r.uploaded = {}
      /\ r.age = 0 /\ r.sinceBeat = 0
  BY FreshFacts DEF Fresh
<1>2. proc'[w] = [r EXCEPT !.pc = pc, !.lease = l]
      /\ proc' = [proc EXCEPT ![w] = [r EXCEPT !.pc = pc, !.lease = l]]
  BY DEF Afresh
<1> HIDE DEF r
<1>3. [r EXCEPT !.pc = pc, !.lease = l] \in Process
  BY <1>1, ProcessFacts
<1>4. proc' \in [Worker -> Process]
  BY <1>2, <1>3
<1> QED BY <1>1, <1>2, <1>4, ProcessFacts

-----------------------------------------------------------------------------
(* What steps of others leave of a worker. *)

(* Of the rows that are w's after the step, all were before, and no younger.  *)
Loosened(w, old, new) ==
  \A c \in Chunk : new[c].worker = w =>
    /\ old[c].worker = w /\ new[c].token = old[c].token /\ new[c].state = old[c].state
    /\ new[c].remaining <= old[c].remaining

SameWork(p, q) ==
  /\ q.pc = p.pc /\ q.lease = p.lease /\ q.content = p.content
  /\ q.uploaded = p.uploaded /\ q.restarts = p.restarts

LEMMA LoosenedKeeps ==
  ASSUME NEW w \in Worker, NEW p, NEW q \in Process, SameWork(p, q),
         NEW old \in [Chunk -> ChunkRow], NEW new \in [Chunk -> ChunkRow], Loosened(w, old, new),
         NEW given, NEW given2, given \subseteq given2, given2 \subseteq Lease,
         NEW objs, NEW objs2, objs \subseteq objs2, NEW mans, NEW mans2, mans \subseteq mans2,
         Sound(w, p, old, given, objs, mans)
  PROVE  Sound(w, q, new, given2, objs2, mans2)
<1>1. Shaped(q)
  BY DEF Sound, Shaped, SameWork
<1>2. HasLease(w, q, given2)
  BY DEF Sound, HasLease, SameWork
<1>3. Stored(q, objs2, mans2)
  BY DEF Sound, Stored, SameWork
<1>4. p.pc \in Work => p.lease \in Lease /\ p.lease.chunk \in Chunk /\ p.lease.worker = w
  BY DEF Sound, HasLease, Lease
<1>5. p.pc \in Work /\ OpenIn(new, p.lease) =>
        OpenIn(old, p.lease) /\ new[p.lease.chunk].state = old[p.lease.chunk].state
  BY <1>4 DEF OpenIn, Loosened
<1>6. Agrees(q, new)
  BY <1>5 DEF Sound, Agrees, SameWork
<1>7. Accounted(w, q, new)
  <2> SUFFICES ASSUME NEW c \in Chunk, new[c].worker = w, new[c].remaining > 0
               PROVE  \/ q.pc \in Work /\ OpenIn(new, q.lease) /\ q.lease.chunk = c
                      \/ q.restarts > 0 \/ q.pc = "dead"
    BY DEF Accounted
  <2>1. /\ old[c].worker = w /\ new[c].token = old[c].token
        /\ old[c].remaining > 0
    <3>1. old[c].remaining \in Int /\ new[c].remaining \in Int
      BY DEF ChunkRow
    <3> QED BY <3>1 DEF Loosened
  <2>2. \/ p.pc \in Work /\ OpenIn(old, p.lease) /\ p.lease.chunk = c
        \/ p.restarts > 0 \/ p.pc = "dead"
    BY <2>1 DEF Sound, Accounted
  <2> QED BY <2>1, <2>2 DEF SameWork, OpenIn
<1> QED BY <1>1, <1>2, <1>3, <1>6, <1>7 DEF Sound

(* What the scheduler does on its own account only loosens rows.              *)
Loosens ==
  /\ \A c \in Chunk :
       \/ chunk'[c].worker = NoWorker
       \/ /\ chunk'[c].worker = chunk[c].worker /\ chunk'[c].token = chunk[c].token
          /\ chunk'[c].state = chunk[c].state /\ chunk'[c].remaining <= chunk[c].remaining

LEMMA LoosensFacts ==
  ASSUME Loosens
  PROVE  /\ \A w \in Worker : Loosened(w, chunk, chunk')
         /\ Unassigned => Unassigned'
<1>1. NoWorker \notin Worker
  BY SchedulerAssumption
<1> QED BY <1>1 DEF Loosens, Loosened, Unassigned

LEMMA SweepLoosens ==
  ASSUME SchedulerInv, NEW lag \in Lag, NEW c \in Chunk
  PROVE  Swept(lag)[c].worker = NoWorker \/ Swept(lag)[c] = chunk[c]
<1>1. chunk[c] \in ChunkRow
  BY DEF SchedulerInv, TypeOK
<1>2. Released(chunk[c], RetryOrFail(chunk[c])).worker = NoWorker
  BY <1>1 DEF Released, ChunkRow
<1> QED BY <1>2 DEF Swept

LEMMA SameRowLoosens ==
  ASSUME SchedulerInv, NEW c \in Chunk
  PROVE  chunk[c].remaining <= chunk[c].remaining
BY DEF SchedulerInv, TypeOK, ChunkRow

LEMMA SweepStepLoosens ==
  ASSUME SchedulerInv, NEW lag \in Lag, RecoverExpiredLeases(lag) \/ ClaimRefused(lag)
  PROVE  Loosens
BY SweepLoosens, SameRowLoosens DEF RecoverExpiredLeases, ClaimRefused, Loosens

LEMMA TickLoosens ==
  ASSUME SchedulerInv, Tick
  PROVE  Loosens
<1> SUFFICES ASSUME NEW c \in Chunk
             PROVE  /\ chunk'[c].worker = chunk[c].worker /\ chunk'[c].token = chunk[c].token
                    /\ chunk'[c].state = chunk[c].state /\ chunk'[c].remaining <= chunk[c].remaining
  BY DEF Loosens
<1>1. chunk[c] \in ChunkRow
  BY DEF SchedulerInv, TypeOK
<1> QED BY <1>1 DEF Tick, ChunkRow

LEMMA OperatorLoosens ==
  ASSUME SchedulerInv, Unassigned, Operator
  PROVE  Loosens
<1>1. CASE chunk' = chunk
  BY <1>1, SameRowLoosens DEF Loosens
<1>2. ASSUME NEW lag \in Lag, RecoverExpiredLeases(lag) PROVE Loosens
  BY <1>2, SweepStepLoosens
<1>3. ASSUME NEW f \in Frame, NEW s \in Sha, ResolveConflict(f, s) PROVE Loosens
  <2> SUFFICES ASSUME NEW c \in Chunk, chunk'[c] # chunk[c]
               PROVE  chunk'[c].worker = NoWorker
    BY SameRowLoosens DEF Loosens
  <2>1. chunk[c] \in ChunkRow
    BY DEF SchedulerInv, TypeOK
  <2>2. chunk[c].state = "QUARANTINED" /\ chunk'[c] = [chunk[c] EXCEPT !.state = "COMPLETE"]
    BY <1>3 DEF ResolveConflict
  <2>3. chunk[c].worker = NoWorker
    <3>1. chunk[c].state \notin Active
      BY <2>2, StateFacts
    <3>2. chunk[c].token = 0
      BY <3>1 DEF SchedulerInv, LeaseDiscipline
    <3> QED BY <3>2 DEF Unassigned
  <2> QED BY <2>1, <2>2, <2>3 DEF ChunkRow
<1>4. (CancelJob \/ \E e \in Outside : RegisterExternalPublication(e)) => chunk' = chunk
  BY DEF CancelJob, RegisterExternalPublication
<1> QED BY <1>1, <1>2, <1>3, <1>4 DEF Operator

-----------------------------------------------------------------------------
(* A worker's own steps. *)

SoundNow(w) == Sound(w, proc[w], chunk, leases, objects, manifests)

LEMMA PcFacts ==
  /\ Work \subseteq PcOf /\ Stages \subseteq Work
  /\ \A pc \in {"poll", "claim", "stopped", "dead"} : pc \in PcOf /\ pc \notin Work
  /\ \A pc \in {"giveUp", "cancelling", "leased", "rendering", "uploading", "validating", "sealed"} :
       pc \in Work /\ pc \in PcOf
BY DEF PcOf, Work, Stages

LEMMA IdleIsSound ==
  ASSUME NEW w \in Worker, NEW q \in Process, q.pc \notin Work, q.lease = NoLease,
         NEW rows, NEW given, NEW objs, NEW mans, Accounted(w, q, rows)
  PROVE  Sound(w, q, rows, given, objs, mans)
<1>1. \A pc \in {"leased", "rendering", "uploading", "validating", "sealed"} : pc \in Work
  BY PcFacts
<1> QED BY <1>1 DEF Sound, Shaped, HasLease, Stored, Agrees

(* The worker goes on with its lease, and if its row changed the lease opens  *)
(* it still.                                                                  *)
LEMMA GoesOn ==
  ASSUME NEW w \in Worker, NEW p, NEW q \in Process, p.pc \in Work, q.pc \in Work,
         q.lease = p.lease, q.restarts = p.restarts,
         NEW old, NEW new, new = old \/ OpenIn(new, p.lease),
         \A c \in Chunk \ {p.lease.chunk} : new[c] = old[c],
         NEW given, NEW objs, NEW mans, NEW objs2, NEW mans2,
         Sound(w, p, old, given, objs, mans),
         Stored(q, objs2, mans2),
         OpenIn(new, p.lease) => new[p.lease.chunk].state \in Stage(q.pc)
  PROVE  Sound(w, q, new, given, objs2, mans2)
<1>1. Shaped(q) /\ HasLease(w, q, given) /\ Agrees(q, new)
  BY DEF Sound, Shaped, HasLease, Agrees
<1>2. Accounted(w, q, new)
  <2> SUFFICES ASSUME NEW c \in Chunk, new[c].worker = w, new[c].remaining > 0
               PROVE  (OpenIn(new, q.lease) /\ q.lease.chunk = c) \/ q.restarts > 0 \/ q.pc = "dead"
    BY DEF Accounted
  <2>1. p.pc # "dead"
    BY PcFacts
  <2>2. CASE new[c] = old[c]
    <3>1. (OpenIn(old, p.lease) /\ p.lease.chunk = c) \/ p.restarts > 0
      BY <2>1, <2>2 DEF Sound, Accounted
    <3> QED BY <2>2, <3>1 DEF OpenIn
  <2>3. CASE new[c] # old[c]
    BY <2>3
  <2> QED BY <2>2, <2>3
<1> QED BY <1>1, <1>2 DEF Sound

(* The worker is done with its lease, which is released or was lost. *)
LEMMA LetsGo ==
  ASSUME NEW w \in Worker, NEW p, NEW q \in Process, p.pc \in Work, q.pc \notin Work,
         q.lease = NoLease, q.restarts = p.restarts,
         NEW old, NEW new, NEW given, NEW objs, NEW mans,
         \A c \in Chunk \ {p.lease.chunk} : new[c] = old[c],
         \/ new[p.lease.chunk].worker # w
         \/ new = old /\ ~(OpenIn(old, p.lease) /\ old[p.lease.chunk].remaining > 0),
         Sound(w, p, old, given, objs, mans)
  PROVE  Sound(w, q, new, given, objs, mans)
<1>1. Accounted(w, q, new)
  <2> SUFFICES ASSUME NEW c \in Chunk, new[c].worker = w, new[c].remaining > 0
               PROVE  q.restarts > 0
    BY DEF Accounted
  <2>1. p.pc # "dead"
    BY PcFacts
  <2>2. new[c] = old[c]
    BY DEF OpenIn
  <2>3. (OpenIn(old, p.lease) /\ p.lease.chunk = c) \/ p.restarts > 0
    BY <2>1, <2>2 DEF Sound, Accounted
  <2> QED BY <2>2, <2>3
<1> QED BY <1>1, IdleIsSound

(* Rows that are loosened do not matter to a worker that rests. *)
LEMMA Rests ==
  ASSUME NEW w \in Worker, NEW p, NEW q \in Process, p.pc \notin Work, q.pc \notin Work,
         q.lease = NoLease, q.pc = "dead" \/ q.restarts > 0 \/ (p.pc # "dead" /\ q.restarts = p.restarts),
         NEW old \in [Chunk -> ChunkRow], NEW new \in [Chunk -> ChunkRow], Loosened(w, old, new),
         NEW given, NEW given2, NEW objs, NEW mans,
         Sound(w, p, old, given, objs, mans)
  PROVE  Sound(w, q, new, given2, objs, mans)
<1>1. Accounted(w, q, new)
  <2> SUFFICES ASSUME NEW c \in Chunk, new[c].worker = w, new[c].remaining > 0
               PROVE  q.restarts > 0 \/ q.pc = "dead"
    BY DEF Accounted
  <2>1. old[c].worker = w /\ old[c].remaining > 0
    <3>1. old[c].remaining \in Int /\ new[c].remaining \in Int
      BY DEF ChunkRow
    <3> QED BY <3>1 DEF Loosened
  <2> QED BY <2>1 DEF Sound, Accounted
<1> QED BY <1>1, IdleIsSound

(* What is known of a worker that works. *)
LEMMA BusyFacts ==
  ASSUME SchedulerInv, WorkerInv, NEW w \in Worker, proc[w].pc \in Work
  PROVE  LET l == proc[w].lease
         IN  /\ l \in leases /\ l.worker = w /\ l \in Lease /\ l # NoLease
             /\ l.chunk \in Chunk /\ l.token \in 1 .. MaxAttempts
             /\ chunk[l.chunk] \in ChunkRow
<1>1. proc[w].lease \in leases /\ proc[w].lease.worker = w
  BY DEF WorkerInv, Sound, HasLease
<1> QED BY <1>1, LeaseFacts, WorkerAssumption DEF SchedulerInv, TypeOK

(* transition() to the next stage keeps the lease. *)
LEMMA ForwardFacts ==
  ASSUME SchedulerInv, NEW l \in leases, NEW target \in {"RENDERING", "UPLOADING", "VALIDATING"},
         NEW lag \in Lag, Transition(l, target, lag)
  PROVE  /\ OpenIn(chunk', l) /\ chunk'[l.chunk].state = target
         /\ chunk'[l.chunk].remaining = chunk[l.chunk].remaining
         /\ chunk'[l.chunk].token = chunk[l.chunk].token
         /\ chunk'[l.chunk].worker = chunk[l.chunk].worker
         /\ \A c \in Chunk \ {l.chunk} : chunk'[c] = chunk[c]
         /\ leases' = leases /\ UNCHANGED ledgerVars
<1>1. l.chunk \in Chunk /\ chunk[l.chunk] \in ChunkRow /\ chunk \in [Chunk -> ChunkRow]
  BY LeaseFacts DEF SchedulerInv, TypeOK
<1>2. /\ chunk' = [chunk EXCEPT ![l.chunk] = [chunk[l.chunk] EXCEPT !.state = target]]
      /\ Holds(l, lag) /\ leases' = leases /\ UNCHANGED ledgerVars
  BY DEF Transition
<1> QED BY <1>1, <1>2 DEF Holds, OpenIn, ChunkRow

(* heartbeat() extends it. *)
LEMMA ExtendFacts ==
  ASSUME SchedulerInv, NEW l \in leases, NEW lag \in Lag, NEW s, Heartbeat(l, s, lag)
  PROVE  /\ OpenIn(chunk', l) /\ chunk'[l.chunk].state = chunk[l.chunk].state
         /\ chunk'[l.chunk].remaining = LeaseTerm - lag
         /\ chunk'[l.chunk].token = chunk[l.chunk].token
         /\ chunk'[l.chunk].worker = chunk[l.chunk].worker
         /\ OpenIn(chunk, l)
         /\ \A c \in Chunk \ {l.chunk} : chunk'[c] = chunk[c]
         /\ leases' = leases /\ UNCHANGED ledgerVars
<1>1. l.chunk \in Chunk /\ chunk[l.chunk] \in ChunkRow /\ chunk \in [Chunk -> ChunkRow]
  BY LeaseFacts DEF SchedulerInv, TypeOK
<1>2. /\ chunk' = [chunk EXCEPT ![l.chunk].remaining = LeaseTerm - lag]
      /\ Holds(l, lag) /\ leases' = leases /\ UNCHANGED ledgerVars
  BY DEF Heartbeat, Extend
<1> QED BY <1>1, <1>2 DEF Holds, OpenIn, ChunkRow

(* Handing back and completing release it. *)
LEMMA ReleaseFacts ==
  ASSUME SchedulerInv, NEW l \in leases, NEW lag \in Lag,
         \/ Transition(l, "RETRYABLE", lag)
         \/ \E content \in [FramesOf(l.chunk) -> Sha] : CompleteChunk(l, content, lag)
  PROVE  /\ chunk'[l.chunk].worker = NoWorker
         /\ \A c \in Chunk \ {l.chunk} : chunk'[c] = chunk[c]
         /\ leases' = leases
<1>1. l.chunk \in Chunk /\ chunk[l.chunk] \in ChunkRow /\ chunk \in [Chunk -> ChunkRow]
  BY LeaseFacts DEF SchedulerInv, TypeOK
<1>2. \A state : Released(chunk[l.chunk], state).worker = NoWorker
  BY <1>1 DEF Released, ChunkRow
<1>3. leases' = leases
  BY DEF Transition, CompleteChunk
<1>4. CASE Transition(l, "RETRYABLE", lag)
  <2>1. RetryOrFail(chunk[l.chunk]) \in {"RETRYABLE", "FAILED"}
    BY <1>1, RetryOrFailFacts
  <2>2. chunk' = [chunk EXCEPT ![l.chunk] = Released(chunk[l.chunk], RetryOrFail(chunk[l.chunk]))]
    BY <1>4, <2>1 DEF Transition
  <2> QED BY <1>1, <1>2, <1>3, <2>2
<1>5. ASSUME NEW content \in [FramesOf(l.chunk) -> Sha], CompleteChunk(l, content, lag)
      PROVE  \E state : chunk' = [chunk EXCEPT ![l.chunk] = Released(chunk[l.chunk], state)]
  BY <1>5 DEF CompleteChunk
<1> QED BY <1>1, <1>2, <1>3, <1>4, <1>5

-----------------------------------------------------------------------------
(* One lemma per step of run_once. *)

Acting == SchedulerInv /\ WorkerInv

LEMMA SameIsLoosened ==
  ASSUME SchedulerInv, NEW w \in Worker
  PROVE  Loosened(w, chunk, chunk)
BY SameRowLoosens DEF Loosened

(* Away from work: polling, claiming in vain, dying, starting again. *)
LEMMA AwaySound ==
  ASSUME Acting, NEW w \in Worker, chunk' \in [Chunk -> ChunkRow], Loosened(w, chunk, chunk'),
         proc[w].pc \notin Work, proc'[w] \in Process, proc'[w].pc \notin Work,
         proc'[w].lease = NoLease,
         proc'[w].restarts > 0 \/ (proc[w].pc # "dead" /\ proc'[w].restarts = proc[w].restarts),
         StoreUnchanged
  PROVE  SoundNow(w)'
<1>1. chunk \in [Chunk -> ChunkRow] /\ Sound(w, proc[w], chunk, leases, objects, manifests)
  BY DEF Acting, SchedulerInv, TypeOK, WorkerInv
<1>2. Sound(w, proc'[w], chunk', leases', objects, manifests)
  BY <1>1, Rests
<1> QED BY <1>2 DEF SoundNow, StoreUnchanged

LEMMA PollSound ==
  ASSUME Acting, NEW w \in Worker, PollCancelled(w) \/ PollOpen(w)
  PROVE  SoundNow(w)'
<1>1. proc[w] \in Process /\ proc \in [Worker -> Process] /\ proc[w].pc = "poll"
  BY DEF Acting, WorkerInv, PollCancelled, PollOpen, At
<1>2. proc[w].lease = NoLease
  BY <1>1, PcFacts DEF Acting, WorkerInv, Sound, Shaped
<1>3. PICK pc \in {"claim", "stopped"} : Goto(w, pc)
  BY DEF PollCancelled, PollOpen
<1>4. /\ proc'[w] \in Process /\ proc'[w].pc = pc /\ proc'[w].lease = NoLease
      /\ proc'[w].restarts = proc[w].restarts
  <2>1. pc \in PcOf
    BY PcFacts
  <2> QED BY <1>1, <1>2, <1>3, <2>1, GotoFacts
<1>5. chunk' = chunk /\ StoreUnchanged
  BY DEF PollCancelled, PollOpen, SchedulerUnchanged
<1>6. Loosened(w, chunk, chunk') /\ chunk' \in [Chunk -> ChunkRow]
  BY <1>5, SameIsLoosened DEF Acting, SchedulerInv, TypeOK
<1> QED BY <1>1, <1>4, <1>5, <1>6, PcFacts, AwaySound

LEMMA NoWorkSound ==
  ASSUME Acting, NEW w \in Worker, NEW lag \in Lag, NoWork(w, lag)
  PROVE  SoundNow(w)'
<1>1. proc[w] \in Process /\ proc \in [Worker -> Process] /\ proc[w].pc = "claim"
  BY DEF Acting, WorkerInv, NoWork, At
<1>2. proc[w].lease = NoLease
  BY <1>1, PcFacts DEF Acting, WorkerInv, Sound, Shaped
<1>3. PICK pc \in {"poll", "stopped"} : Goto(w, pc)
  BY DEF NoWork
<1>4. /\ proc'[w] \in Process /\ proc'[w].pc = pc /\ proc'[w].lease = NoLease
      /\ proc'[w].restarts = proc[w].restarts
  <2>1. pc \in PcOf
    BY PcFacts
  <2> QED BY <1>1, <1>2, <1>3, <2>1, GotoFacts
<1>5. Loosened(w, chunk, chunk') /\ chunk' \in [Chunk -> ChunkRow] /\ StoreUnchanged
  BY SweepStepLoosens, LoosensFacts, SweptFacts DEF Acting, NoWork, ClaimRefused
<1> QED BY <1>1, <1>4, <1>5, PcFacts, AwaySound

LEMMA DieSound ==
  ASSUME Acting, NEW w \in Worker, Die(w)
  PROVE  SoundNow(w)'
<1>1. proc[w] \in Process /\ proc \in [Worker -> Process] /\ proc[w].restarts \in 0 .. MaxRestarts
  BY ProcessFacts DEF Acting, WorkerInv
<1>2. /\ proc'[w] \in Process /\ proc'[w].pc = "dead" /\ proc'[w].lease = NoLease
  <2>1. proc'[w] = [Fresh(proc[w].restarts) EXCEPT !.pc = "dead"]
    BY <1>1 DEF Die
  <2> QED BY <1>1, <2>1, FreshFacts, PcFacts, ProcessFacts
<1>3. Accounted(w, proc'[w], chunk')
  BY <1>2 DEF Accounted
<1> QED BY <1>2, <1>3, PcFacts, IdleIsSound DEF SoundNow

LEMMA RestartSound ==
  ASSUME Acting, NEW w \in Worker, Restart(w)
  PROVE  SoundNow(w)'
<1>1. /\ proc[w].restarts + 1 \in 0 .. MaxRestarts /\ proc[w].restarts + 1 > 0
      /\ proc'[w] = Fresh(proc[w].restarts + 1)
  <2>1. proc \in [Worker -> Process] /\ proc[w].restarts \in 0 .. MaxRestarts
    BY ProcessFacts DEF Acting, WorkerInv
  <2> QED BY <2>1, WorkerAssumption DEF Restart
<1>2. /\ proc'[w] \in Process /\ proc'[w].pc = "poll" /\ proc'[w].lease = NoLease
      /\ proc'[w].restarts > 0
  BY <1>1, FreshFacts
<1>3. Accounted(w, proc'[w], chunk')
  BY <1>2 DEF Accounted
<1> QED BY <1>2, <1>3, PcFacts, IdleIsSound DEF SoundNow

(* The grant: the only row that becomes the worker's. *)
LEMMA ClaimedSound ==
  ASSUME Acting, NEW w \in Worker, NEW c \in Chunk, NEW lag \in Lag, Claimed(w, c, lag)
  PROVE  /\ SoundNow(w)' /\ proc'[w] \in Process
         /\ \A v \in Worker \ {w} : Loosened(v, chunk, chunk')
         /\ Unassigned'
<1> DEFINE L == [chunk |-> c, worker |-> w, token |-> chunk'[c].token]
           p == proc[w]
           q == proc'[w]
<1>1. /\ p \in Process /\ proc \in [Worker -> Process] /\ p.pc = "claim"
      /\ p.restarts \in 0 .. MaxRestarts /\ chunk \in [Chunk -> ChunkRow]
      /\ Sound(w, p, chunk, leases, objects, manifests) /\ SchedulerInv
  BY ProcessFacts DEF Acting, WorkerInv, SchedulerInv, TypeOK, Claimed, At
<1>2. /\ chunk'[c].state = "LEASED" /\ chunk'[c].worker = w
      /\ chunk'[c].token = chunk[c].attempts + 1 /\ chunk'[c].token # 0
      /\ chunk'[c].token \in 1 .. MaxAttempts
      /\ leases' = leases \cup {L}
      /\ chunk' \in [Chunk -> ChunkRow]
  <2>1. ClaimGranted(w, c, lag)
    BY DEF Claimed
  <2>2. chunk[c].attempts \in 0 .. MaxAttempts
    BY <1>1 DEF ChunkRow
  <2>3. chunk[c].attempts + 1 \in 1 .. MaxAttempts /\ chunk[c].attempts + 1 # 0
    BY <1>1, <2>1, <2>2, GrantFacts
  <2> QED BY <1>1, <2>1, <2>3, GrantFacts
<1>3. ASSUME NEW d \in Chunk \ {c} PROVE chunk'[d] = Swept(lag)[d]
  BY <1>1, SweptFacts DEF Claimed, ClaimGranted
<1>4. L \in Lease /\ L # NoLease
  BY <1>2, WorkerAssumption DEF Lease
<1>5. /\ q \in Process /\ q.pc = "leased" /\ q.lease = L /\ q.restarts = p.restarts
      /\ q.uploaded = {}
  <2>1. Afresh(w, p.restarts, "leased", L)
    BY DEF Claimed, Afresh
  <2>2. "leased" \in PcOf
    BY PcFacts
  <2> HIDE DEF L
  <2> QED BY <1>1, <1>4, <2>1, <2>2, AfreshFacts
<1>6. Loosened(w, chunk, [chunk' EXCEPT ![c] = chunk[c]])
      /\ \A v \in Worker \ {w} : Loosened(v, chunk, chunk')
  <2>1. NoWorker \notin Worker
    BY SchedulerAssumption
  <2>2. \A d \in Chunk \ {c} : chunk'[d].worker = NoWorker \/ chunk'[d] = chunk[d]
    BY <1>1, <1>3, SweepLoosens
  <2> QED BY <1>1, <1>2, <2>1, <2>2, SameRowLoosens DEF Loosened
<1>7. Shaped(q)
  BY <1>4, <1>5, PcFacts DEF Shaped
<1>8. HasLease(w, q, leases')
  BY <1>2, <1>5 DEF HasLease
<1>9. Stored(q, objects', manifests')
  BY <1>5 DEF Stored
<1>10. Agrees(q, chunk')
  BY <1>2, <1>5, StageFacts DEF Agrees
<1>11. Accounted(w, q, chunk')
  <2> SUFFICES ASSUME NEW d \in Chunk, chunk'[d].worker = w, chunk'[d].remaining > 0
               PROVE  (OpenIn(chunk', q.lease) /\ q.lease.chunk = d) \/ q.restarts > 0
    BY <1>5, PcFacts DEF Accounted
  <2>1. CASE d = c
    BY <1>2, <1>5, <2>1 DEF OpenIn
  <2>2. CASE d # c
    <3>1. chunk'[d] = chunk[d]
      BY <1>1, <1>3, <2>2, SweepLoosens, SchedulerAssumption
    <3>2. p.restarts > 0 \/ p.pc = "dead"
      BY <1>1, <3>1, PcFacts DEF Sound, Accounted
    <3> QED BY <1>1, <1>5, <3>2
  <2> QED BY <2>1, <2>2
<1>12. Unassigned'
  BY <1>1, <1>2, <1>3, SweepLoosens DEF Unassigned, Acting, WorkerInv
<1> HIDE DEF q
<1> QED BY <1>5, <1>6, <1>7, <1>8, <1>9, <1>10, <1>11, <1>12 DEF Sound, SoundNow, q

-----------------------------------------------------------------------------
(* Steps of a worker that works. *)

(* At most the row of the worker's lease changes, and it stays the worker's   *)
(* own or nobody's.                                                           *)
Touches(w) ==
  /\ leases' = leases
  /\ \/ chunk' = chunk
     \/ \E c \in Chunk :
          /\ \A d \in Chunk \ {c} : chunk'[d] = chunk[d]
          /\ chunk'[c].worker = NoWorker \/ (chunk'[c].worker = w /\ chunk'[c].token # 0)

LEMMA GoesOnSound ==
  ASSUME Acting, NEW w \in Worker, proc[w].pc \in Work,
         proc'[w] \in Process, proc'[w].pc \in Work,
         proc'[w].lease = proc[w].lease, proc'[w].restarts = proc[w].restarts,
         Stored(proc'[w], objects', manifests'), leases' = leases,
         chunk' = chunk \/ OpenIn(chunk', proc[w].lease),
         \A c \in Chunk \ {proc[w].lease.chunk} : chunk'[c] = chunk[c],
         OpenIn(chunk', proc[w].lease) =>
           chunk'[proc[w].lease.chunk].state \in Stage(proc'[w].pc)
  PROVE  SoundNow(w)' /\ Touches(w)
<1>1. Sound(w, proc[w], chunk, leases, objects, manifests)
  BY DEF Acting, WorkerInv
<1>2. Sound(w, proc'[w], chunk', leases, objects', manifests')
  BY <1>1, GoesOn
<1>3. /\ proc[w].lease.chunk \in Chunk /\ proc[w].lease.worker = w
      /\ proc[w].lease.token \in 1 .. MaxAttempts
  BY BusyFacts DEF Acting
<1>4. Touches(w)
  BY <1>3, SchedulerAssumption DEF Touches, OpenIn
<1> QED BY <1>2, <1>4 DEF SoundNow

(* The attempt has failed or is cancelled; the lease is still there. *)
LEMMA TurnsBackSound ==
  ASSUME Acting, NEW w \in Worker, proc[w].pc \in Work,
         proc'[w] \in Process, proc'[w].pc \in {"giveUp", "cancelling"},
         proc'[w].lease = proc[w].lease, proc'[w].restarts = proc[w].restarts,
         SchedulerUnchanged
  PROVE  SoundNow(w)' /\ Touches(w)
<1>1. Agrees(proc[w], chunk)
  BY DEF Acting, WorkerInv, Sound
<1>2. Stored(proc'[w], objects', manifests')
  BY DEF Stored
<1>3. OpenIn(chunk, proc[w].lease) => chunk[proc[w].lease.chunk].state \in Stage(proc'[w].pc)
  BY <1>1, StageFacts DEF Agrees
<1>4. proc'[w].pc \in Work /\ chunk' = chunk /\ leases' = leases
  BY PcFacts DEF SchedulerUnchanged
<1> QED BY <1>2, <1>3, <1>4, GoesOnSound

LEMMA TurnBackByGoto ==
  ASSUME Acting, NEW w \in Worker, proc[w].pc \in Work,
         NEW pc \in {"giveUp", "cancelling"}, Goto(w, pc), SchedulerUnchanged
  PROVE  SoundNow(w)' /\ Touches(w)
<1>1. proc \in [Worker -> Process] /\ pc \in PcOf
  BY PcFacts DEF Acting, WorkerInv
<1>2. /\ proc'[w] \in Process /\ proc'[w].pc = pc
      /\ proc'[w].lease = proc[w].lease /\ proc'[w].restarts = proc[w].restarts
  BY <1>1, GotoFacts
<1> QED BY <1>2, TurnsBackSound

LEMMA FailureSound ==
  ASSUME Acting, NEW w \in Worker, SeeCancelled(w) \/ StepFails(w)
  PROVE  SoundNow(w)' /\ Touches(w)
<1>1. proc[w].pc \in Work
  BY PcFacts DEF SeeCancelled, StepFails, At
<1>2. PICK pc \in {"giveUp", "cancelling"} : Goto(w, pc) /\ SchedulerUnchanged
  BY DEF SeeCancelled, StepFails
<1> QED BY <1>1, <1>2, TurnBackByGoto

(* A transition to the next stage, with what the worker has to show for it.   *)
LEMMA MoveSound ==
  ASSUME Acting, NEW w \in Worker, NEW lag \in Lag,
         NEW target \in {"RENDERING", "UPLOADING", "VALIDATING"},
         proc[w].pc \in Work, Transition(proc[w].lease, target, lag),
         proc'[w] \in Process, proc'[w].pc \in Work,
         proc'[w].lease = proc[w].lease, proc'[w].restarts = proc[w].restarts,
         target \in Stage(proc'[w].pc), Stored(proc'[w], objects', manifests')
  PROVE  SoundNow(w)' /\ Touches(w)
<1>1. SchedulerInv /\ proc[w].lease \in leases
  BY BusyFacts DEF Acting
<1>2. /\ OpenIn(chunk', proc[w].lease) /\ chunk'[proc[w].lease.chunk].state = target
      /\ \A c \in Chunk \ {proc[w].lease.chunk} : chunk'[c] = chunk[c]
      /\ leases' = leases
  BY <1>1, ForwardFacts
<1> QED BY <1>2, GoesOnSound

LEMMA BeginRenderSound ==
  ASSUME Acting, NEW w \in Worker, NEW lag \in Lag, BeginRender(w, lag)
  PROVE  SoundNow(w)' /\ Touches(w)
<1>1. proc \in [Worker -> Process] /\ proc[w].pc = "leased" /\ proc[w].pc \in Work
  BY PcFacts DEF Acting, WorkerInv, BeginRender, At
<1>2. CASE Transition(proc[w].lease, "RENDERING", lag) /\ Goto(w, "rendering")
  <2>0. "rendering" \in PcOf
    BY PcFacts
  <2>1. /\ proc'[w] \in Process /\ proc'[w].pc = "rendering"
        /\ proc'[w].lease = proc[w].lease /\ proc'[w].restarts = proc[w].restarts
        /\ proc'[w].uploaded = proc[w].uploaded
    BY <1>1, <1>2, <2>0, GotoFacts
  <2>2. proc[w].uploaded = {}
    BY <1>1 DEF Acting, WorkerInv, Sound, Stored
  <2>3. Stored(proc'[w], objects', manifests')
    BY <2>1, <2>2 DEF Stored
  <2>4. "RENDERING" \in Stage(proc'[w].pc) /\ proc'[w].pc \in Work
    BY <2>1, StageFacts, PcFacts
  <2> QED BY <1>1, <1>2, <2>1, <2>3, <2>4, MoveSound
<1>3. CASE Goto(w, "giveUp") /\ SchedulerUnchanged
  BY <1>1, <1>3, TurnBackByGoto
<1> QED BY <1>2, <1>3 DEF BeginRender, Advance

LEMMA FinishUploadSound ==
  ASSUME Acting, NEW w \in Worker, NEW lag \in Lag, FinishUpload(w, lag)
  PROVE  SoundNow(w)' /\ Touches(w)
<1>1. /\ proc \in [Worker -> Process] /\ proc[w].pc = "uploading" /\ proc[w].pc \in Work
      /\ proc[w].uploaded = FramesOf(proc[w].lease.chunk)
      /\ objects' = objects /\ manifests' = manifests
  BY PcFacts DEF Acting, WorkerInv, FinishUpload, At, StoreUnchanged
<1>2. CASE Transition(proc[w].lease, "VALIDATING", lag) /\ Goto(w, "validating")
  <2>0. "validating" \in PcOf
    BY PcFacts
  <2>1. /\ proc'[w] \in Process /\ proc'[w].pc = "validating"
        /\ proc'[w].lease = proc[w].lease /\ proc'[w].restarts = proc[w].restarts
        /\ proc'[w].content = proc[w].content
    BY <1>1, <1>2, <2>0, GotoFacts
  <2>2. Stored(proc[w], objects, manifests)
    BY DEF Acting, WorkerInv, Sound
  <2>3. Stored(proc'[w], objects', manifests')
    BY <1>1, <2>1, <2>2 DEF Stored
  <2>4. "VALIDATING" \in Stage(proc'[w].pc) /\ proc'[w].pc \in Work
    BY <2>1, StageFacts, PcFacts
  <2> QED BY <1>1, <1>2, <2>1, <2>3, <2>4, MoveSound
<1>3. CASE Goto(w, "giveUp") /\ SchedulerUnchanged
  BY <1>1, <1>3, TurnBackByGoto
<1> QED BY <1>2, <1>3 DEF FinishUpload, Advance

LEMMA FinishRenderSound ==
  ASSUME Acting, NEW w \in Worker, NEW lag \in Lag,
         NEW content \in [FramesOf(proc[w].lease.chunk) -> Sha], FinishRender(w, content, lag)
  PROVE  SoundNow(w)' /\ Touches(w)
<1>1. /\ proc \in [Worker -> Process] /\ proc[w] \in Process
      /\ proc[w].pc = "rendering" /\ proc[w].pc \in Work
  BY PcFacts DEF Acting, WorkerInv, FinishRender, At
<1>2. CASE /\ Transition(proc[w].lease, "UPLOADING", lag)
           /\ proc' = [proc EXCEPT ![w].pc = "uploading", ![w].age = 0, ![w].content = content]
  <2>0. /\ "uploading" \in PcOf /\ 0 \in 0 .. StepTime /\ content \in ContentOf
    <3>1. proc[w].lease.chunk \in Chunk
      BY <1>1, BusyFacts DEF Acting
    <3> QED BY <3>1, PcFacts, WorkerAssumption, ProcessFacts
  <2>1. proc'[w] = [proc[w] EXCEPT !.pc = "uploading", !.age = 0, !.content = content]
    BY <1>1, <1>2
  <2>2. /\ proc'[w] \in Process /\ proc'[w].pc = "uploading"
        /\ proc'[w].lease = proc[w].lease /\ proc'[w].restarts = proc[w].restarts
        /\ proc'[w].content = content /\ proc'[w].uploaded = proc[w].uploaded
    BY <1>1, <2>0, <2>1, ProcessFacts
  <2>3. proc[w].uploaded = {}
    BY <1>1 DEF Acting, WorkerInv, Sound, Stored
  <2>4. Stored(proc'[w], objects', manifests')
    BY <2>2, <2>3 DEF Stored
  <2>5. "UPLOADING" \in Stage(proc'[w].pc) /\ proc'[w].pc \in Work
    BY <2>2, StageFacts, PcFacts
  <2> QED BY <1>1, <1>2, <2>2, <2>4, <2>5, MoveSound
<1>3. CASE Goto(w, "giveUp") /\ SchedulerUnchanged
  BY <1>1, <1>3, TurnBackByGoto
<1> QED BY <1>2, <1>3 DEF FinishRender

(* The heartbeat after what the worker has just done (kept): too early, in    *)
(* time, or too late.                                                         *)
LEMMA BeatSound ==
  ASSUME Acting, NEW w \in Worker, NEW lag \in Lag, NEW kept \in Process, NEW stage,
         proc[w].pc \in Work, kept.pc = proc[w].pc,
         kept.lease = proc[w].lease, kept.restarts = proc[w].restarts,
         Stored(kept, objects', manifests'), Stage(proc[w].pc) = {stage},
         Beat(w, stage, kept, lag)
  PROVE  SoundNow(w)' /\ Touches(w)
<1>0. /\ proc \in [Worker -> Process] /\ SchedulerInv /\ proc[w].lease \in leases
      /\ Agrees(proc[w], chunk)
  BY BusyFacts DEF Acting, WorkerInv, Sound
<1>1. 0 \in 0 .. StepTime /\ lag \in 0 .. HeartbeatTerm + MaxLag /\ "giveUp" \in PcOf
  BY WorkerAssumption, SchedulerAssumption, PcFacts DEF Lag
<1>2. CASE proc' = [proc EXCEPT ![w] = [kept EXCEPT !.age = 0]] /\ SchedulerUnchanged
  <2>1. proc'[w] = [kept EXCEPT !.age = 0]
    BY <1>0, <1>2
  <2>2. /\ proc'[w] \in Process /\ proc'[w].pc = kept.pc
        /\ proc'[w].lease = kept.lease /\ proc'[w].restarts = kept.restarts
        /\ proc'[w].content = kept.content /\ proc'[w].uploaded = kept.uploaded
    BY <1>1, <2>1, ProcessFacts
  <2>3. Stored(proc'[w], objects', manifests')
    BY <2>2 DEF Stored
  <2>4. OpenIn(chunk, proc[w].lease) => chunk[proc[w].lease.chunk].state \in Stage(proc'[w].pc)
    BY <1>0, <2>2 DEF Agrees
  <2>5. chunk' = chunk /\ leases' = leases
    BY <1>2 DEF SchedulerUnchanged
  <2> QED BY <2>2, <2>3, <2>4, <2>5, GoesOnSound
<1>3. CASE /\ Heartbeat(proc[w].lease, stage, lag)
           /\ proc' = [proc EXCEPT ![w] = [kept EXCEPT !.age = 0, !.sinceBeat = lag]]
  <2>1. proc'[w] = [kept EXCEPT !.age = 0, !.sinceBeat = lag]
    BY <1>0, <1>3
  <2>2. /\ proc'[w] \in Process /\ proc'[w].pc = kept.pc
        /\ proc'[w].lease = kept.lease /\ proc'[w].restarts = kept.restarts
        /\ proc'[w].content = kept.content /\ proc'[w].uploaded = kept.uploaded
    BY <1>1, <2>1, ProcessFacts
  <2>3. Stored(proc'[w], objects', manifests')
    BY <2>2 DEF Stored
  <2>4. /\ OpenIn(chunk', proc[w].lease)
        /\ chunk'[proc[w].lease.chunk].state = chunk[proc[w].lease.chunk].state
        /\ \A c \in Chunk \ {proc[w].lease.chunk} : chunk'[c] = chunk[c]
        /\ leases' = leases
    BY <1>0, <1>3, ExtendFacts
  <2>5. chunk[proc[w].lease.chunk].state = stage
    BY <1>3 DEF Heartbeat
  <2>6. chunk'[proc[w].lease.chunk].state \in Stage(proc'[w].pc)
    BY <2>2, <2>4, <2>5
  <2> QED BY <2>2, <2>3, <2>4, <2>6, GoesOnSound
<1>4. CASE /\ proc' = [proc EXCEPT ![w] = [kept EXCEPT !.age = 0, !.pc = "giveUp"]]
           /\ SchedulerUnchanged
  <2>1. proc'[w] = [kept EXCEPT !.age = 0, !.pc = "giveUp"]
    BY <1>0, <1>4
  <2>2. /\ proc'[w] \in Process /\ proc'[w].pc = "giveUp"
        /\ proc'[w].lease = kept.lease /\ proc'[w].restarts = kept.restarts
    BY <1>1, <2>1, ProcessFacts
  <2> QED BY <1>4, <2>2, TurnsBackSound
<1> QED BY <1>2, <1>3, <1>4 DEF Beat

LEMMA ProgressSound ==
  ASSUME Acting, NEW w \in Worker, NEW lag \in Lag, Progress(w, lag)
  PROVE  SoundNow(w)' /\ Touches(w)
<1>1. /\ proc[w] \in Process /\ proc[w].pc = "rendering" /\ proc[w].pc \in Work
      /\ Stored(proc[w], objects', manifests')
  BY PcFacts DEF Acting, WorkerInv, Sound, Progress, At, StoreUnchanged
<1>2. Stage(proc[w].pc) = {"RENDERING"} /\ Beat(w, "RENDERING", proc[w], lag)
  BY <1>1, StageFacts DEF Progress
<1> QED BY <1>1, <1>2, BeatSound

LEMMA UploadSound ==
  ASSUME Acting, NEW w \in Worker, NEW f \in Frame, NEW lag \in Lag, UploadFrame(w, f, lag)
  PROVE  SoundNow(w)' /\ Touches(w)
<1> DEFINE p == proc[w]
           kept == [p EXCEPT !.uploaded = @ \cup {f}]
<1>1. /\ p \in Process /\ p.pc = "uploading" /\ p.pc \in Work
      /\ Stored(p, objects, manifests) /\ manifests' = manifests
  BY PcFacts DEF Acting, WorkerInv, Sound, UploadFrame, At
<1>2. /\ f \in FramesOf(p.lease.chunk)
      /\ objects' = objects \cup {Object(p.lease, f, p.content[f])}
      /\ Beat(w, "UPLOADING", kept, lag)
  BY DEF UploadFrame, Object
<1> HIDE DEF p
<1>3. /\ kept \in Process /\ kept.pc = p.pc /\ kept.lease = p.lease /\ kept.restarts = p.restarts
      /\ kept.content = p.content /\ kept.uploaded = p.uploaded \cup {f}
  BY <1>1, ProcessFacts
<1> HIDE DEF kept
<1>4. Stored(kept, objects', manifests')
  <2>1. \A g \in kept.uploaded :
          g \in FramesOf(kept.lease.chunk) /\ Object(kept.lease, g, kept.content[g]) \in objects'
    BY <1>1, <1>2, <1>3 DEF Stored
  <2> QED BY <1>1, <1>3, <2>1 DEF Stored
<1>5. Stage(p.pc) = {"UPLOADING"}
  BY <1>1, StageFacts
<1> QED BY <1>1, <1>2, <1>3, <1>4, <1>5, BeatSound DEF p

LEMMA SealSound ==
  ASSUME Acting, NEW w \in Worker, SealManifest(w)
  PROVE  SoundNow(w)' /\ Touches(w)
<1>1. /\ proc \in [Worker -> Process] /\ proc[w].pc = "validating" /\ proc[w].pc \in Work
      /\ Stored(proc[w], objects, manifests) /\ Agrees(proc[w], chunk)
      /\ "sealed" \in PcOf /\ "sealed" \in Work
  BY PcFacts DEF Acting, WorkerInv, Sound, SealManifest, At
<1>2. /\ objects' = objects /\ chunk' = chunk /\ leases' = leases
      /\ Manifest(proc[w].lease, proc[w].content) \in manifests'
      /\ Goto(w, "sealed")
  BY DEF SealManifest, Manifest, SchedulerUnchanged
<1>3. /\ proc'[w] \in Process /\ proc'[w].pc = "sealed"
      /\ proc'[w].lease = proc[w].lease /\ proc'[w].restarts = proc[w].restarts
      /\ proc'[w].content = proc[w].content
  BY <1>1, <1>2, GotoFacts
<1>4. Stored(proc'[w], objects', manifests')
  BY <1>1, <1>2, <1>3 DEF Stored
<1>5. OpenIn(chunk, proc[w].lease) => chunk[proc[w].lease.chunk].state \in Stage(proc'[w].pc)
  BY <1>1, <1>3, StageFacts DEF Agrees
<1> QED BY <1>1, <1>2, <1>3, <1>4, <1>5, GoesOnSound

(* The end of an attempt: the lease is released, or was lost already. *)
LEMMA EndSound ==
  ASSUME Acting, NEW w \in Worker, proc[w].pc \in Work, StoreUnchanged,
         NEW lag \in Lag,
         \/ Transition(proc[w].lease, "RETRYABLE", lag)
         \/ \E content \in [FramesOf(proc[w].lease.chunk) -> Sha] :
              CompleteChunk(proc[w].lease, content, lag)
         \/ ~Holds(proc[w].lease, lag) /\ SchedulerUnchanged,
         proc'[w] \in Process, proc'[w].pc \notin Work, proc'[w].lease = NoLease,
         proc'[w].restarts = proc[w].restarts
  PROVE  SoundNow(w)' /\ Touches(w)
<1> DEFINE l == proc[w].lease
<1>1. /\ SchedulerInv /\ l \in leases /\ l.chunk \in Chunk /\ chunk[l.chunk] \in ChunkRow
      /\ Sound(w, proc[w], chunk, leases, objects, manifests)
  BY BusyFacts DEF Acting, WorkerInv
<1>2. CASE ~Holds(l, lag) /\ SchedulerUnchanged
  <2>1. chunk' = chunk /\ leases' = leases
    BY <1>2 DEF SchedulerUnchanged
  <2>2. ~(OpenIn(chunk, l) /\ chunk[l.chunk].remaining > 0)
    <3>1. chunk[l.chunk].remaining \in Int /\ lag \in Int /\ lag >= 0
      BY <1>1, SchedulerAssumption DEF ChunkRow, Lag
    <3> QED BY <1>2, <3>1 DEF Holds, OpenIn
  <2>3. Sound(w, proc'[w], chunk', leases, objects, manifests)
    BY <1>1, <2>1, <2>2, LetsGo
  <2> QED BY <2>1, <2>3 DEF SoundNow, Touches, StoreUnchanged
<1>3. CASE \/ Transition(l, "RETRYABLE", lag)
           \/ \E content \in [FramesOf(l.chunk) -> Sha] : CompleteChunk(l, content, lag)
  <2>1. /\ chunk'[l.chunk].worker = NoWorker
        /\ \A c \in Chunk \ {l.chunk} : chunk'[c] = chunk[c]
        /\ leases' = leases
    BY <1>1, <1>3, ReleaseFacts
  <2>2. NoWorker # w
    BY SchedulerAssumption
  <2>3. Sound(w, proc'[w], chunk', leases, objects, manifests)
    BY <1>1, <2>1, <2>2, LetsGo
  <2> QED BY <1>1, <2>1, <2>3 DEF SoundNow, Touches, StoreUnchanged
<1> QED BY <1>2, <1>3

LEMMA AfreshAgain ==
  ASSUME Acting, NEW w \in Worker, proc' = [proc EXCEPT ![w] = Fresh(proc[w].restarts)]
  PROVE  /\ proc'[w] \in Process /\ proc'[w].pc \notin Work /\ proc'[w].lease = NoLease
         /\ proc'[w].restarts = proc[w].restarts
<1>1. proc[w].restarts \in 0 .. MaxRestarts
  BY ProcessFacts DEF Acting, WorkerInv
<1>2. proc'[w] = Fresh(proc[w].restarts)
  BY DEF Acting, WorkerInv
<1> QED BY <1>1, <1>2, FreshFacts, PcFacts

LEMMA PublishSound ==
  ASSUME Acting, NEW w \in Worker, NEW lag \in Lag, Publish(w, lag)
  PROVE  SoundNow(w)' /\ Touches(w)
<1>1. /\ proc[w].pc = "sealed" /\ proc[w].pc \in Work /\ StoreUnchanged
      /\ proc[w].content \in [FramesOf(proc[w].lease.chunk) -> Sha]
  BY PcFacts DEF Acting, WorkerInv, Sound, Stored, Publish, At
<1>2. CASE /\ CompleteChunk(proc[w].lease, proc[w].content, lag)
           /\ proc' = [proc EXCEPT ![w] = Fresh(proc[w].restarts)]
  BY <1>1, <1>2, AfreshAgain, EndSound
<1>3. CASE Goto(w, "giveUp") /\ SchedulerUnchanged
  BY <1>1, <1>3, TurnBackByGoto
<1> QED BY <1>2, <1>3 DEF Publish

LEMMA GiveUpSound ==
  ASSUME Acting, NEW w \in Worker, NEW lag \in Lag, GiveUp(w, lag)
  PROVE  SoundNow(w)' /\ Touches(w)
<1>1. proc[w].pc \in Work
  BY PcFacts DEF GiveUp, At
<1> QED BY <1>1, AfreshAgain, EndSound DEF GiveUp, HandBack

LEMMA StopSound ==
  ASSUME Acting, NEW w \in Worker, NEW lag \in Lag, StopCancelled(w, lag)
  PROVE  SoundNow(w)' /\ Touches(w)
<1>1. proc[w].pc \in Work
  BY PcFacts DEF StopCancelled, At
<1>2. /\ proc'[w] \in Process /\ proc'[w].pc = "stopped" /\ proc'[w].lease = NoLease
      /\ proc'[w].restarts = proc[w].restarts
  <2>1. proc'[w] = [Fresh(proc[w].restarts) EXCEPT !.pc = "stopped"]
    BY DEF StopCancelled, Acting, WorkerInv
  <2>2. proc[w].restarts \in 0 .. MaxRestarts
    BY ProcessFacts DEF Acting, WorkerInv
  <2> QED BY <2>1, <2>2, FreshFacts, PcFacts, ProcessFacts
<1> QED BY <1>1, <1>2, PcFacts, EndSound DEF StopCancelled, HandBack

-----------------------------------------------------------------------------
(* All workers. *)

OwnStep(w) == WorkerStep(w) \/ RenderEnds(w) \/ Die(w) \/ Restart(w)

LEMMA TouchesLoosens ==
  ASSUME SchedulerInv, Unassigned, NEW w \in Worker, Touches(w)
  PROVE  /\ \A v \in Worker \ {w} : Loosened(v, chunk, chunk')
         /\ Unassigned' /\ leases' = leases
<1>1. NoWorker \notin Worker
  BY SchedulerAssumption
<1>2. \A c \in Chunk : chunk[c].remaining <= chunk[c].remaining
  BY SameRowLoosens
<1> QED BY <1>1, <1>2 DEF Touches, Loosened, Unassigned

(* Nothing is deleted from the store, and no worker writes another's record.  *)
LEMMA AdvanceStays ==
  ASSUME proc \in [Worker -> Process], NEW w \in Worker, NEW target, NEW pc, NEW lag,
         Advance(w, target, pc, lag)
  PROVE  \A v \in Worker \ {w} : proc'[v] = proc[v]
BY DEF Advance, Goto

LEMMA BeatStays ==
  ASSUME proc \in [Worker -> Process], NEW w \in Worker, NEW stage, NEW kept, NEW lag,
         Beat(w, stage, kept, lag)
  PROVE  \A v \in Worker \ {w} : proc'[v] = proc[v]
BY DEF Beat

LEMMA OthersStay ==
  ASSUME WorkerInv, NEW w \in Worker, OwnStep(w)
  PROVE  /\ \A v \in Worker \ {w} : proc'[v] = proc[v]
         /\ objects \subseteq objects' /\ manifests \subseteq manifests'
<1> DEFINE Others == \A v \in Worker \ {w} : proc'[v] = proc[v]
           Grows == objects \subseteq objects' /\ manifests \subseteq manifests'
<1>0. proc \in [Worker -> Process]
  BY DEF WorkerInv
<1>1. CASE PollCancelled(w) \/ PollOpen(w) \/ SeeCancelled(w) \/ StepFails(w) \/ SealManifest(w)
  BY <1>0, <1>1 DEF PollCancelled, PollOpen, SeeCancelled, StepFails, SealManifest, Goto, StoreUnchanged
<1>2. CASE Die(w) \/ Restart(w)
  BY <1>0, <1>2 DEF Die, Restart, StoreUnchanged
<1>3. ASSUME NEW lag \in Lag,
             \/ \E c \in Chunk : Claimed(w, c, lag)
             \/ NoWork(w, lag) \/ GiveUp(w, lag) \/ StopCancelled(w, lag)
      PROVE  Others /\ Grows
  BY <1>0, <1>3 DEF Claimed, NoWork, GiveUp, StopCancelled, Goto, StoreUnchanged
<1>4. ASSUME NEW lag \in Lag, BeginRender(w, lag) \/ FinishUpload(w, lag)
      PROVE  Others /\ Grows
  BY <1>0, <1>4, AdvanceStays DEF BeginRender, FinishUpload, StoreUnchanged
<1>5. ASSUME NEW lag \in Lag, Progress(w, lag) PROVE Others /\ Grows
  BY <1>0, <1>5, BeatStays DEF Progress, StoreUnchanged
<1>6. ASSUME NEW lag \in Lag, NEW f \in Frame, UploadFrame(w, f, lag) PROVE Others /\ Grows
  <2>1. objects \subseteq objects' /\ manifests' = manifests
    BY <1>6 DEF UploadFrame
  <2>2. \E kept : Beat(w, "UPLOADING", kept, lag)
    BY <1>6 DEF UploadFrame
  <2> QED BY <1>0, <2>1, <2>2, BeatStays
<1>7. ASSUME NEW lag \in Lag, Publish(w, lag) PROVE Others /\ Grows
  BY <1>0, <1>7 DEF Publish, Goto, StoreUnchanged
<1>8. ASSUME NEW lag \in Lag, NEW content, FinishRender(w, content, lag) PROVE Others /\ Grows
  BY <1>0, <1>8 DEF FinishRender, Goto, StoreUnchanged
<1> HIDE DEF Others, Grows
<1>9. Others /\ Grows
  <2>1. CASE WorkerStep(w)
    BY <1>1, <1>3, <1>4, <1>5, <1>6, <1>7, <2>1 DEF WorkerStep, Others, Grows
  <2>2. CASE RenderEnds(w)
    BY <1>1, <1>8, <2>2 DEF RenderEnds, Others, Grows
  <2> QED BY <1>2, <2>1, <2>2 DEF OwnStep, Others, Grows
<1> QED BY <1>9 DEF Others, Grows

LEMMA OwnStepSound ==
  ASSUME Acting, NEW w \in Worker, OwnStep(w)
  PROVE  /\ SoundNow(w)' /\ leases \subseteq leases' /\ Unassigned'
         /\ \A v \in Worker \ {w} : Loosened(v, chunk, chunk')
<1> DEFINE Goal == /\ SoundNow(w)' /\ leases \subseteq leases' /\ Unassigned'
                   /\ \A v \in Worker \ {w} : Loosened(v, chunk, chunk')
<1>0. SchedulerInv /\ Unassigned
  BY DEF Acting, WorkerInv
<1>1. SoundNow(w)' /\ Touches(w) => Goal
  BY <1>0, TouchesLoosens
<1>2. CASE PollCancelled(w) \/ PollOpen(w)
  <2>1. Touches(w)
    BY <1>2 DEF PollCancelled, PollOpen, SchedulerUnchanged, Touches
  <2> QED BY <1>1, <1>2, <2>1, PollSound
<1>3. CASE Die(w) \/ Restart(w)
  <2>1. Touches(w)
    BY <1>3 DEF Die, Restart, SchedulerUnchanged, Touches
  <2> QED BY <1>1, <1>3, <2>1, DieSound, RestartSound
<1>4. CASE SeeCancelled(w) \/ StepFails(w)
  BY <1>1, <1>4, FailureSound
<1>5. CASE SealManifest(w)
  BY <1>1, <1>5, SealSound
<1>6. ASSUME NEW lag \in Lag, NEW c \in Chunk, Claimed(w, c, lag) PROVE Goal
  <2>1. leases \subseteq leases'
    BY <1>6 DEF Claimed, ClaimGranted
  <2> QED BY <1>6, <2>1, ClaimedSound
<1>7. ASSUME NEW lag \in Lag, NoWork(w, lag) PROVE Goal
  <2>1. ClaimRefused(lag) /\ leases' = leases
    BY <1>7 DEF NoWork, ClaimRefused
  <2>2. Loosens
    BY <1>0, <2>1, SweepStepLoosens
  <2> QED BY <1>0, <1>7, <2>1, <2>2, LoosensFacts, NoWorkSound
<1>8. ASSUME NEW lag \in Lag, \/ BeginRender(w, lag) \/ Progress(w, lag) \/ FinishUpload(w, lag)
                              \/ Publish(w, lag) \/ GiveUp(w, lag) \/ StopCancelled(w, lag)
      PROVE  Goal
  <2>1. SoundNow(w)' /\ Touches(w)
    BY <1>8, BeginRenderSound, ProgressSound, FinishUploadSound, PublishSound, GiveUpSound, StopSound
  <2> QED BY <1>1, <2>1
<1>9. ASSUME NEW lag \in Lag, NEW f \in Frame, UploadFrame(w, f, lag) PROVE Goal
  BY <1>1, <1>9, UploadSound
<1>10. ASSUME NEW lag \in Lag, NEW content \in [FramesOf(proc[w].lease.chunk) -> Sha],
              FinishRender(w, content, lag)
       PROVE  Goal
  BY <1>1, <1>10, FinishRenderSound
<1> HIDE DEF Goal
<1>11. CASE WorkerStep(w)
  BY <1>2, <1>4, <1>5, <1>6, <1>7, <1>8, <1>9, <1>11 DEF WorkerStep, Goal
<1>12. CASE RenderEnds(w)
  BY <1>4, <1>10, <1>12 DEF RenderEnds, Goal
<1>13. Goal
  BY <1>3, <1>11, <1>12 DEF OwnStep, Goal
<1> QED BY <1>13 DEF Goal

(* Every step of the workers is one the scheduler's clients may make: it      *)
(* leaves the tables alone, uses the worker's own lease, or asks for work.    *)
UsesLease(w) == proc[w].pc \in Work /\ \E lag \in Lag : LeaseStep(proc[w].lease, lag)

AsksForWork(w) ==
  \E lag \in Lag : ClaimRefused(lag) \/ \E c \in Chunk : ClaimGranted(w, c, lag)

LEMMA OwnStepKinds ==
  ASSUME Acting, NEW w \in Worker, OwnStep(w)
  PROVE  SchedulerUnchanged \/ UsesLease(w) \/ AsksForWork(w)
<1> DEFINE l == proc[w].lease
<1>2. ASSUME NEW lag \in Lag, proc[w].pc \in Work,
             \/ \E s \in Active : Heartbeat(l, s, lag)
             \/ \E s \in State : Transition(l, s, lag)
             \/ \E content \in [FramesOf(l.chunk) -> Sha] : CompleteChunk(l, content, lag)
      PROVE  UsesLease(w)
  <2>1. LeaseStep(l, lag)
    BY <1>2 DEF LeaseStep
  <2> QED BY <1>2, <2>1 DEF UsesLease
<1>3. /\ "RENDERING" \in Active /\ "UPLOADING" \in Active /\ "VALIDATING" \in Active
      /\ "RENDERING" \in State /\ "UPLOADING" \in State /\ "VALIDATING" \in State
      /\ "RETRYABLE" \in State
  BY DEF Active, Claimable, State
<1>4. CASE \/ PollCancelled(w) \/ PollOpen(w) \/ SeeCancelled(w) \/ StepFails(w)
           \/ SealManifest(w) \/ Die(w) \/ Restart(w)
  BY <1>4 DEF PollCancelled, PollOpen, SeeCancelled, StepFails, SealManifest, Die, Restart
<1>5. ASSUME NEW lag \in Lag, BeginRender(w, lag) \/ FinishUpload(w, lag)
      PROVE  SchedulerUnchanged \/ UsesLease(w)
  <2>1. proc[w].pc \in Work
    BY <1>5, PcFacts DEF BeginRender, FinishUpload, At
  <2> QED BY <1>2, <1>3, <1>5, <2>1 DEF BeginRender, FinishUpload, Advance
<1>6. ASSUME NEW lag \in Lag, GiveUp(w, lag) \/ StopCancelled(w, lag)
      PROVE  SchedulerUnchanged \/ UsesLease(w)
  <2>1. proc[w].pc \in Work
    BY <1>6, PcFacts DEF GiveUp, StopCancelled, At
  <2> QED BY <1>2, <1>3, <1>6, <2>1 DEF GiveUp, StopCancelled, HandBack
<1>7. ASSUME NEW lag \in Lag, NEW kept, NEW stage \in Active, proc[w].pc \in Work,
             Beat(w, stage, kept, lag)
      PROVE  SchedulerUnchanged \/ UsesLease(w)
  BY <1>2, <1>7 DEF Beat
<1>8. ASSUME NEW lag \in Lag, Progress(w, lag) PROVE SchedulerUnchanged \/ UsesLease(w)
  <2>1. proc[w].pc \in Work
    BY <1>8, PcFacts DEF Progress, At
  <2> QED BY <1>3, <1>7, <1>8, <2>1 DEF Progress
<1>9. ASSUME NEW lag \in Lag, NEW f \in Frame, UploadFrame(w, f, lag)
      PROVE  SchedulerUnchanged \/ UsesLease(w)
  <2>1. proc[w].pc \in Work
    BY <1>9, PcFacts DEF UploadFrame, At
  <2>2. \E kept : Beat(w, "UPLOADING", kept, lag)
    BY <1>9 DEF UploadFrame
  <2> QED BY <1>3, <1>7, <2>1, <2>2
<1>10. ASSUME NEW lag \in Lag, Publish(w, lag) PROVE SchedulerUnchanged \/ UsesLease(w)
  <2>1. /\ proc[w].pc \in Work
        /\ proc[w].content \in [FramesOf(proc[w].lease.chunk) -> Sha]
    BY <1>10, PcFacts DEF Publish, At, Acting, WorkerInv, Sound, Stored
  <2> QED BY <1>2, <1>10, <2>1 DEF Publish
<1>11. ASSUME NEW lag \in Lag, NEW content, FinishRender(w, content, lag)
       PROVE  SchedulerUnchanged \/ UsesLease(w)
  <2>1. proc[w].pc \in Work
    BY <1>11, PcFacts DEF FinishRender, At
  <2> QED BY <1>2, <1>3, <1>11, <2>1 DEF FinishRender
<1>12. ASSUME NEW lag \in Lag, (\E c \in Chunk : Claimed(w, c, lag)) \/ NoWork(w, lag)
       PROVE  AsksForWork(w)
  BY <1>12 DEF Claimed, NoWork, AsksForWork
<1>13. CASE WorkerStep(w)
  BY <1>4, <1>5, <1>6, <1>8, <1>9, <1>10, <1>12, <1>13 DEF WorkerStep
<1>14. CASE RenderEnds(w)
  BY <1>4, <1>11, <1>14 DEF RenderEnds
<1> QED BY <1>4, <1>13, <1>14 DEF OwnStep

LEMMA OwnStepIsClient ==
  ASSUME Acting, NEW w \in Worker, OwnStep(w)
  PROVE  [Next]_vars
<1>1. SchedulerUnchanged => UNCHANGED vars
  BY DEF SchedulerUnchanged, vars, ledgerVars
<1>2. CASE UsesLease(w)
  <2>1. proc[w].lease \in leases
    BY <1>2, BusyFacts DEF Acting, UsesLease
  <2> QED BY <1>2, <2>1 DEF UsesLease, Next
<1>3. CASE AsksForWork(w)
  BY <1>3 DEF AsksForWork, Next
<1> QED BY <1>1, <1>2, <1>3, OwnStepKinds

LEMMA ClientSteps == Acting /\ [WorkerNext]_workerVars => [Next]_vars
<1> SUFFICES ASSUME Acting, [WorkerNext]_workerVars PROVE [Next]_vars
  OBVIOUS
<1>1. CASE \E w \in Worker : OwnStep(w)
  BY <1>1, OwnStepIsClient
<1>2. CASE Operator
  BY <1>2 DEF Operator, Next
<1>3. CASE WorkerTick
  BY <1>3 DEF WorkerTick, Next
<1>4. CASE UNCHANGED workerVars
  BY <1>4 DEF workerVars
<1> QED BY <1>1, <1>2, <1>3, <1>4 DEF WorkerNext, OwnStep

-----------------------------------------------------------------------------
(* Time and the operator leave the workers what they have. *)

LEMMA TickKeepsWork ==
  ASSUME WorkerInv, WorkerTick, NEW w \in Worker
  PROVE  proc'[w] \in Process /\ SameWork(proc[w], proc'[w])
<1>1. proc[w] \in Process
  BY DEF WorkerInv
<1>2. PICK b, i, a : proc'[w] = [proc[w] EXCEPT !.sinceBeat = b, !.idle = i, !.age = a]
                     /\ b \in 0 .. HeartbeatTerm + MaxLag /\ i \in 0 .. IdleTerm /\ a \in 0 .. StepTime
  <2> DEFINE b == IF Busy(w) THEN Capped(proc[w].sinceBeat, HeartbeatTerm + MaxLag) ELSE proc[w].sinceBeat
             i == IF proc[w].pc \in {"poll", "claim"} THEN Capped(proc[w].idle, IdleTerm) ELSE proc[w].idle
             a == IF Busy(w) THEN Capped(proc[w].age, StepTime) ELSE proc[w].age
  <2>1. \A n \in Nat : \A k \in 0 .. n : Capped(k, n) \in 0 .. n
    BY DEF Capped
  <2>2. /\ proc[w].sinceBeat \in 0 .. HeartbeatTerm + MaxLag /\ proc[w].idle \in 0 .. IdleTerm
        /\ proc[w].age \in 0 .. StepTime
    BY <1>1, ProcessFacts
  <2>3. HeartbeatTerm + MaxLag \in Nat /\ IdleTerm \in Nat /\ StepTime \in Nat
    BY WorkerAssumption, SchedulerAssumption
  <2>4. b \in 0 .. HeartbeatTerm + MaxLag /\ i \in 0 .. IdleTerm /\ a \in 0 .. StepTime
    BY <2>1, <2>2, <2>3
  <2>5. proc'[w] = [proc[w] EXCEPT !.sinceBeat = b, !.idle = i, !.age = a]
    BY DEF WorkerTick
  <2> HIDE DEF b, i, a
  <2> QED BY <2>4, <2>5
<1> QED BY <1>1, <1>2, ProcessFacts DEF SameWork

(* Only the worker that publishes adds candidates. *)
Publishes(w) ==
  \E lag \in Lag : proc[w].pc = "sealed" /\ CompleteChunk(proc[w].lease, proc[w].content, lag)

LEMMA OnlyPublishDelivers ==
  ASSUME NEW w \in Worker, OwnStep(w)
  PROVE  cands' = cands \/ Publishes(w)
<1>1. SchedulerUnchanged => cands' = cands
  BY DEF SchedulerUnchanged, ledgerVars
<1>2. \A l, target, lag : Transition(l, target, lag) => cands' = cands
  BY DEF Transition, ledgerVars
<1>3. \A l, stage, lag : Heartbeat(l, stage, lag) => cands' = cands
  BY DEF Heartbeat, Extend, ledgerVars
<1>4. CASE \/ PollCancelled(w) \/ PollOpen(w) \/ SeeCancelled(w) \/ StepFails(w)
           \/ SealManifest(w) \/ Die(w) \/ Restart(w)
  BY <1>1, <1>4 DEF PollCancelled, PollOpen, SeeCancelled, StepFails, SealManifest, Die, Restart
<1>5. ASSUME NEW lag \in Lag, \/ BeginRender(w, lag) \/ FinishUpload(w, lag)
                              \/ GiveUp(w, lag) \/ StopCancelled(w, lag)
      PROVE  cands' = cands
  BY <1>1, <1>2, <1>5 DEF BeginRender, FinishUpload, GiveUp, StopCancelled, Advance, HandBack
<1>6. ASSUME NEW lag \in Lag, Progress(w, lag) \/ \E f \in Frame : UploadFrame(w, f, lag)
      PROVE  cands' = cands
  <2>1. \E stage, kept : Beat(w, stage, kept, lag)
    BY <1>6 DEF Progress, UploadFrame
  <2> QED BY <1>1, <1>3, <2>1 DEF Beat
<1>7. ASSUME NEW lag \in Lag, NEW content, FinishRender(w, content, lag) PROVE cands' = cands
  BY <1>1, <1>2, <1>7 DEF FinishRender
<1>8. ASSUME NEW lag \in Lag, Publish(w, lag) PROVE cands' = cands \/ Publishes(w)
  BY <1>1, <1>8 DEF Publish, Publishes, At
<1>9. ASSUME NEW lag \in Lag, (\E c \in Chunk : Claimed(w, c, lag)) \/ NoWork(w, lag)
      PROVE  cands' = cands
  BY <1>9 DEF Claimed, ClaimGranted, NoWork, ClaimRefused, ledgerVars
<1>10. CASE WorkerStep(w)
  BY <1>4, <1>5, <1>6, <1>8, <1>9, <1>10 DEF WorkerStep
<1>11. CASE RenderEnds(w)
  BY <1>4, <1>7, <1>11 DEF RenderEnds
<1> QED BY <1>4, <1>10, <1>11 DEF OwnStep

(* A candidate was there before, or is the one delivered. *)
Origin(rows, after, s, w, k) ==
  \A q \in after : (\E r \in rows : SameObject(q, r)) \/ Delivered(q, s, w, k)

LEMMA CandidatesHaveOrigin ==
  ASSUME LedgerTypeOK, NEW f \in Frame, NEW s \in Sha, NEW w \in Worker, NEW k \in ObjectKey
  PROVE  /\ Origin(cands[f], CandidatesAfter(f, s, w, k, TRUE), s, w, k)
         /\ Origin(cands[f], CandidatesAfter(f, s, w, k, FALSE), s, w, k)
<1> SUFFICES ASSUME NEW mark \in BOOLEAN
             PROVE  Origin(cands[f], CandidatesAfter(f, s, w, k, mark), s, w, k)
  OBVIOUS
<1> QED BY CandidatesAfterFacts DEF Origin

(* The store is complete for every row under an attempt's key. *)
LEMMA PublicationStep ==
  ASSUME SchedulerInv, LedgerInv, WorkerInv, [WorkerNext]_workerVars
  PROVE  ObjectsBeforePublication'
<1> DEFINE Backed(c, f, r, objs, mans) ==
             /\ [chunk |-> c, token |-> r.key, frame |-> f, sha |-> r.sha] \in objs
             /\ \E m \in mans : m.chunk = c /\ m.token = r.key /\ m.content[f] = r.sha
<1>0. /\ objects \subseteq objects' /\ manifests \subseteq manifests'
  <2>1. CASE \E w \in Worker : OwnStep(w)
    BY <2>1, OthersStay
  <2>2. CASE Operator \/ WorkerTick \/ UNCHANGED workerVars
    BY <2>2 DEF Operator, WorkerTick, StoreUnchanged, workerVars
  <2> QED BY <2>1, <2>2 DEF WorkerNext, OwnStep
<1>1. ASSUME NEW c \in Chunk, NEW f \in FramesOf(c), NEW r \in cands[f], r.key # 0
      PROVE  Backed(c, f, r, objects, manifests)
  BY <1>1 DEF WorkerInv, ObjectsBeforePublication
<1>2. \A c, f, r : Backed(c, f, r, objects, manifests) => Backed(c, f, r, objects', manifests')
  BY <1>0
<1>3. \A c, f, q, r : q.key = r.key /\ q.sha = r.sha /\ Backed(c, f, r, objects', manifests')
        => Backed(c, f, q, objects', manifests')
  OBVIOUS
<1> HIDE DEF Backed
<1> SUFFICES ASSUME NEW c \in Chunk, NEW f \in FramesOf(c), NEW q \in cands'[f], q.key # 0
             PROVE  Backed(c, f, q, objects', manifests')
  BY DEF ObjectsBeforePublication, Backed
<1>4. f \in Frame /\ LedgerTypeOK
  BY ChunkFacts DEF LedgerInv
<1>5. CASE \E r \in cands[f] : SameObject(q, r)
  BY <1>1, <1>2, <1>3, <1>5 DEF SameObject
<1>6. CASE q \in cands[f]
  BY <1>1, <1>2, <1>6
<1>7. ASSUME NEW w \in Worker, Publishes(w)
      PROVE  Backed(c, f, q, objects', manifests')
  <2> DEFINE l == proc[w].lease
             content == proc[w].content
  <2>1. proc[w].pc = "sealed" /\ proc[w].pc \in Work /\ Stored(proc[w], objects, manifests)
    BY <1>7, PcFacts DEF Publishes, WorkerInv, Sound
  <2>2. /\ l.chunk \in Chunk /\ l.worker \in Worker /\ l.token \in ObjectKey
        /\ FramesOf(l.chunk) \in SUBSET Frame /\ content \in [FramesOf(l.chunk) -> Sha]
    BY <2>1, BusyFacts, LeaseFacts, ChunkFacts DEF Stored
  <2>3. Deliver(content, l.worker, l.token, TRUE)
    BY <1>7 DEF Publishes, CompleteChunk
  <2> HIDE DEF content
  <2>4. CASE f \notin FramesOf(l.chunk)
    <3>1. cands'[f] = cands[f]
      BY <1>4, <2>2, <2>3, <2>4, DeliverFacts
    <3> QED BY <1>6, <3>1
  <2>5. CASE f \in FramesOf(l.chunk)
    <3>1. c = l.chunk
      BY <1>4, <2>2, <2>5, ChunksDisjoint
    <3>2. cands'[f] = CandidatesAfter(f, content[f], l.worker, l.token, TRUE) /\ content[f] \in Sha
      BY <1>4, <2>2, <2>3, <2>5, DeliverFacts
    <3>3. (\E r \in cands[f] : SameObject(q, r)) \/ Delivered(q, content[f], l.worker, l.token)
      BY <1>4, <2>2, <3>2, CandidatesHaveOrigin DEF Origin
    <3>4. CASE Delivered(q, content[f], l.worker, l.token)
      <4>1. Object(l, f, content[f]) \in objects /\ Manifest(l, content) \in manifests
        BY <2>1, <2>5 DEF Stored, content
      <4>2. q.key = l.token /\ q.sha = content[f]
        BY <3>4 DEF Delivered
      <4>3. Backed(c, f, q, objects, manifests)
        BY <3>1, <4>1, <4>2 DEF Backed, Object, Manifest
      <4> QED BY <1>2, <4>3
    <3> QED BY <1>5, <3>3, <3>4
  <2> QED BY <2>4, <2>5
<1>8. ASSUME NEW e \in Outside, RegisterExternalPublication(e)
      PROVE  q \in cands[f] \/ \E r \in cands[f] : SameObject(q, r)
  <2> DEFINE content == [g \in {e.frame} |-> e.sha]
  <2>1. /\ e.frame \in Frame /\ e.worker \in Worker /\ e.sha \in Sha /\ 0 \in ObjectKey
        /\ content \in [{e.frame} -> Sha] /\ {e.frame} \in SUBSET Frame
    BY SchedulerAssumption
  <2>2. Deliver(content, e.worker, 0, FALSE)
    BY <1>8 DEF RegisterExternalPublication
  <2> HIDE DEF content
  <2>3. CASE f \in {e.frame}
    <3>1. cands'[f] = CandidatesAfter(f, content[f], e.worker, 0, FALSE) /\ content[f] \in Sha
      BY <1>4, <2>1, <2>2, <2>3, DeliverFacts
    <3>2. Origin(cands[f], cands'[f], content[f], e.worker, 0)
      BY <1>4, <2>1, <3>1, CandidatesHaveOrigin
    <3> QED BY <3>2 DEF Origin, Delivered
  <2>4. CASE f \notin {e.frame}
    <3>1. cands'[f] = cands[f]
      BY <1>4, <2>1, <2>2, <2>4, DeliverFacts
    <3> QED BY <3>1
  <2> QED BY <2>3, <2>4
<1>9. cands' = cands => q \in cands[f]
  OBVIOUS
<1>10. CASE Operator
  <2>1. cands' = cands \/ \E e \in Outside : RegisterExternalPublication(e)
    BY <1>10 DEF Operator, CancelJob, RecoverExpiredLeases, ResolveConflict, Resolve, ledgerVars
  <2> QED BY <1>5, <1>6, <1>8, <1>9, <2>1
<1>11. CASE WorkerTick \/ UNCHANGED workerVars
  <2>1. cands' = cands
    BY <1>11 DEF WorkerTick, Tick, workerVars, vars, ledgerVars
  <2> QED BY <1>6, <1>9, <2>1
<1>12. ASSUME NEW w \in Worker, OwnStep(w)
       PROVE  Backed(c, f, q, objects', manifests')
  <2>1. cands' = cands \/ Publishes(w)
    BY <1>12, OnlyPublishDelivers
  <2> QED BY <1>6, <1>7, <1>9, <2>1
<1> QED BY <1>10, <1>11, <1>12 DEF WorkerNext, OwnStep

(* The records of the processes stay a function of the workers. *)
LEMMA RecordsStay ==
  ASSUME proc \in [Worker -> Process], [WorkerNext]_workerVars
  PROVE  DOMAIN proc' = Worker /\ proc' = [v \in Worker |-> proc'[v]]
<1> DEFINE Good == DOMAIN proc' = Worker /\ proc' = [v \in Worker |-> proc'[v]]
<1>1. \A w, r : proc' = [proc EXCEPT ![w] = r] => Good
  OBVIOUS
<1>2. \A w, pc : Goto(w, pc) => Good
  BY DEF Goto
<1>3. \A w, target, pc, lag : Advance(w, target, pc, lag) => Good
  BY <1>2 DEF Advance
<1>4. \A w, stage, kept, lag : Beat(w, stage, kept, lag) => Good
  BY DEF Beat
<1>5. \A w, content, lag : FinishRender(w, content, lag) => Good
  BY <1>2 DEF FinishRender
<1>6. proc' = proc => Good
  OBVIOUS
<1>7. WorkerTick => Good
  BY DEF WorkerTick
<1>8. ASSUME NEW w \in Worker, OwnStep(w) PROVE Good
  <2>1. CASE PollCancelled(w) \/ PollOpen(w) \/ SeeCancelled(w) \/ StepFails(w) \/ SealManifest(w)
    <3>1. \E pc : Goto(w, pc)
      BY <2>1 DEF PollCancelled, PollOpen, SeeCancelled, StepFails, SealManifest
    <3> QED BY <1>2, <3>1
  <2>2. CASE Die(w) \/ Restart(w)
    BY <2>2 DEF Die, Restart
  <2>3. ASSUME NEW lag \in Lag, \/ \E c \in Chunk : Claimed(w, c, lag)
                                \/ GiveUp(w, lag) \/ StopCancelled(w, lag)
        PROVE  Good
    BY <2>3 DEF Claimed, GiveUp, StopCancelled
  <2>4. ASSUME NEW lag \in Lag, NoWork(w, lag) \/ BeginRender(w, lag) \/ FinishUpload(w, lag)
        PROVE  Good
    <3>1. (\E pc : Goto(w, pc)) \/ \E target, pc : Advance(w, target, pc, lag)
      BY <2>4 DEF NoWork, BeginRender, FinishUpload
    <3> QED BY <1>2, <1>3, <3>1
  <2>5. ASSUME NEW lag \in Lag, Progress(w, lag) \/ \E f \in Frame : UploadFrame(w, f, lag)
        PROVE  Good
    <3>1. CASE Progress(w, lag)
      BY <1>4, <3>1 DEF Progress
    <3>2. ASSUME NEW f \in Frame, UploadFrame(w, f, lag) PROVE Good
      <4>1. PICK kept : Beat(w, "UPLOADING", kept, lag)
        BY <3>2 DEF UploadFrame
      <4> QED BY <1>4, <4>1
    <3> QED BY <2>5, <3>1, <3>2
  <2>6. ASSUME NEW lag \in Lag, Publish(w, lag) PROVE Good
    <3>1. (\E pc : Goto(w, pc)) \/ proc' = [proc EXCEPT ![w] = Fresh(proc[w].restarts)]
      BY <2>6 DEF Publish
    <3> QED BY <1>2, <3>1
  <2> HIDE DEF Good
  <2>7. CASE WorkerStep(w)
    BY <2>1, <2>3, <2>4, <2>5, <2>6, <2>7 DEF WorkerStep
  <2>8. CASE RenderEnds(w)
    <3>1. (\E content, lag : FinishRender(w, content, lag)) \/ SeeCancelled(w) \/ StepFails(w)
      BY <2>8 DEF RenderEnds
    <3>2. (\E content, lag : FinishRender(w, content, lag)) => Good
      BY <1>5
    <3> QED BY <2>1, <3>1, <3>2
  <2> QED BY <1>8, <2>2, <2>7, <2>8 DEF OwnStep
<1> HIDE DEF Good
<1>9. Good
  BY <1>6, <1>7, <1>8 DEF WorkerNext, OwnStep, Operator, workerVars
<1> QED BY <1>9 DEF Good

-----------------------------------------------------------------------------
(* The invariant. *)

LEMMA WorkersStart == WorkerInit => WorkerInv
<1> SUFFICES ASSUME WorkerInit PROVE WorkerInv
  OBVIOUS
<1>1. 0 \in 0 .. MaxRestarts
  BY WorkerAssumption
<1>2. ASSUME NEW w \in Worker
      PROVE  /\ proc[w] \in Process /\ proc[w].pc = "poll" /\ proc[w].lease = NoLease
  BY <1>1, FreshFacts DEF WorkerInit
<1>3. proc \in [Worker -> Process]
  BY <1>2 DEF WorkerInit
<1>4. \A c \in Chunk : chunk[c].worker = NoWorker
  BY DEF WorkerInit, Init
<1>5. Unassigned
  BY <1>4 DEF Unassigned
<1>6. ASSUME NEW w \in Worker
      PROVE  Sound(w, proc[w], chunk, leases, objects, manifests)
  <2>1. Accounted(w, proc[w], chunk)
    BY <1>4, SchedulerAssumption DEF Accounted
  <2> QED BY <1>2, <2>1, PcFacts, IdleIsSound
<1>7. ObjectsBeforePublication
  <2>1. \A c \in Chunk : \A f \in FramesOf(c) : cands[f] = {}
    BY ChunkFacts DEF WorkerInit, Init, LedgerInit
  <2> QED BY <2>1 DEF ObjectsBeforePublication
<1> QED BY <1>3, <1>5, <1>6, <1>7 DEF WorkerInv

LEMMA WorkersStep ==
  SchedulerInv /\ LedgerInv /\ WorkerInv /\ [WorkerNext]_workerVars => WorkerInv'
<1> SUFFICES ASSUME SchedulerInv, LedgerInv, WorkerInv, [WorkerNext]_workerVars
             PROVE  WorkerInv'
  OBVIOUS
<1>1. Acting /\ [Next]_vars
  BY ClientSteps DEF Acting
<1>2. SchedulerInv'
  BY <1>1, SchedulerNext
<1>3. /\ chunk \in [Chunk -> ChunkRow] /\ chunk' \in [Chunk -> ChunkRow] /\ leases' \subseteq Lease
      /\ proc \in [Worker -> Process] /\ Unassigned
      /\ \A w \in Worker : Sound(w, proc[w], chunk, leases, objects, manifests)
  BY <1>2 DEF SchedulerInv, TypeOK, WorkerInv
<1>4. ASSUME NEW v \in Worker, proc'[v] \in Process, SameWork(proc[v], proc'[v]),
             Loosened(v, chunk, chunk'), leases \subseteq leases',
             objects \subseteq objects', manifests \subseteq manifests'
      PROVE  SoundNow(v)'
  <2>1. Sound(v, proc'[v], chunk', leases', objects', manifests')
    BY <1>3, <1>4, LoosenedKeeps
  <2> QED BY <2>1 DEF SoundNow
<1>5. DOMAIN proc' = Worker /\ proc' = [v \in Worker |-> proc'[v]]
  BY <1>3, RecordsStay
<1>6. (Unassigned /\ \A v \in Worker : SoundNow(v))'
  <2>1. ASSUME NEW w \in Worker, OwnStep(w)
        PROVE  Unassigned' /\ \A v \in Worker : SoundNow(v)'
    <3>1. /\ SoundNow(w)' /\ leases \subseteq leases' /\ Unassigned'
          /\ \A v \in Worker \ {w} : Loosened(v, chunk, chunk')
      BY <1>1, <2>1, OwnStepSound
    <3>2. /\ \A v \in Worker \ {w} : proc'[v] = proc[v]
          /\ objects \subseteq objects' /\ manifests \subseteq manifests'
      BY <2>1, OthersStay
    <3>3. ASSUME NEW v \in Worker \ {w} PROVE SoundNow(v)'
      BY <1>3, <1>4, <3>1, <3>2 DEF SameWork
    <3> QED BY <3>1, <3>3
  <2>2. ASSUME Loosens, leases' = leases, StoreUnchanged,
               \A v \in Worker : proc'[v] \in Process /\ SameWork(proc[v], proc'[v])
        PROVE  Unassigned' /\ \A v \in Worker : SoundNow(v)'
    <3>1. Unassigned' /\ \A v \in Worker : Loosened(v, chunk, chunk')
      BY <1>3, <2>2, LoosensFacts
    <3> QED BY <1>4, <2>2, <3>1 DEF StoreUnchanged
  <2>3. proc' = proc => \A v \in Worker : proc'[v] \in Process /\ SameWork(proc[v], proc'[v])
    BY <1>3 DEF SameWork
  <2>4. CASE Operator
    <3>1. Loosens
      BY <1>3, <2>4, OperatorLoosens
    <3>2. leases' = leases /\ proc' = proc /\ StoreUnchanged
      BY <2>4 DEF Operator, CancelJob, RecoverExpiredLeases, RegisterExternalPublication, ResolveConflict
    <3> QED BY <2>2, <2>3, <3>1, <3>2
  <2>5. CASE WorkerTick
    <3>1. Tick /\ StoreUnchanged
      BY <2>5 DEF WorkerTick
    <3>2. Loosens /\ leases' = leases
      BY <3>1, TickLoosens DEF Tick
    <3> QED BY <2>2, <2>5, <3>1, <3>2, TickKeepsWork
  <2>6. CASE UNCHANGED workerVars
    <3>1. chunk' = chunk /\ leases' = leases /\ proc' = proc /\ StoreUnchanged
      BY <2>6 DEF workerVars, vars, StoreUnchanged
    <3>2. Loosens
      BY <3>1, SameRowLoosens DEF Loosens
    <3> QED BY <2>2, <2>3, <3>1, <3>2
  <2>7. Unassigned' /\ \A v \in Worker : SoundNow(v)'
    BY <2>1, <2>4, <2>5, <2>6 DEF WorkerNext, OwnStep
  <2> QED BY <2>7
<1>7. proc' \in [Worker -> Process]
  <2>1. \A v \in Worker : proc'[v] \in Process
    BY <1>6 DEF SoundNow, Sound, Shaped
  <2> QED BY <1>5, <2>1
<1>8. ObjectsBeforePublication'
  BY PublicationStep
<1> QED BY <1>6, <1>7, <1>8 DEF WorkerInv, SoundNow

LEMMA WorkersInvariant == WorkerSpec => [](SchedulerInv /\ LedgerInv /\ WorkerInv)
<1>1. WorkerInit => SchedulerInv /\ LedgerInv
  BY SchedulerInit DEF WorkerInit
<1>2. SchedulerInv /\ LedgerInv /\ WorkerInv /\ [WorkerNext]_workerVars => SchedulerInv' /\ LedgerInv'
  BY ClientSteps, SchedulerNext DEF Acting
<1> QED BY <1>1, <1>2, WorkersStart, WorkersStep, PTL DEF WorkerSpec

-----------------------------------------------------------------------------
(* The theorems. *)

(* The workers are clients of the scheduler: nothing they do is outside what  *)
(* ChunkScheduler allows, so all that is proved there holds of them.          *)
THEOREM WorkersOnlyCallScheduler == WorkerSpec => WorkersAreClients
<1>1. WorkerInit => Init
  BY DEF WorkerInit
<1>2. SchedulerInv /\ WorkerInv /\ [WorkerNext]_workerVars => [Next]_vars
  BY ClientSteps DEF Acting
<1> QED BY <1>1, <1>2, WorkersInvariant, PTL DEF WorkerSpec, WorkersAreClients, Spec

(* A process holds a lease exactly while it works on one. *)
THEOREM WorkerTypeCorrect == WorkerSpec => []WorkerTypeOK
<1>1. WorkerInv => WorkerTypeOK
  BY WorkFacts DEF WorkerInv, WorkerTypeOK, Sound, Shaped
<1> QED BY <1>1, WorkersInvariant, PTL

(* While its lease opens the chunk, a worker and the database agree on how    *)
(* far the chunk is: run_once never meets an invalid transition.              *)
THEOREM StagesAgree == WorkerSpec => []StageAgrees
<1>1. WorkerInv => StageAgrees
  BY WorkFacts DEF WorkerInv, StageAgrees, Sound, Agrees
<1> QED BY <1>1, WorkersInvariant, PTL

(* No path through run_once forgets a lease that has not expired. *)
THEOREM LeasesAreAccounted == WorkerSpec => []LeasesAreReturned
<1>1. WorkerInv => LeasesAreReturned
  BY WorkFacts DEF WorkerInv, LeasesAreReturned, Sound, Accounted, At
<1> QED BY <1>1, WorkersInvariant, PTL

(* A row never points at a frame or a manifest that is not in the store. *)
THEOREM StoreComesFirst == WorkerSpec => []ObjectsBeforePublication
<1>1. WorkerInv => ObjectsBeforePublication
  BY DEF WorkerInv
<1> QED BY <1>1, WorkersInvariant, PTL

-----------------------------------------------------------------------------
(* Punctual workers. *)

(* The lease outlives a heartbeat interval and the three steps that may       *)
(* follow a heartbeat which was not due: nothing between the last upload and  *)
(* the completion extends it.                                                 *)
EnoughTime == MaxLag + (HeartbeatTerm - 1) + 3 * StepTime < LeaseTerm

(* How much of the lease the worker may have used up when it made its last    *)
(* step.                                                                      *)
Spent(p) ==
  CASE p.pc = "leased" -> 0
    [] p.pc = "rendering" -> HeartbeatTerm - 1 + StepTime
    [] p.pc = "uploading" /\ p.uploaded = {} -> HeartbeatTerm - 1 + 2 * StepTime
    [] p.pc = "uploading" /\ p.uploaded # {} -> HeartbeatTerm - 1
    [] p.pc = "validating" -> HeartbeatTerm - 1 + StepTime
    [] OTHER -> HeartbeatTerm - 1 + 2 * StepTime

InTime(p, rows) ==
  p.pc \in Stages =>
    /\ OpenIn(rows, p.lease)
    /\ rows[p.lease.chunk].remaining >= LeaseTerm - MaxLag - Spent(p) - p.age
    /\ p.sinceBeat < HeartbeatTerm =>
         rows[p.lease.chunk].remaining >= LeaseTerm - MaxLag - p.sinceBeat

TimelyInv == \A w \in Worker : InTime(proc[w], chunk)

LEMMA Numbers ==
  /\ HeartbeatTerm \in Nat /\ HeartbeatTerm >= 1 /\ StepTime \in Nat /\ MaxLag \in Nat
  /\ LeaseTerm \in Nat
  /\ \A p \in Process : /\ p.age \in Nat /\ p.age <= StepTime /\ p.sinceBeat \in Nat
                        /\ Spent(p) \in Nat /\ Spent(p) <= HeartbeatTerm - 1 + 2 * StepTime
<1>1. /\ HeartbeatTerm \in Nat /\ HeartbeatTerm >= 1 /\ StepTime \in Nat /\ MaxLag \in Nat
      /\ LeaseTerm \in Nat
  BY WorkerAssumption, SchedulerAssumption
<1>2. ASSUME NEW p \in Process
      PROVE  /\ p.age \in Nat /\ p.age <= StepTime /\ p.sinceBeat \in Nat
             /\ Spent(p) \in Nat /\ Spent(p) <= HeartbeatTerm - 1 + 2 * StepTime
  <2>1. p.age \in 0 .. StepTime /\ p.sinceBeat \in 0 .. HeartbeatTerm + MaxLag
    BY ProcessFacts
  <2> QED BY <1>1, <2>1 DEF Spent
<1> QED BY <1>1, <1>2

(* A worker in time holds its lease, whatever time stamp a caller carries. *)
LEMMA InTimeHolds ==
  ASSUME EnoughTime, Acting, NEW w \in Worker, InTime(proc[w], chunk), proc[w].pc \in Stages
  PROVE  LET l == proc[w].lease
         IN  /\ OpenIn(chunk, l) /\ chunk[l.chunk].remaining > 0 /\ l.chunk \in Chunk
             /\ chunk[l.chunk].worker = w /\ chunk[l.chunk].state \in Active
<1>1. proc[w] \in Process /\ proc[w].pc \in Work
  BY PcFacts DEF Acting, WorkerInv
<1>2. /\ proc[w].lease.chunk \in Chunk /\ proc[w].lease.worker = w
      /\ proc[w].lease.token # 0 /\ chunk[proc[w].lease.chunk] \in ChunkRow
  BY <1>1, BusyFacts DEF Acting
<1>3. OpenIn(chunk, proc[w].lease)
  BY DEF InTime
<1>4. chunk[proc[w].lease.chunk].remaining > 0
  <2>1. chunk[proc[w].lease.chunk].remaining \in Int
    BY <1>2 DEF ChunkRow
  <2> QED BY <1>1, <2>1, Numbers DEF InTime, EnoughTime
<1>5. chunk[proc[w].lease.chunk].state \in Active
  BY <1>2, <1>3 DEF Acting, SchedulerInv, LeaseDiscipline, OpenIn
<1> QED BY <1>2, <1>3, <1>4, <1>5 DEF OpenIn

(* Nobody else touches a row that is held. *)
LEMMA SweepSpares ==
  ASSUME SchedulerInv, NEW lag \in Lag, NEW c \in Chunk, chunk[c].remaining > 0
  PROVE  Swept(lag)[c] = chunk[c]
<1>1. chunk[c].remaining \in Int /\ lag \in Int /\ lag >= 0
  BY SchedulerAssumption DEF SchedulerInv, TypeOK, ChunkRow, Lag
<1> QED BY <1>1 DEF Swept

LEMMA AskingSpares ==
  ASSUME SchedulerInv, NEW v \in Worker, AsksForWork(v),
         NEW c \in Chunk, chunk[c].state \in Active, chunk[c].remaining > 0
  PROVE  chunk'[c] = chunk[c]
<1>1. PICK lag \in Lag : ClaimRefused(lag) \/ \E d \in Chunk : ClaimGranted(v, d, lag)
  BY DEF AsksForWork
<1>2. Swept(lag)[c] = chunk[c] /\ Swept(lag) \in [Chunk -> ChunkRow]
  BY SweepSpares, SweptFacts
<1>3. CASE ClaimRefused(lag)
  BY <1>2, <1>3 DEF ClaimRefused
<1>4. ASSUME NEW d \in Chunk, ClaimGranted(v, d, lag) PROVE chunk'[c] = chunk[c]
  <2>1. Swept(lag)[d].state \in Claimable
    BY <1>4 DEF ClaimGranted
  <2>2. c # d
    BY <1>2, <2>1, StateFacts
  <2> QED BY <1>2, <1>4, <2>2 DEF ClaimGranted
<1> QED BY <1>1, <1>3, <1>4

LEMMA LeaseStepSpares ==
  ASSUME SchedulerInv, NEW l \in leases, NEW lag \in Lag, LeaseStep(l, lag),
         NEW c \in Chunk, chunk[c].worker # l.worker
  PROVE  chunk'[c] = chunk[c]
<1>1. l.chunk \in Chunk /\ chunk \in [Chunk -> ChunkRow]
  BY LeaseFacts DEF SchedulerInv, TypeOK
<1>2. Holds(l, lag)
  BY DEF LeaseStep, RenewLease, Heartbeat, Transition, CompleteChunk
<1>3. c # l.chunk
  BY <1>2 DEF Holds
<1> QED BY <1>1, <1>3 DEF LeaseStep, RenewLease, Heartbeat, Extend, Transition, CompleteChunk

LEMMA OthersSpare ==
  ASSUME Acting, NEW v \in Worker, OwnStep(v),
         NEW c \in Chunk, chunk[c].worker # v, chunk[c].state \in Active, chunk[c].remaining > 0
  PROVE  chunk'[c] = chunk[c]
<1>1. CASE SchedulerUnchanged
  BY <1>1 DEF SchedulerUnchanged
<1>2. CASE UsesLease(v)
  <2>1. proc[v].lease \in leases /\ proc[v].lease.worker = v /\ SchedulerInv
    BY <1>2, BusyFacts DEF Acting, UsesLease
  <2> QED BY <1>2, <2>1, LeaseStepSpares DEF UsesLease
<1>3. CASE AsksForWork(v)
  BY <1>3, AskingSpares DEF Acting
<1> QED BY <1>1, <1>2, <1>3, OwnStepKinds

LEMMA OperatorSpares ==
  ASSUME SchedulerInv, Operator, NEW c \in Chunk, chunk[c].state \in Active, chunk[c].remaining > 0
  PROVE  chunk'[c] = chunk[c]
<1>1. ASSUME NEW lag \in Lag, RecoverExpiredLeases(lag) PROVE chunk'[c] = chunk[c]
  BY <1>1, SweepSpares DEF RecoverExpiredLeases
<1>2. ASSUME NEW f \in Frame, NEW s \in Sha, ResolveConflict(f, s) PROVE chunk'[c] = chunk[c]
  BY <1>2, StateFacts DEF ResolveConflict
<1>3. CASE CancelJob \/ \E e \in Outside : RegisterExternalPublication(e)
  BY <1>3 DEF CancelJob, RegisterExternalPublication
<1> QED BY <1>1, <1>2, <1>3 DEF Operator

LEMMA ChunksHaveFrames ==
  ASSUME NEW c \in Chunk
  PROVE  FramesOf(c) # {}
<1>1. c \in Frame /\ c \in Int
  BY SchedulerAssumption DEF Chunk
<1>2. c \in FramesOf(c)
  BY <1>1, SchedulerAssumption DEF FramesOf
<1> QED BY <1>2

(* A step that does not extend the lease. *)
LEMMA StillInTime ==
  ASSUME Acting, NEW w \in Worker, InTime(proc[w], chunk), proc[w].pc \in Stages,
         proc'[w] \in Process, proc'[w].lease = proc[w].lease,
         proc'[w].age = 0, proc'[w].sinceBeat = proc[w].sinceBeat,
         OpenIn(chunk', proc[w].lease),
         chunk'[proc[w].lease.chunk].remaining = chunk[proc[w].lease.chunk].remaining,
         Spent(proc[w]) + StepTime <= Spent(proc'[w])
  PROVE  InTime(proc'[w], chunk')
<1>1. proc[w] \in Process /\ proc[w].pc \in Work
  BY PcFacts DEF Acting, WorkerInv
<1>2. chunk[proc[w].lease.chunk].remaining \in Int
  BY <1>1, BusyFacts DEF Acting, ChunkRow
<1>3. chunk[proc[w].lease.chunk].remaining >= LeaseTerm - MaxLag - Spent(proc[w]) - proc[w].age
  BY DEF InTime
<1>4. chunk'[proc[w].lease.chunk].remaining
        >= LeaseTerm - MaxLag - Spent(proc'[w]) - proc'[w].age
  BY <1>1, <1>2, <1>3, Numbers
<1> QED BY <1>4 DEF InTime

LEMMA AdvanceInTime ==
  ASSUME Acting, NEW w \in Worker, InTime(proc[w], chunk), NEW lag \in Lag,
         BeginRender(w, lag) \/ FinishUpload(w, lag)
  PROVE  InTime(proc'[w], chunk')
<1>1. /\ proc \in [Worker -> Process] /\ SchedulerInv
      /\ proc[w].pc \in {"leased", "uploading"} /\ proc[w].pc \in Stages /\ proc[w].pc \in Work
      /\ "giveUp" \in PcOf /\ "rendering" \in PcOf /\ "validating" \in PcOf
  BY PcFacts DEF Acting, WorkerInv, BeginRender, FinishUpload, At, Stages
<1>2. proc[w].lease \in leases /\ proc[w].lease.chunk \in Chunk
  BY <1>1, BusyFacts DEF Acting
<1>3. CASE Goto(w, "giveUp")
  <2>1. proc'[w].pc \notin Stages
    BY <1>1, <1>3, GotoFacts DEF Stages
  <2> QED BY <2>1 DEF InTime
<1>4. ASSUME BeginRender(w, lag), Transition(proc[w].lease, "RENDERING", lag), Goto(w, "rendering")
      PROVE  InTime(proc'[w], chunk')
  <2>1. /\ proc'[w] \in Process /\ proc'[w].pc = "rendering" /\ proc'[w].lease = proc[w].lease
        /\ proc'[w].age = 0 /\ proc'[w].sinceBeat = proc[w].sinceBeat
    BY <1>1, <1>4, GotoFacts
  <2>2. /\ OpenIn(chunk', proc[w].lease)
        /\ chunk'[proc[w].lease.chunk].remaining = chunk[proc[w].lease.chunk].remaining
    BY <1>1, <1>2, <1>4, ForwardFacts
  <2>3. Spent(proc[w]) = 0 /\ Spent(proc'[w]) = HeartbeatTerm - 1 + StepTime
    BY <1>4, <2>1 DEF Spent, BeginRender, At
  <2>4. Spent(proc[w]) + StepTime <= Spent(proc'[w])
    BY <2>3, Numbers
  <2> QED BY <1>1, <2>1, <2>2, <2>4, StillInTime
<1>5. ASSUME FinishUpload(w, lag), Transition(proc[w].lease, "VALIDATING", lag), Goto(w, "validating")
      PROVE  InTime(proc'[w], chunk')
  <2>1. /\ proc'[w] \in Process /\ proc'[w].pc = "validating" /\ proc'[w].lease = proc[w].lease
        /\ proc'[w].age = 0 /\ proc'[w].sinceBeat = proc[w].sinceBeat
    BY <1>1, <1>5, GotoFacts
  <2>2. /\ OpenIn(chunk', proc[w].lease)
        /\ chunk'[proc[w].lease.chunk].remaining = chunk[proc[w].lease.chunk].remaining
    BY <1>1, <1>2, <1>5, ForwardFacts
  <2>3. proc[w].uploaded # {}
    <3>1. FramesOf(proc[w].lease.chunk) # {}
      BY <1>2, ChunksHaveFrames
    <3> QED BY <1>5, <3>1 DEF FinishUpload
  <2>4. /\ Spent(proc[w]) = HeartbeatTerm - 1
        /\ Spent(proc'[w]) = HeartbeatTerm - 1 + StepTime
    BY <1>5, <2>1, <2>3 DEF Spent, FinishUpload, At
  <2>5. Spent(proc[w]) + StepTime <= Spent(proc'[w])
    BY <2>4, Numbers
  <2> QED BY <1>1, <2>1, <2>2, <2>5, StillInTime
<1> QED BY <1>3, <1>4, <1>5 DEF BeginRender, FinishUpload, Advance

LEMMA RenderedInTime ==
  ASSUME Acting, NEW w \in Worker, InTime(proc[w], chunk), NEW lag \in Lag,
         NEW content \in [FramesOf(proc[w].lease.chunk) -> Sha], FinishRender(w, content, lag)
  PROVE  InTime(proc'[w], chunk')
<1>1. /\ proc \in [Worker -> Process] /\ SchedulerInv /\ proc[w] \in Process
      /\ proc[w].pc = "rendering" /\ proc[w].pc \in Stages /\ proc[w].pc \in Work
      /\ "giveUp" \in PcOf
  BY PcFacts DEF Acting, WorkerInv, FinishRender, At, Stages
<1>2. proc[w].lease \in leases /\ proc[w].lease.chunk \in Chunk
  BY <1>1, BusyFacts DEF Acting
<1>3. CASE Goto(w, "giveUp")
  <2>1. proc'[w].pc \notin Stages
    BY <1>1, <1>3, GotoFacts DEF Stages
  <2> QED BY <2>1 DEF InTime
<1>4. CASE /\ Transition(proc[w].lease, "UPLOADING", lag)
           /\ proc' = [proc EXCEPT ![w].pc = "uploading", ![w].age = 0, ![w].content = content]
  <2>0. "uploading" \in PcOf /\ 0 \in 0 .. StepTime /\ content \in ContentOf
    BY <1>2, PcFacts, WorkerAssumption, ProcessFacts
  <2>1. proc'[w] = [proc[w] EXCEPT !.pc = "uploading", !.age = 0, !.content = content]
    BY <1>1, <1>4
  <2>2. /\ proc'[w] \in Process /\ proc'[w].pc = "uploading" /\ proc'[w].lease = proc[w].lease
        /\ proc'[w].age = 0 /\ proc'[w].sinceBeat = proc[w].sinceBeat
        /\ proc'[w].uploaded = proc[w].uploaded
    BY <1>1, <2>0, <2>1, ProcessFacts
  <2>3. /\ OpenIn(chunk', proc[w].lease)
        /\ chunk'[proc[w].lease.chunk].remaining = chunk[proc[w].lease.chunk].remaining
    BY <1>1, <1>2, <1>4, ForwardFacts
  <2>4. proc[w].uploaded = {}
    BY <1>1 DEF Acting, WorkerInv, Sound, Stored
  <2>5. /\ Spent(proc[w]) = HeartbeatTerm - 1 + StepTime
        /\ Spent(proc'[w]) = HeartbeatTerm - 1 + 2 * StepTime
    BY <1>1, <2>2, <2>4 DEF Spent
  <2>6. Spent(proc[w]) + StepTime <= Spent(proc'[w])
    BY <2>5, Numbers
  <2> QED BY <1>1, <2>2, <2>3, <2>6, StillInTime
<1> QED BY <1>3, <1>4 DEF FinishRender

LEMMA SealedInTime ==
  ASSUME Acting, NEW w \in Worker, InTime(proc[w], chunk), SealManifest(w)
  PROVE  InTime(proc'[w], chunk')
<1>1. /\ proc \in [Worker -> Process] /\ proc[w].pc = "validating" /\ proc[w].pc \in Stages
      /\ "sealed" \in PcOf /\ Goto(w, "sealed") /\ chunk' = chunk
  BY PcFacts DEF Acting, WorkerInv, SealManifest, At, Stages, SchedulerUnchanged
<1>2. /\ proc'[w] \in Process /\ proc'[w].pc = "sealed" /\ proc'[w].lease = proc[w].lease
      /\ proc'[w].age = 0 /\ proc'[w].sinceBeat = proc[w].sinceBeat
  BY <1>1, GotoFacts
<1>3. /\ Spent(proc[w]) = HeartbeatTerm - 1 + StepTime
      /\ Spent(proc'[w]) = HeartbeatTerm - 1 + 2 * StepTime
  BY <1>1, <1>2 DEF Spent
<1>4. Spent(proc[w]) + StepTime <= Spent(proc'[w])
  BY <1>3, Numbers
<1>5. OpenIn(chunk', proc[w].lease)
  BY <1>1 DEF InTime
<1> QED BY <1>1, <1>2, <1>4, <1>5, StillInTime

(* A heartbeat that is not due yet has the time since the last one to spare.  *)
LEMMA BeatInTime ==
  ASSUME Acting, NEW w \in Worker, InTime(proc[w], chunk), NEW lag \in Lag,
         NEW kept \in Process, NEW stage, proc[w].pc \in Stages, kept.pc = proc[w].pc,
         kept.lease = proc[w].lease, kept.sinceBeat = proc[w].sinceBeat,
         kept.pc = "rendering" \/ (kept.pc = "uploading" /\ kept.uploaded # {}),
         Beat(w, stage, kept, lag)
  PROVE  InTime(proc'[w], chunk')
<1>0. /\ proc \in [Worker -> Process] /\ SchedulerInv /\ proc[w].pc \in Work
      /\ proc[w] \in Process
  BY PcFacts DEF Acting, WorkerInv
<1>1. /\ proc[w].lease \in leases /\ chunk[proc[w].lease.chunk].remaining \in Int
      /\ OpenIn(chunk, proc[w].lease)
  BY <1>0, BusyFacts DEF Acting, ChunkRow, InTime
<1>2. /\ 0 \in 0 .. StepTime /\ lag \in 0 .. HeartbeatTerm + MaxLag /\ "giveUp" \in PcOf
      /\ lag \in Nat /\ lag <= MaxLag
  BY WorkerAssumption, SchedulerAssumption, PcFacts DEF Lag
<1>3. CASE /\ ~BeatDue(w, 0) /\ SchedulerUnchanged
           /\ proc' = [proc EXCEPT ![w] = [kept EXCEPT !.age = 0]]
  <2>1. proc'[w] = [kept EXCEPT !.age = 0]
    BY <1>0, <1>3
  <2>2. /\ proc'[w] \in Process /\ proc'[w].pc = kept.pc /\ proc'[w].lease = proc[w].lease
        /\ proc'[w].uploaded = kept.uploaded /\ proc'[w].age = 0
        /\ proc'[w].sinceBeat = proc[w].sinceBeat
    BY <1>2, <2>1, ProcessFacts
  <2>3. proc[w].sinceBeat < HeartbeatTerm /\ chunk' = chunk
    BY <1>0, <1>3, Numbers DEF BeatDue, SchedulerUnchanged
  <2>4. chunk[proc[w].lease.chunk].remaining >= LeaseTerm - MaxLag - proc[w].sinceBeat
    BY <2>3 DEF InTime
  <2>5. Spent(proc'[w]) >= HeartbeatTerm - 1
    BY <2>2, Numbers DEF Spent
  <2>6. chunk[proc[w].lease.chunk].remaining
          >= LeaseTerm - MaxLag - Spent(proc'[w]) - proc'[w].age
    BY <1>0, <1>1, <2>2, <2>3, <2>4, <2>5, Numbers
  <2> QED BY <1>1, <2>2, <2>3, <2>4, <2>6 DEF InTime
<1>4. CASE /\ Heartbeat(proc[w].lease, stage, lag)
           /\ proc' = [proc EXCEPT ![w] = [kept EXCEPT !.age = 0, !.sinceBeat = lag]]
  <2>1. proc'[w] = [kept EXCEPT !.age = 0, !.sinceBeat = lag]
    BY <1>0, <1>4
  <2>2. /\ proc'[w] \in Process /\ proc'[w].pc = kept.pc /\ proc'[w].lease = proc[w].lease
        /\ proc'[w].uploaded = kept.uploaded /\ proc'[w].age = 0 /\ proc'[w].sinceBeat = lag
    BY <1>2, <2>1, ProcessFacts
  <2>3. /\ OpenIn(chunk', proc[w].lease)
        /\ chunk'[proc[w].lease.chunk].remaining = LeaseTerm - lag
    BY <1>0, <1>1, <1>4, ExtendFacts
  <2>4. /\ chunk'[proc[w].lease.chunk].remaining
             >= LeaseTerm - MaxLag - Spent(proc'[w]) - proc'[w].age
        /\ chunk'[proc[w].lease.chunk].remaining >= LeaseTerm - MaxLag - proc'[w].sinceBeat
    BY <1>2, <2>2, <2>3, Numbers
  <2> QED BY <2>2, <2>3, <2>4 DEF InTime
<1>5. CASE proc' = [proc EXCEPT ![w] = [kept EXCEPT !.age = 0, !.pc = "giveUp"]]
  <2>1. proc'[w] = [kept EXCEPT !.age = 0, !.pc = "giveUp"]
    BY <1>0, <1>5
  <2>2. proc'[w].pc \notin Stages
    BY <1>2, <2>1, ProcessFacts DEF Stages
  <2> QED BY <2>2 DEF InTime
<1> QED BY <1>3, <1>4, <1>5 DEF Beat

LEMMA ClaimedInTime ==
  ASSUME Acting, NEW w \in Worker, NEW c \in Chunk, NEW lag \in Lag, Claimed(w, c, lag)
  PROVE  InTime(proc'[w], chunk')
<1> DEFINE L == [chunk |-> c, worker |-> w, token |-> chunk'[c].token]
<1>1. /\ SchedulerInv /\ ClaimGranted(w, c, lag) /\ proc \in [Worker -> Process]
      /\ proc[w].restarts \in 0 .. MaxRestarts
  BY ProcessFacts DEF Acting, WorkerInv, Claimed
<1>2. /\ chunk'[c].worker = w /\ chunk'[c].token \in 1 .. MaxAttempts
  BY <1>1, GrantFacts
<1>3. chunk'[c].remaining = LeaseTerm - lag
  BY <1>1, SweptFacts DEF ClaimGranted
<1>4. /\ proc'[w].pc = "leased" /\ proc'[w].lease = L
      /\ proc'[w].age = 0 /\ proc'[w].sinceBeat = 0
  <2>1. Afresh(w, proc[w].restarts, "leased", L)
    BY DEF Claimed, Afresh
  <2>2. "leased" \in PcOf /\ L \in Lease
    BY <1>2, PcFacts DEF Lease
  <2> HIDE DEF L
  <2> QED BY <1>1, <2>1, <2>2, AfreshFacts
<1>5. OpenIn(chunk', proc'[w].lease)
  BY <1>2, <1>4 DEF OpenIn
<1>6. Spent(proc'[w]) = 0
  BY <1>4 DEF Spent
<1>7. lag \in Nat /\ lag <= MaxLag
  BY SchedulerAssumption DEF Lag
<1> QED BY <1>3, <1>4, <1>5, <1>6, <1>7, Numbers DEF InTime

LEMMA OwnInTime ==
  ASSUME Acting, NEW w \in Worker, InTime(proc[w], chunk), WorkerStep(w) \/ RenderEnds(w)
  PROVE  InTime(proc'[w], chunk')
<1> DEFINE Goal == InTime(proc'[w], chunk')
<1>0. /\ proc \in [Worker -> Process] /\ proc[w] \in Process
      /\ proc[w].restarts \in 0 .. MaxRestarts
      /\ \A pc \in {"poll", "claim", "stopped", "giveUp", "cancelling"} : pc \in PcOf /\ pc \notin Stages
  BY ProcessFacts, PcFacts DEF Acting, WorkerInv, Stages, PcOf
<1>1. proc'[w].pc \notin Stages => Goal
  BY DEF InTime
<1>2. ASSUME NEW pc \in {"poll", "claim", "stopped", "giveUp", "cancelling"}, Goto(w, pc) PROVE Goal
  BY <1>0, <1>1, <1>2, GotoFacts
<1>3. CASE PollCancelled(w) \/ PollOpen(w) \/ SeeCancelled(w) \/ StepFails(w)
  BY <1>2, <1>3 DEF PollCancelled, PollOpen, SeeCancelled, StepFails
<1>4. ASSUME NEW lag \in Lag, NoWork(w, lag) PROVE Goal
  BY <1>2, <1>4 DEF NoWork
<1>5. ASSUME NEW lag \in Lag, GiveUp(w, lag) \/ Publish(w, lag) PROVE Goal
  <2>1. CASE proc' = [proc EXCEPT ![w] = Fresh(proc[w].restarts)]
    <3>1. proc'[w] = Fresh(proc[w].restarts)
      BY <1>0, <2>1
    <3> QED BY <1>0, <1>1, <3>1, FreshFacts
  <2> QED BY <1>2, <1>5, <2>1 DEF GiveUp, Publish
<1>6. ASSUME NEW lag \in Lag, StopCancelled(w, lag) PROVE Goal
  <2>1. proc'[w] = [Fresh(proc[w].restarts) EXCEPT !.pc = "stopped"]
    BY <1>0, <1>6 DEF StopCancelled
  <2>2. proc'[w].pc = "stopped"
    BY <1>0, <2>1, FreshFacts, ProcessFacts
  <2> QED BY <1>0, <1>1, <2>2
<1>7. ASSUME NEW lag \in Lag, Progress(w, lag) PROVE Goal
  <2>1. proc[w].pc = "rendering" /\ proc[w].pc \in Stages /\ Beat(w, "RENDERING", proc[w], lag)
    BY <1>7 DEF Progress, At, Stages
  <2> QED BY <1>0, <2>1, BeatInTime
<1>8. ASSUME NEW lag \in Lag, NEW f \in Frame, UploadFrame(w, f, lag) PROVE Goal
  <2> DEFINE kept == [proc[w] EXCEPT !.uploaded = @ \cup {f}]
  <2>1. proc[w].pc = "uploading" /\ proc[w].pc \in Stages /\ Beat(w, "UPLOADING", kept, lag)
    BY <1>8 DEF UploadFrame, At, Stages
  <2>2. /\ kept \in Process /\ kept.pc = proc[w].pc /\ kept.lease = proc[w].lease
        /\ kept.sinceBeat = proc[w].sinceBeat /\ kept.uploaded # {}
    BY <1>0, ProcessFacts
  <2> HIDE DEF kept
  <2> QED BY <2>1, <2>2, BeatInTime
<1> HIDE DEF Goal
<1>9. CASE WorkerStep(w)
  <2>1. ASSUME NEW lag \in Lag, NEW c \in Chunk, Claimed(w, c, lag) PROVE Goal
    BY <2>1, ClaimedInTime DEF Goal
  <2>2. ASSUME NEW lag \in Lag, BeginRender(w, lag) \/ FinishUpload(w, lag) PROVE Goal
    BY <2>2, AdvanceInTime DEF Goal
  <2>3. CASE SealManifest(w)
    BY <2>3, SealedInTime
  <2> QED BY <1>3, <1>4, <1>5, <1>6, <1>7, <1>8, <1>9, <2>1, <2>2, <2>3 DEF WorkerStep, Goal
<1>10. CASE RenderEnds(w)
  <2>1. ASSUME NEW lag \in Lag, NEW content \in [FramesOf(proc[w].lease.chunk) -> Sha],
               FinishRender(w, content, lag)
        PROVE  InTime(proc'[w], chunk')
    BY <2>1, RenderedInTime
  <2> QED BY <1>3, <1>10, <2>1 DEF RenderEnds
<1> QED BY <1>9, <1>10

LEMMA TickInTime ==
  ASSUME Acting, TimelyTick, NEW w \in Worker, InTime(proc[w], chunk)
  PROVE  InTime(proc'[w], chunk')
<1> DEFINE p == proc[w]
           q == proc'[w]
<1>1. p \in Process /\ q \in Process /\ SameWork(p, q) /\ WorkerTick
  BY TickKeepsWork DEF Acting, WorkerInv, TimelyTick
<1>2. CASE p.pc \notin Stages
  BY <1>1, <1>2 DEF InTime, SameWork
<1>3. CASE p.pc \in Stages
  <2>1. p.pc \in Work /\ p.age < StepTime /\ Busy(w)
    BY <1>3, PcFacts DEF TimelyTick, Busy
  <2>2. p.lease.chunk \in Chunk /\ chunk[p.lease.chunk] \in ChunkRow
    BY <2>1, BusyFacts DEF Acting
  <2>3. /\ chunk'[p.lease.chunk].token = chunk[p.lease.chunk].token
        /\ chunk'[p.lease.chunk].worker = chunk[p.lease.chunk].worker
        /\ chunk[p.lease.chunk].remaining \in Int /\ chunk'[p.lease.chunk].remaining \in Int
        /\ chunk'[p.lease.chunk].remaining >= chunk[p.lease.chunk].remaining - 1
    <3>1. \/ chunk'[p.lease.chunk] = chunk[p.lease.chunk]
          \/ chunk'[p.lease.chunk] =
                [chunk[p.lease.chunk] EXCEPT !.remaining = chunk[p.lease.chunk].remaining - 1]
      BY <1>1, <2>2 DEF WorkerTick, Tick
    <3> QED BY <2>2, <3>1 DEF ChunkRow
  <2>4. /\ q.age = p.age + 1
        /\ q.sinceBeat = IF p.sinceBeat < HeartbeatTerm + MaxLag
                           THEN p.sinceBeat + 1 ELSE HeartbeatTerm + MaxLag
    <3>1. q = [p EXCEPT !.sinceBeat = Capped(p.sinceBeat, HeartbeatTerm + MaxLag),
                        !.idle = IF p.pc \in {"poll", "claim"} THEN Capped(p.idle, IdleTerm) ELSE p.idle,
                        !.age = Capped(p.age, StepTime)]
      BY <1>1, <2>1 DEF WorkerTick
    <3>2. /\ q.age = Capped(p.age, StepTime)
          /\ q.sinceBeat = Capped(p.sinceBeat, HeartbeatTerm + MaxLag)
      <4> HIDE DEF p, q
      <4> QED BY <1>1, <3>1, ProcessFacts
    <3> QED BY <2>1, <3>2 DEF Capped
  <2> HIDE DEF p, q
  <2>5. Spent(q) = Spent(p) /\ q.lease = p.lease
    BY <1>1 DEF SameWork, Spent
  <2>6. /\ OpenIn(chunk, p.lease)
        /\ chunk[p.lease.chunk].remaining >= LeaseTerm - MaxLag - Spent(p) - p.age
        /\ p.sinceBeat < HeartbeatTerm =>
             chunk[p.lease.chunk].remaining >= LeaseTerm - MaxLag - p.sinceBeat
    BY <1>3 DEF InTime, p
  <2>7. OpenIn(chunk', q.lease)
    BY <2>3, <2>5, <2>6 DEF OpenIn
  <2>8. chunk'[q.lease.chunk].remaining >= LeaseTerm - MaxLag - Spent(q) - q.age
    BY <1>1, <2>3, <2>4, <2>5, <2>6, Numbers
  <2>9. q.sinceBeat < HeartbeatTerm =>
          chunk'[q.lease.chunk].remaining >= LeaseTerm - MaxLag - q.sinceBeat
    BY <1>1, <2>3, <2>4, <2>5, <2>6, Numbers
  <2> QED BY <2>7, <2>8, <2>9 DEF InTime, q
<1> QED BY <1>2, <1>3

LEMMA TimelySteps == [TimelyNext]_workerVars => [WorkerNext]_workerVars
BY DEF TimelyNext, TimelyTick, WorkerNext

LEMMA TimelyStep ==
  EnoughTime /\ Acting /\ TimelyInv /\ [TimelyNext]_workerVars => TimelyInv'
<1> SUFFICES ASSUME EnoughTime, Acting, TimelyInv, [TimelyNext]_workerVars,
                    NEW w \in Worker
             PROVE  InTime(proc'[w], chunk')
  BY DEF TimelyInv
<1>1. InTime(proc[w], chunk) /\ SchedulerInv
  BY DEF TimelyInv, Acting
<1>2. ASSUME proc'[w] = proc[w], \A c \in Chunk : chunk[c].worker = w /\ chunk[c].state \in Active
                                  /\ chunk[c].remaining > 0 => chunk'[c] = chunk[c]
      PROVE  InTime(proc'[w], chunk')
  <2>1. CASE proc[w].pc \notin Stages
    BY <1>2, <2>1 DEF InTime
  <2>2. CASE proc[w].pc \in Stages
    <3>1. chunk'[proc[w].lease.chunk] = chunk[proc[w].lease.chunk]
      BY <1>1, <1>2, <2>2, InTimeHolds
    <3> QED BY <1>1, <1>2, <3>1 DEF InTime, OpenIn
  <2> QED BY <2>1, <2>2
<1>3. CASE WorkerStep(w) \/ RenderEnds(w)
  BY <1>1, <1>3, OwnInTime
<1>4. ASSUME NEW v \in Worker \ {w}, WorkerStep(v) \/ RenderEnds(v)
      PROVE  InTime(proc'[w], chunk')
  <2>1. OwnStep(v)
    BY <1>4 DEF OwnStep
  <2>2. proc'[w] = proc[w]
    BY <1>4, <2>1, OthersStay DEF Acting
  <2> QED BY <1>2, <2>1, <2>2, OthersSpare
<1>5. CASE Operator
  <2>1. proc'[w] = proc[w]
    BY <1>5 DEF Operator
  <2> QED BY <1>1, <1>2, <1>5, <2>1, OperatorSpares
<1>6. CASE TimelyTick
  BY <1>1, <1>6, TickInTime
<1>7. CASE UNCHANGED workerVars
  BY <1>1, <1>7 DEF workerVars, vars
<1> QED BY <1>3, <1>4, <1>5, <1>6, <1>7 DEF TimelyNext

(* How long a lease must be: if it exceeds the staleness of a time stamp, a   *)
(* heartbeat interval and three of the worker's longest steps, a worker that  *)
(* does not die never loses it, whoever sweeps, claims or competes.           *)
THEOREM TimelyWorkersKeepLeases ==
  ASSUME EnoughTime
  PROVE  TimelySpec => []TimelyWorkerKeepsLease
<1>1. WorkerInit => TimelyInv
  <2> SUFFICES ASSUME WorkerInit, NEW w \in Worker PROVE proc[w].pc \notin Stages
    BY DEF TimelyInv, InTime
  <2>1. 0 \in 0 .. MaxRestarts /\ proc[w] = Fresh(0)
    BY WorkerAssumption DEF WorkerInit
  <2> QED BY <2>1, FreshFacts, PcFacts
<1>2. WorkerInit => SchedulerInv /\ LedgerInv
  BY SchedulerInit DEF WorkerInit
<1>3. SchedulerInv /\ LedgerInv /\ WorkerInv /\ TimelyInv /\ [TimelyNext]_workerVars
        => SchedulerInv' /\ LedgerInv' /\ WorkerInv' /\ TimelyInv'
  BY TimelySteps, TimelyStep, ClientSteps, SchedulerNext, WorkersStep DEF Acting
<1>4. SchedulerInv /\ WorkerInv /\ TimelyInv => TimelyWorkerKeepsLease
  <2> SUFFICES ASSUME Acting, TimelyInv, NEW w \in Worker, Busy(w)
               PROVE  Opens(proc[w].lease) /\ chunk[proc[w].lease.chunk].remaining > 0
    BY DEF TimelyWorkerKeepsLease, Acting
  <2> QED BY InTimeHolds, WorkFacts DEF Busy, TimelyInv
<1> QED BY <1>1, <1>2, <1>3, <1>4, WorkersStart, PTL DEF TimelySpec
=============================================================================
