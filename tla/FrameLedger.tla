------------------------------ MODULE FrameLedger ------------------------------
(* The three publication tables of cloud_render/scheduler.py for one job:     *)
(* frame_candidates, frame_publications and publication_conflicts, and what   *)
(* complete_chunk, register_external_publication and resolve_conflict do to   *)
(* them.  Each operation is one BEGIN IMMEDIATE transaction, so one step.     *)
EXTENDS Integers

CONSTANTS
  Frame,        \* frame_start .. frame_end of the job
  Sha,          \* digests a rendered frame may have
  Worker,       \* worker_id of anyone who renders or imports frames
  LocalWorker,  \* those whose worker_kind is LOCAL; the others are CLOUD
  ObjectKey,    \* with the worker, identifies an object: see Row
  PreferLocal,  \* jobs.prefer_local
  NoRow         \* "no row" in frame_publications

ASSUME LedgerAssumption ==
  /\ LocalWorker \subseteq Worker
  /\ PreferLocal \in BOOLEAN
  /\ NoRow \notin [sha : Sha, worker : Worker, key : ObjectKey,
                   status : {"ACCEPTED", "QUARANTINED_CONFLICT"}]
  /\ "PENDING_OPERATOR" \notin Sha

VARIABLES
  cands,      \* cands[f]: rows of frame_candidates for frame f
  pub,        \* pub[f]: the row of frame_publications for f, or NoRow
  conflicts   \* rows of publication_conflicts

ledgerVars == <<cands, pub, conflicts>>

(* The preferred_* columns of a conflict repeat what the publication becomes  *)
(* and are never read; they are left out.                                     *)
(*                                                                            *)
(* UNIQUE(job_id, frame, sha256, object_key).  The object key is the pair     *)
(* worker/key: a worker's attempts have distinct keys (the key contains the   *)
(* lease token), and an imported frame has a key of its importer.             *)
Candidate == [sha : Sha, worker : Worker, key : ObjectKey,
              status : {"CANDIDATE", "DUPLICATE_IDENTICAL", "QUARANTINED"}]
Publication == [sha : Sha, worker : Worker, key : ObjectKey,
                status : {"ACCEPTED", "QUARANTINED_CONFLICT"}]
Conflict == [frame : Frame, existing : Sha, incoming : Sha,
             resolution : {"PENDING_OPERATOR"} \cup Sha]

Row(s, w, k, status) == [sha |-> s, worker |-> w, key |-> k, status |-> status]
SameObject(r1, r2) == r1.sha = r2.sha /\ r1.worker = r2.worker /\ r1.key = r2.key

LedgerInit ==
  /\ cands = [f \in Frame |-> {}]
  /\ pub = [f \in Frame |-> NoRow]
  /\ conflicts = {}

Published(f) == pub[f] # NoRow
Pending(rows, f) == \E r \in rows : r.frame = f /\ r.resolution = "PENDING_OPERATOR"

-----------------------------------------------------------------------------
(* One delivered frame: content s for frame f, from worker w, stored under k. *)

Identical(f, s) == Published(f) /\ pub[f].sha = s
Differs(f, s) == Published(f) /\ pub[f].sha # s

(* Mutant: the kind of the publishing worker is not looked at. *)
MutantPreferAlways(f, w) == PreferLocal

PreferIncoming(f, w) == PreferLocal /\ w \in LocalWorker /\ pub[f].worker \notin LocalWorker

(* INSERT OR IGNORE *)
InsertCandidate(rows, row) ==
  IF \E r \in rows : SameObject(r, row) THEN rows ELSE rows \cup {row}

(* Mutants: the status of the other table; duplicates are left alone. *)
MutantQuarantinedWrongStatus(rows) ==
  {[r EXCEPT !.status = "QUARANTINED_CONFLICT"] : r \in rows}
MutantQuarantinedCandidatesOnly(rows) ==
  {IF r.status = "CANDIDATE" THEN [r EXCEPT !.status = "QUARANTINED"] ELSE r : r \in rows}

Quarantined(rows) == {[r EXCEPT !.status = "QUARANTINED"] : r \in rows}

MarkedDuplicate(rows, row) ==
  {IF SameObject(r, row) THEN [r EXCEPT !.status = "DUPLICATE_IDENTICAL"] ELSE r : r \in rows}

CandidatesAfter(f, s, w, k, markDuplicate) ==
  LET row == Row(s, w, k, "CANDIDATE")
      rows == InsertCandidate(cands[f], row)
  IN  CASE Differs(f, s) -> Quarantined(rows)
        [] Identical(f, s) /\ markDuplicate -> MarkedDuplicate(rows, row)
        [] OTHER -> rows

(* Mutant: INSERT OR REPLACE of whatever arrives. *)
MutantPublicationUpsert(f, s, w, k) == Row(s, w, k, "ACCEPTED")

PublicationAfter(f, s, w, k) ==
  CASE ~Published(f) -> Row(s, w, k, "ACCEPTED")
    [] Identical(f, s) -> pub[f]
    [] OTHER -> IF PreferIncoming(f, w)
                  THEN Row(s, w, k, "QUARANTINED_CONFLICT")
                  ELSE [pub[f] EXCEPT !.status = "QUARANTINED_CONFLICT"]

(* Mutant: the incoming digest is bound to both columns. *)
MutantConflictRowSameDigest(f, s) ==
  [frame |-> f, existing |-> s, incoming |-> s, resolution |-> "PENDING_OPERATOR"]

ConflictRow(f, s) ==
  [frame |-> f, existing |-> pub[f].sha, incoming |-> s, resolution |-> "PENDING_OPERATOR"]

(* Deliver content[f] for every frame f of its domain.  complete_chunk marks  *)
(* the candidate of an identical frame, register_external_publication returns *)
(* without marking it.                                                        *)
Deliver(content, w, k, markDuplicate) ==
  LET clashes == {f \in DOMAIN content : Differs(f, content[f])}
  IN  /\ cands' = [f \in Frame |->
                     IF f \in DOMAIN content
                       THEN CandidatesAfter(f, content[f], w, k, markDuplicate)
                       ELSE cands[f]]
      /\ pub' = [f \in Frame |->
                   IF f \in DOMAIN content
                     THEN PublicationAfter(f, content[f], w, k)
                     ELSE pub[f]]
      /\ conflicts' = conflicts \cup {ConflictRow(f, content[f]) : f \in clashes}

-----------------------------------------------------------------------------
(* resolve_conflict: the operator names a digest; the row published for it is *)
(* a LOCAL candidate if there is one (ORDER BY source_kind, created_at: the   *)
(* order of arrival among equals is left open).  Every pending conflict of    *)
(* the frame is closed; without one the transaction rolls back.               *)
Eligible(f, s) ==
  LET matching == {r \in cands[f] : r.sha = s}
      local == {r \in matching : r.worker \in LocalWorker}
  IN  IF local # {} THEN local ELSE matching

(* Mutant: only the conflicts that name the chosen digest are closed. *)
MutantClosedChosenOnly(rows, f, s) ==
  {IF r.frame = f /\ r.resolution = "PENDING_OPERATOR" /\ s \in {r.existing, r.incoming}
     THEN [r EXCEPT !.resolution = s] ELSE r : r \in rows}

Closed(rows, f, s) ==
  {IF r.frame = f /\ r.resolution = "PENDING_OPERATOR"
     THEN [r EXCEPT !.resolution = s] ELSE r : r \in rows}

Resolve(f, s) ==
  /\ Pending(conflicts, f)
  /\ \E r \in Eligible(f, s) :
       pub' = [pub EXCEPT ![f] = Row(r.sha, r.worker, r.key, "ACCEPTED")]
  /\ conflicts' = Closed(conflicts, f, s)
  /\ UNCHANGED cands

LedgerNext ==
  \/ \E S \in SUBSET Frame, w \in Worker, k \in ObjectKey, mark \in BOOLEAN :
       \E content \in [S -> Sha] : Deliver(content, w, k, mark)
  \/ \E f \in Frame, s \in Sha : Resolve(f, s)

LedgerSpec == LedgerInit /\ [][LedgerNext]_ledgerVars

-----------------------------------------------------------------------------
(* Properties. *)

(* Rows have the columns and statuses the code writes. *)
LedgerTypeOK ==
  /\ cands \in [Frame -> SUBSET Candidate]
  /\ pub \in [Frame -> Publication \cup {NoRow}]
  /\ conflicts \subseteq Conflict

(* A frame is marked QUARANTINED_CONFLICT exactly while an operator decision  *)
(* on it is outstanding: status() counts pending conflicts and reports        *)
(* published frames, and the two tables must not disagree.                    *)
ConflictTracked ==
  \A f \in Frame :
    (Published(f) /\ pub[f].status = "QUARANTINED_CONFLICT") <=> Pending(conflicts, f)

(* "Differing valid frames are never silently overwritten": every delivered   *)
(* content that is not the published one appears in a conflict row of its     *)
(* frame, open or resolved, and what is published was delivered by somebody.  *)
NothingSilentlyDropped ==
  \A f \in Frame :
    /\ \A r \in cands[f] :
         /\ Published(f)
         /\ \/ r.sha = pub[f].sha
            \/ \E row \in conflicts : row.frame = f /\ r.sha \in {row.existing, row.incoming}
    /\ Published(f) => \E r \in cands[f] : SameObject(r, pub[f])

(* While a frame is disputed, every delivered rival of the provisional        *)
(* publication is QUARANTINED, also one that arrived as a duplicate of an     *)
(* earlier publication.                                                       *)
RivalsQuarantined ==
  \A f \in Frame : Pending(conflicts, f) =>
    \A r \in cands[f] : r.sha # pub[f].sha => r.status = "QUARANTINED"

(* "the local candidate is the provisional preference": with prefer_local, as *)
(* long as no operator has decided on a frame and some LOCAL worker delivered *)
(* it, the published content is one a LOCAL worker delivered.                 *)
LocalPreferred ==
  \A f \in Frame :
    /\ PreferLocal
    /\ \A row \in conflicts : row.frame = f => row.resolution = "PENDING_OPERATOR"
    /\ \E r \in cands[f] : r.worker \in LocalWorker
    => \E r \in cands[f] : r.worker \in LocalWorker /\ r.sha = pub[f].sha

(* The tables implement the publication promise. *)
SlotOf(f) ==
  IF ~Published(f) THEN [status |-> "empty"]
  ELSE IF pub[f].status = "ACCEPTED"
         THEN [status |-> "accepted", value |-> pub[f].sha]
         ELSE [status |-> "disputed", value |-> pub[f].sha]

Promise == INSTANCE FramePublication
  WITH slot <- [f \in Frame |-> SlotOf(f)],
       offered <- [f \in Frame |-> {r.sha : r \in cands[f]}]

(* Every step of the tables is a step of FramePublication: a published value  *)
(* changes only by opening a dispute or by an operator's choice.              *)
PublicationPromise == Promise!Spec
=============================================================================
