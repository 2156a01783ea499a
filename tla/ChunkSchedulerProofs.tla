-------------------------- MODULE ChunkSchedulerProofs --------------------------
(* Proofs about the chunk scheduler, for every job, every number of workers,  *)
(* frames and attempts, every lease term and every staleness of the callers'  *)
(* time stamps.  First the publication tables on their own (FrameLedger): the *)
(* safety invariants and the promise they keep.  Then chunks and leases, and  *)
(* why the scheduler is one client of these tables.                           *)
EXTENDS ChunkScheduler, TLAPS

-----------------------------------------------------------------------------
(* The publication tables. *)

(* The provisional publication of a disputed frame is named by one of the     *)
(* frame's conflict rows: what makes NothingSilentlyDropped inductive, since  *)
(* an operator's decision may drop just that value from frame_publications.   *)
DisputeRecorded ==
  \A f \in Frame : (Published(f) /\ pub[f].status = "QUARANTINED_CONFLICT") =>
    \E row \in conflicts : row.frame = f /\ pub[f].sha \in {row.existing, row.incoming}

LedgerInv ==
  /\ LedgerTypeOK
  /\ ConflictTracked
  /\ DisputeRecorded
  /\ NothingSilentlyDropped
  /\ RivalsQuarantined
  /\ LocalPreferred

(* q is the candidate row of the delivery (s, w, k), whatever its status. *)
Delivered(q, s, w, k) == q.sha = s /\ q.worker = w /\ q.key = k

-----------------------------------------------------------------------------
(* What one delivery does to one frame. *)

LEMMA InsertFacts ==
  ASSUME NEW rows \in SUBSET Candidate, NEW s \in Sha, NEW w \in Worker, NEW k \in ObjectKey
  PROVE  LET row == Row(s, w, k, "CANDIDATE")
             after == InsertCandidate(rows, row)
         IN  /\ after \subseteq Candidate
             /\ rows \subseteq after
             /\ \E q \in after : Delivered(q, s, w, k)
             /\ \A q \in after : q \in rows \/ Delivered(q, s, w, k)
<1> DEFINE row == Row(s, w, k, "CANDIDATE")
<1>1. /\ row \in Candidate
      /\ Delivered(row, s, w, k)
      /\ \A r : SameObject(r, row) <=> Delivered(r, s, w, k)
  BY DEF Candidate, Row, Delivered, SameObject
<1> HIDE DEF row
<1>2. CASE \E r \in rows : SameObject(r, row)
  BY <1>1, <1>2 DEF InsertCandidate, row
<1>3. CASE ~ \E r \in rows : SameObject(r, row)
  BY <1>1, <1>3 DEF InsertCandidate, row
<1> QED BY <1>2, <1>3

LEMMA QuarantinedFacts ==
  ASSUME NEW rows \in SUBSET Candidate
  PROVE  /\ Quarantined(rows) \subseteq Candidate
         /\ \A r \in rows : \E q \in Quarantined(rows) : SameObject(q, r)
         /\ \A q \in Quarantined(rows) : q.status = "QUARANTINED" /\ \E r \in rows : SameObject(q, r)
<1> DEFINE turned(r) == [r EXCEPT !.status = "QUARANTINED"]
<1>1. \A r \in rows : /\ turned(r) \in Candidate
                      /\ turned(r).status = "QUARANTINED"
                      /\ SameObject(turned(r), r)
  BY DEF Candidate, SameObject
<1>2. Quarantined(rows) = {turned(r) : r \in rows}
  BY DEF Quarantined
<1> HIDE DEF turned
<1> QED BY <1>1, <1>2

LEMMA MarkedFacts ==
  ASSUME NEW rows \in SUBSET Candidate, NEW s \in Sha, NEW w \in Worker, NEW k \in ObjectKey
  PROVE  LET after == MarkedDuplicate(rows, Row(s, w, k, "CANDIDATE"))
         IN  /\ after \subseteq Candidate
             /\ \A r \in rows : \E q \in after : SameObject(q, r)
             /\ \A q \in after : q \in rows \/ Delivered(q, s, w, k)
             /\ \A q \in after : \E r \in rows : SameObject(q, r)
<1> DEFINE row == Row(s, w, k, "CANDIDATE")
           marked(r) == IF SameObject(r, row) THEN [r EXCEPT !.status = "DUPLICATE_IDENTICAL"] ELSE r
<1>1. \A r \in rows : /\ marked(r) \in Candidate
                      /\ SameObject(marked(r), r)
                      /\ marked(r) = r \/ Delivered(marked(r), s, w, k)
  <2> TAKE r \in rows
  <2>1. CASE SameObject(r, row)
    BY <2>1 DEF Candidate, SameObject, Row, Delivered
  <2>2. CASE ~SameObject(r, row)
    BY <2>2 DEF SameObject
  <2> QED BY <2>1, <2>2
<1>2. MarkedDuplicate(rows, row) = {marked(r) : r \in rows}
  BY DEF MarkedDuplicate
<1> HIDE DEF marked
<1> QED BY <1>1, <1>2

LEMMA CandidatesAfterFacts ==
  ASSUME LedgerTypeOK,
         NEW f \in Frame, NEW s \in Sha, NEW w \in Worker, NEW k \in ObjectKey,
         NEW mark \in BOOLEAN
  PROVE  LET after == CandidatesAfter(f, s, w, k, mark)
         IN  /\ after \subseteq Candidate
             /\ \A r \in cands[f] : \E q \in after : SameObject(q, r)
             /\ \E q \in after : Delivered(q, s, w, k)
             /\ \A q \in after : (\E r \in cands[f] : SameObject(q, r)) \/ Delivered(q, s, w, k)
             /\ Differs(f, s) => \A q \in after : q.status = "QUARANTINED"
             /\ ~Differs(f, s) => \A q \in after : q \in cands[f] \/ Delivered(q, s, w, k)
<1> DEFINE row == Row(s, w, k, "CANDIDATE")
           rows == InsertCandidate(cands[f], row)
<1>1. cands[f] \in SUBSET Candidate
  BY DEF LedgerTypeOK
<1>2. /\ rows \in SUBSET Candidate
      /\ cands[f] \subseteq rows
      /\ \E q \in rows : Delivered(q, s, w, k)
      /\ \A q \in rows : q \in cands[f] \/ Delivered(q, s, w, k)
  BY <1>1, InsertFacts
<1> HIDE DEF rows
<1>3. \A r : SameObject(r, r)
  BY DEF SameObject
<1>4. \A q, r : SameObject(q, r) /\ Delivered(r, s, w, k) => Delivered(q, s, w, k)
  BY DEF SameObject, Delivered
<1>5. CASE Differs(f, s)
  <2>0. ~Identical(f, s)
    BY <1>5 DEF Identical, Differs
  <2>1. CandidatesAfter(f, s, w, k, mark) = Quarantined(rows)
    BY <1>5, <2>0 DEF CandidatesAfter, rows
  <2> QED BY <2>1, <1>2, <1>4, <1>5, QuarantinedFacts
<1>6. CASE Identical(f, s) /\ mark
  <2>1. ~Differs(f, s)
    BY <1>6 DEF Identical, Differs
  <2>2. CandidatesAfter(f, s, w, k, mark) = MarkedDuplicate(rows, row)
    BY <1>6, <2>1 DEF CandidatesAfter, rows
  <2>3. \A q \in MarkedDuplicate(rows, row) : q \in cands[f] \/ Delivered(q, s, w, k)
    BY <1>2, MarkedFacts
  <2> QED BY <2>1, <2>2, <2>3, <1>2, <1>3, <1>4, MarkedFacts
<1>7. CASE ~Differs(f, s) /\ ~(Identical(f, s) /\ mark)
  <2>1. CandidatesAfter(f, s, w, k, mark) = rows
    BY <1>7 DEF CandidatesAfter, rows
  <2> QED BY <2>1, <1>2, <1>3, <1>7
<1> QED BY <1>5, <1>6, <1>7

(* How a delivery of content (from w, under k) changes the candidates, the    *)
(* publication and the conflict rows of one of its frames, and that it leaves *)
(* the other frames alone.                                                    *)
LEMMA DeliverFacts ==
  ASSUME LedgerTypeOK,
         NEW S \in SUBSET Frame, NEW content \in [S -> Sha],
         NEW w \in Worker, NEW k \in ObjectKey, NEW mark \in BOOLEAN,
         Deliver(content, w, k, mark)
  PROVE  /\ \A f \in S : /\ cands'[f] = CandidatesAfter(f, content[f], w, k, mark)
                         /\ pub'[f] = PublicationAfter(f, content[f], w, k)
         /\ \A f \in Frame \ S : cands'[f] = cands[f] /\ pub'[f] = pub[f]
         /\ \A f \in Frame : \A row : row.frame = f =>
              (row \in conflicts' <=>
                 \/ row \in conflicts
                 \/ f \in S /\ Differs(f, content[f]) /\ row = ConflictRow(f, content[f]))
<1>1. DOMAIN content = S
  OBVIOUS
<1>2. \A f : ConflictRow(f, content[f]).frame = f
  BY DEF ConflictRow
<1> QED BY <1>1, <1>2 DEF Deliver

LEMMA PublicationAfterFacts ==
  ASSUME LedgerTypeOK,
         NEW f \in Frame, NEW s \in Sha, NEW w \in Worker, NEW k \in ObjectKey
  PROVE  LET after == PublicationAfter(f, s, w, k)
         IN  /\ after \in Publication
             /\ ~Published(f) => after.status = "ACCEPTED" /\ Delivered(after, s, w, k)
             /\ Identical(f, s) => after = pub[f] /\ after.sha = s
             /\ Differs(f, s) =>
                  /\ after.status = "QUARANTINED_CONFLICT"
                  /\ IF PreferIncoming(f, w) THEN Delivered(after, s, w, k)
                                             ELSE SameObject(after, pub[f])
<1>1. CASE ~Published(f)
  BY <1>1 DEF PublicationAfter, Identical, Differs, Publication, Row, Delivered
<1>2. CASE Identical(f, s)
  BY <1>2 DEF PublicationAfter, Identical, Differs, LedgerTypeOK, Published
<1>3. CASE Differs(f, s)
  <2>1. Published(f) /\ ~Identical(f, s) /\ pub[f] \in Publication
    BY <1>3 DEF Identical, Differs, LedgerTypeOK, Published
  <2>2. PublicationAfter(f, s, w, k) =
          IF PreferIncoming(f, w) THEN Row(s, w, k, "QUARANTINED_CONFLICT")
                                  ELSE [pub[f] EXCEPT !.status = "QUARANTINED_CONFLICT"]
    BY <2>1 DEF PublicationAfter
  <2>3. CASE PreferIncoming(f, w)
    BY <2>1, <2>2, <2>3 DEF Publication, Row, Delivered
  <2>4. CASE ~PreferIncoming(f, w)
    BY <2>1, <2>2, <2>4 DEF Publication, SameObject
  <2> QED BY <2>1, <2>3, <2>4
<1> QED BY <1>1, <1>2, <1>3 DEF Identical, Differs

LEMMA ResolveFacts ==
  ASSUME LedgerTypeOK, NEW f \in Frame, NEW s \in Sha, Resolve(f, s)
  PROVE  /\ cands' = cands
         /\ pub'[f] \in Publication
         /\ pub'[f].status = "ACCEPTED" /\ pub'[f].sha = s
         /\ \E r \in cands[f] : SameObject(r, pub'[f])
         /\ \A g \in Frame \ {f} : pub'[g] = pub[g]
         /\ \A row \in conflicts : \E next \in conflicts' :
              /\ next.frame = row.frame
              /\ next.existing = row.existing /\ next.incoming = row.incoming
         /\ \A row \in conflicts' : row \in conflicts \/ (row.frame = f /\ row.resolution = s)
         /\ \A row \in conflicts : row.frame # f => row \in conflicts'
         /\ conflicts' \subseteq Conflict
         /\ \E row \in conflicts' : row.frame = f /\ row.resolution = s
         /\ ~Pending(conflicts', f)
<1>1. PICK r \in Eligible(f, s) : pub' = [pub EXCEPT ![f] = Row(r.sha, r.worker, r.key, "ACCEPTED")]
  BY DEF Resolve
<1>2. r \in cands[f] /\ r.sha = s /\ r \in Candidate
  BY DEF Eligible, LedgerTypeOK
<1>3. /\ Row(r.sha, r.worker, r.key, "ACCEPTED") \in Publication
      /\ SameObject(r, Row(r.sha, r.worker, r.key, "ACCEPTED"))
  BY <1>2 DEF Row, Publication, Candidate, SameObject
<1>4. /\ pub'[f] = Row(r.sha, r.worker, r.key, "ACCEPTED")
      /\ \A g \in Frame \ {f} : pub'[g] = pub[g]
  BY <1>1 DEF LedgerTypeOK
<1> DEFINE open(row) == row.frame = f /\ row.resolution = "PENDING_OPERATOR"
           closed(row) == IF open(row) THEN [row EXCEPT !.resolution = s] ELSE row
<1>5. \A row \in conflicts :
        /\ closed(row) \in Conflict
        /\ closed(row).frame = row.frame
        /\ closed(row).existing = row.existing /\ closed(row).incoming = row.incoming
        /\ closed(row) = row \/ (closed(row).frame = f /\ closed(row).resolution = s)
        /\ open(row) => closed(row).frame = f /\ closed(row).resolution = s
        /\ row.frame # f => closed(row) = row
        /\ ~open(closed(row))
  <2> TAKE row \in conflicts
  <2>1. row \in Conflict /\ s # "PENDING_OPERATOR"
    BY LedgerAssumption DEF LedgerTypeOK
  <2>2. CASE open(row)
    BY <2>1, <2>2 DEF Conflict
  <2>3. CASE ~open(row)
    BY <2>1, <2>3
  <2> QED BY <2>2, <2>3
<1>6. conflicts' = {closed(row) : row \in conflicts}
  BY DEF Resolve, Closed
<1>7. \E row \in conflicts : open(row)
  BY DEF Resolve, Pending
<1>8. cands' = cands
  BY DEF Resolve
<1>9. ~Pending(conflicts', f)
  BY <1>5, <1>6 DEF Pending
<1> HIDE DEF closed
<1>10. \E row \in conflicts' : row.frame = f /\ row.resolution = s
  BY <1>5, <1>6, <1>7
<1>11. pub'[f].status = "ACCEPTED" /\ pub'[f].sha = s
  BY <1>2, <1>4 DEF Row
<1> QED BY <1>2, <1>3, <1>4, <1>5, <1>6, <1>8, <1>9, <1>10, <1>11

-----------------------------------------------------------------------------
(* The invariant. *)

LEMMA InitEstablishes == LedgerInit => LedgerInv
<1> SUFFICES ASSUME LedgerInit PROVE LedgerInv
  OBVIOUS
<1>1. /\ \A f \in Frame : cands[f] = {} /\ pub[f] = NoRow
      /\ conflicts = {}
  BY DEF LedgerInit
<1>2. LedgerTypeOK
  BY DEF LedgerInit, LedgerTypeOK
<1>3. \A f \in Frame : ~Published(f) /\ ~Pending(conflicts, f)
  BY <1>1 DEF Published, Pending
<1> QED
  BY <1>1, <1>2, <1>3 DEF LedgerInv, ConflictTracked, DisputeRecorded, NothingSilentlyDropped,
                          RivalsQuarantined, LocalPreferred

LEMMA DeliverPreserves ==
  ASSUME LedgerInv,
         NEW S \in SUBSET Frame, NEW content \in [S -> Sha],
         NEW w \in Worker, NEW k \in ObjectKey, NEW mark \in BOOLEAN,
         Deliver(content, w, k, mark)
  PROVE  LedgerInv'
<1> USE DEF LedgerInv
<1>1. \A f \in S : content[f] \in Sha /\ f \in Frame
  OBVIOUS
<1>2. LedgerTypeOK'
  <2>1. cands' \in [Frame -> SUBSET Candidate]
    <3>1. cands' = [f \in Frame |-> cands'[f]]
      BY DEF Deliver
    <3>2. \A f \in S : cands'[f] \in SUBSET Candidate
      <4> TAKE f \in S
      <4>1. cands'[f] = CandidatesAfter(f, content[f], w, k, mark)
        BY DeliverFacts
      <4>2. CandidatesAfter(f, content[f], w, k, mark) \subseteq Candidate
        BY <1>1, CandidatesAfterFacts
      <4> QED BY <4>1, <4>2
    <3>3. \A f \in Frame \ S : cands'[f] \in SUBSET Candidate
      BY DeliverFacts DEF LedgerTypeOK
    <3> QED BY <3>1, <3>2, <3>3
  <2>2. pub' \in [Frame -> Publication \cup {NoRow}]
    <3>1. pub' = [f \in Frame |-> pub'[f]]
      BY DEF Deliver
    <3>2. \A f \in S : pub'[f] \in Publication
      <4> TAKE f \in S
      <4>1. pub'[f] = PublicationAfter(f, content[f], w, k)
        BY DeliverFacts
      <4>2. PublicationAfter(f, content[f], w, k) \in Publication
        BY <1>1, PublicationAfterFacts
      <4> QED BY <4>1, <4>2
    <3>3. \A f \in Frame \ S : pub'[f] \in Publication \cup {NoRow}
      BY DeliverFacts DEF LedgerTypeOK
    <3> QED BY <3>1, <3>2, <3>3
  <2>3. conflicts' \subseteq Conflict
    <3>1. \A f \in S : Differs(f, content[f]) => ConflictRow(f, content[f]) \in Conflict
      BY <1>1 DEF LedgerTypeOK, Differs, Published, Publication, ConflictRow, Conflict
    <3> QED BY <3>1 DEF Deliver, LedgerTypeOK
  <2> QED BY <2>1, <2>2, <2>3 DEF LedgerTypeOK
(* The named parts of the invariant, frame by frame. *)
<1>3. ASSUME NEW f \in Frame
      PROVE  /\ (Published(f)' /\ pub'[f].status = "QUARANTINED_CONFLICT") <=> Pending(conflicts', f)
             /\ (Published(f)' /\ pub'[f].status = "QUARANTINED_CONFLICT") =>
                  \E row \in conflicts' : row.frame = f /\ pub'[f].sha \in {row.existing, row.incoming}
             /\ \A r \in cands'[f] :
                  /\ Published(f)'
                  /\ \/ r.sha = pub'[f].sha
                     \/ \E row \in conflicts' : row.frame = f /\ r.sha \in {row.existing, row.incoming}
             /\ Published(f)' => \E r \in cands'[f] : SameObject(r, pub'[f])
             /\ Pending(conflicts', f) =>
                  \A r \in cands'[f] : r.sha # pub'[f].sha => r.status = "QUARANTINED"
             /\ (/\ PreferLocal
                 /\ \A row \in conflicts' : row.frame = f => row.resolution = "PENDING_OPERATOR"
                 /\ \E r \in cands'[f] : r.worker \in LocalWorker)
                => \E r \in cands'[f] : r.worker \in LocalWorker /\ r.sha = pub'[f].sha
  <2>1. CASE f \notin S
    <3>1. cands'[f] = cands[f] /\ pub'[f] = pub[f]
      BY <2>1, DeliverFacts
    <3>2. \A row : row.frame = f => (row \in conflicts' <=> row \in conflicts)
      BY <2>1, DeliverFacts
    <3> QED
      BY <3>1, <3>2 DEF ConflictTracked, DisputeRecorded, NothingSilentlyDropped,
         RivalsQuarantined, LocalPreferred, Published, Pending
  <2>2. CASE f \in S /\ ~Published(f)
    <3> DEFINE s == content[f]
    <3>1. /\ pub'[f].status = "ACCEPTED" /\ Delivered(pub'[f], s, w, k)
          /\ pub'[f] \in Publication
      BY <2>2, <1>1, DeliverFacts, PublicationAfterFacts
    <3>2. cands[f] = {} /\ ~Differs(f, s)
      BY <2>2 DEF NothingSilentlyDropped, Differs
    <3>3. /\ \E q \in cands'[f] : Delivered(q, s, w, k)
          /\ \A q \in cands'[f] : Delivered(q, s, w, k)
      BY <2>2, <3>2, <1>1, DeliverFacts, CandidatesAfterFacts
    <3>4. \A row : row.frame = f => (row \in conflicts' <=> row \in conflicts)
      BY <3>2, DeliverFacts
    <3>5. ~Pending(conflicts', f)
      BY <3>4, <2>2 DEF ConflictTracked, Pending
    <3>6. Published(f)'
      BY <3>1, LedgerAssumption DEF Published, Publication
    <3> QED BY <3>1, <3>3, <3>5, <3>6 DEF Delivered, SameObject
  <2>3. CASE f \in S /\ Identical(f, content[f])
    <3> DEFINE s == content[f]
    <3>1. pub'[f] = pub[f] /\ pub[f].sha = s /\ Published(f) /\ Published(f)' /\ ~Differs(f, s)
      BY <2>3, <1>1, DeliverFacts, PublicationAfterFacts DEF Identical, Published, Differs
    <3>2. \A row : row.frame = f => (row \in conflicts' <=> row \in conflicts)
      BY <3>1, DeliverFacts
    <3>3. /\ \A r \in cands[f] : \E q \in cands'[f] : SameObject(q, r)
          /\ \E q \in cands'[f] : Delivered(q, s, w, k)
          /\ \A q \in cands'[f] : q \in cands[f] \/ Delivered(q, s, w, k)
          /\ \A q \in cands'[f] : (\E r \in cands[f] : SameObject(q, r)) \/ Delivered(q, s, w, k)
      BY <2>3, <3>1, <1>1, DeliverFacts, CandidatesAfterFacts
    <3>4. Pending(conflicts', f) <=> Pending(conflicts, f)
      BY <3>2 DEF Pending
    <3>5. /\ (Published(f)' /\ pub'[f].status = "QUARANTINED_CONFLICT") <=> Pending(conflicts', f)
          /\ (Published(f)' /\ pub'[f].status = "QUARANTINED_CONFLICT") =>
               \E row \in conflicts' : row.frame = f /\ pub'[f].sha \in {row.existing, row.incoming}
      BY <3>1, <3>2, <3>4 DEF ConflictTracked, DisputeRecorded
    <3>6. /\ \A r \in cands'[f] :
               \/ r.sha = pub'[f].sha
               \/ \E row \in conflicts' : row.frame = f /\ r.sha \in {row.existing, row.incoming}
          /\ \E r \in cands'[f] : SameObject(r, pub'[f])
      BY <3>1, <3>2, <3>3 DEF NothingSilentlyDropped, Delivered, SameObject
    <3>7. Pending(conflicts', f) =>
            \A r \in cands'[f] : r.sha # pub'[f].sha => r.status = "QUARANTINED"
      BY <3>1, <3>3, <3>4 DEF RivalsQuarantined, Delivered
    <3>8. ASSUME PreferLocal,
                 \A row \in conflicts' : row.frame = f => row.resolution = "PENDING_OPERATOR",
                 NEW q \in cands'[f], q.worker \in LocalWorker
          PROVE  \E r \in cands'[f] : r.worker \in LocalWorker /\ r.sha = pub'[f].sha
      <4>1. CASE Delivered(q, s, w, k)
        BY <3>1, <3>8, <4>1 DEF Delivered
      <4>2. ASSUME NEW r \in cands[f], SameObject(q, r)
            PROVE  \E x \in cands'[f] : x.worker \in LocalWorker /\ x.sha = pub'[f].sha
        <5>1. r.worker \in LocalWorker
          BY <3>8, <4>2 DEF SameObject
        <5>2. PICK x \in cands[f] : x.worker \in LocalWorker /\ x.sha = pub[f].sha
          BY <3>2, <3>8, <5>1 DEF LocalPreferred
        <5> QED BY <5>2, <3>1, <3>3 DEF SameObject
      <4> QED BY <3>3, <4>1, <4>2
    <3> QED BY <3>1, <3>5, <3>6, <3>7, <3>8
  <2>4. CASE f \in S /\ Differs(f, content[f])
    <3> DEFINE s == content[f]
               new == ConflictRow(f, s)
    <3>1. /\ pub'[f] \in Publication /\ pub'[f].status = "QUARANTINED_CONFLICT"
          /\ IF PreferIncoming(f, w) THEN Delivered(pub'[f], s, w, k) ELSE SameObject(pub'[f], pub[f])
          /\ Published(f) /\ Published(f)'
      BY <2>4, <1>1, DeliverFacts, PublicationAfterFacts, LedgerAssumption
         DEF Differs, Published, Publication
    <3>2. /\ new.frame = f /\ new.existing = pub[f].sha /\ new.incoming = s
          /\ new.resolution = "PENDING_OPERATOR"
      BY DEF ConflictRow
    <3>3. /\ new \in conflicts'
          /\ \A row : row.frame = f => (row \in conflicts' <=> row \in conflicts \/ row = new)
      BY <2>4, <3>2, DeliverFacts
    <3>4. /\ \A r \in cands[f] : \E q \in cands'[f] : SameObject(q, r)
          /\ \E q \in cands'[f] : Delivered(q, s, w, k)
          /\ \A q \in cands'[f] : q.status = "QUARANTINED"
          /\ \A q \in cands'[f] : (\E r \in cands[f] : SameObject(q, r)) \/ Delivered(q, s, w, k)
      BY <2>4, <1>1, DeliverFacts, CandidatesAfterFacts
    <3> HIDE DEF new
    <3>5. Pending(conflicts', f)
      BY <3>2, <3>3 DEF Pending
    <3>6. \E row \in conflicts' : row.frame = f /\ pub'[f].sha \in {row.existing, row.incoming}
      BY <3>1, <3>2, <3>3 DEF Delivered, SameObject
    <3>7. /\ \A r \in cands'[f] :
               \E row \in conflicts' : row.frame = f /\ r.sha \in {row.existing, row.incoming}
          /\ \E r \in cands'[f] : SameObject(r, pub'[f])
      BY <3>1, <3>2, <3>3, <3>4 DEF NothingSilentlyDropped, Delivered, SameObject
    <3>8. ASSUME PreferLocal,
                 \A row \in conflicts' : row.frame = f => row.resolution = "PENDING_OPERATOR",
                 \E r \in cands'[f] : r.worker \in LocalWorker
          PROVE  \E r \in cands'[f] : r.worker \in LocalWorker /\ r.sha = pub'[f].sha
      <4>1. CASE PreferIncoming(f, w)
        BY <3>1, <3>4, <4>1 DEF PreferIncoming, Delivered
      <4>2. CASE ~PreferIncoming(f, w)
        <5>1. pub'[f].sha = pub[f].sha
          BY <3>1, <4>2 DEF SameObject
        <5>2. \E r \in cands[f] : r.worker \in LocalWorker /\ r.sha = pub[f].sha
          <6>1. CASE pub[f].worker \in LocalWorker
            BY <3>1, <6>1 DEF NothingSilentlyDropped, SameObject
          <6>2. CASE w \notin LocalWorker
            <7>1. \E r \in cands[f] : r.worker \in LocalWorker
              BY <3>4, <3>8, <6>2 DEF SameObject, Delivered
            <7>2. \A row \in conflicts : row.frame = f => row.resolution = "PENDING_OPERATOR"
              BY <3>3, <3>8
            <7> QED BY <7>1, <7>2, <3>8 DEF LocalPreferred
          <6> QED BY <6>1, <6>2, <4>2, <3>8 DEF PreferIncoming
        <5> QED BY <5>1, <5>2, <3>4 DEF SameObject
      <4> QED BY <4>1, <4>2
    <3> QED BY <3>1, <3>4, <3>5, <3>6, <3>7, <3>8
  <2> QED BY <2>1, <2>2, <2>3, <2>4 DEF Identical, Differs
<1>4. ConflictTracked'
  BY <1>3 DEF ConflictTracked
<1>5. DisputeRecorded'
  BY <1>3 DEF DisputeRecorded
<1>6. NothingSilentlyDropped'
  BY <1>3 DEF NothingSilentlyDropped
<1>7. RivalsQuarantined'
  BY <1>3 DEF RivalsQuarantined
<1>8. LocalPreferred'
  BY <1>3 DEF LocalPreferred
<1> QED BY <1>2, <1>4, <1>5, <1>6, <1>7, <1>8

LEMMA ResolvePreserves ==
  ASSUME LedgerInv, NEW f \in Frame, NEW s \in Sha, Resolve(f, s)
  PROVE  LedgerInv'
<1> USE DEF LedgerInv
<1>1. LedgerTypeOK'
  <2>1. pub' = [g \in Frame |-> pub'[g]]
    BY DEF Resolve, LedgerTypeOK
  <2>2. \A g \in Frame : pub'[g] \in Publication \cup {NoRow}
    <3>1. pub'[f] \in Publication /\ \A g \in Frame \ {f} : pub'[g] = pub[g]
      BY ResolveFacts
    <3> QED BY <3>1 DEF LedgerTypeOK
  <2>3. cands' = cands /\ conflicts' \subseteq Conflict
    BY ResolveFacts
  <2> QED BY <2>1, <2>2, <2>3 DEF LedgerTypeOK
<1>2. cands' = cands
  BY ResolveFacts
<1>3. /\ \A row \in conflicts : \E next \in conflicts' :
           next.frame = row.frame /\ next.existing = row.existing /\ next.incoming = row.incoming
      /\ \A row : row.frame # f => (row \in conflicts' <=> row \in conflicts)
  <2>1. /\ \A row \in conflicts : \E next \in conflicts' :
             next.frame = row.frame /\ next.existing = row.existing /\ next.incoming = row.incoming
        /\ \A row \in conflicts' : row \in conflicts \/ (row.frame = f /\ row.resolution = s)
        /\ \A row \in conflicts : row.frame # f => row \in conflicts'
    BY ResolveFacts
  <2> QED BY <2>1
(* The frame the operator decided on. *)
<1>4. /\ pub'[f] \in Publication /\ pub'[f].status = "ACCEPTED" /\ pub'[f].sha = s
      /\ Published(f)'
      /\ \E r \in cands[f] : SameObject(r, pub'[f])
      /\ ~Pending(conflicts', f)
      /\ \E row \in conflicts' : row.frame = f /\ row.resolution # "PENDING_OPERATOR"
  BY ResolveFacts, LedgerAssumption DEF Published, Publication
<1>5. \A r \in cands[f] :
        r.sha = s \/ \E row \in conflicts' : row.frame = f /\ r.sha \in {row.existing, row.incoming}
  <2>1. Published(f) /\ pub[f].status = "QUARANTINED_CONFLICT"
    BY DEF Resolve, ConflictTracked
  <2>2. \A r \in cands[f] : \E row \in conflicts : row.frame = f /\ r.sha \in {row.existing, row.incoming}
    BY <2>1 DEF NothingSilentlyDropped, DisputeRecorded
  <2> QED BY <2>2, <1>3
(* All the others. *)
<1>6. ASSUME NEW g \in Frame, g # f
      PROVE  /\ pub'[g] = pub[g] /\ (Published(g)' <=> Published(g))
             /\ Pending(conflicts', g) <=> Pending(conflicts, g)
  <2>1. pub'[g] = pub[g]
    BY <1>6, ResolveFacts
  <2>2. Pending(conflicts', g) <=> Pending(conflicts, g)
    BY <1>3, <1>6 DEF Pending
  <2> QED BY <2>1, <2>2 DEF Published
<1>7. ConflictTracked'
  BY <1>4, <1>6 DEF ConflictTracked
<1>8. DisputeRecorded'
  BY <1>3, <1>4, <1>6 DEF DisputeRecorded
<1>9. NothingSilentlyDropped'
  <2>1. ASSUME NEW g \in Frame, g # f
        PROVE  /\ \A r \in cands'[g] :
                    /\ Published(g)'
                    /\ \/ r.sha = pub'[g].sha
                       \/ \E row \in conflicts' : row.frame = g /\ r.sha \in {row.existing, row.incoming}
               /\ Published(g)' => \E r \in cands'[g] : SameObject(r, pub'[g])
    BY <1>2, <1>3, <1>6, <2>1 DEF NothingSilentlyDropped
  <2> QED BY <1>2, <1>4, <1>5, <2>1 DEF NothingSilentlyDropped
<1>10. RivalsQuarantined'
  BY <1>2, <1>4, <1>6 DEF RivalsQuarantined
<1>11. LocalPreferred'
  <2>1. ASSUME NEW g \in Frame, g # f
        PROVE  (/\ PreferLocal
                /\ \A row \in conflicts' : row.frame = g => row.resolution = "PENDING_OPERATOR"
                /\ \E r \in cands'[g] : r.worker \in LocalWorker)
               => \E r \in cands'[g] : r.worker \in LocalWorker /\ r.sha = pub'[g].sha
    BY <1>2, <1>3, <1>6, <2>1 DEF LocalPreferred
  <2> QED BY <1>4, <2>1 DEF LocalPreferred
<1> QED BY <1>1, <1>7, <1>8, <1>9, <1>10, <1>11

LEMMA StutterPreserves ==
  ASSUME LedgerInv, UNCHANGED ledgerVars
  PROVE  LedgerInv'
BY DEF ledgerVars, LedgerInv, LedgerTypeOK, ConflictTracked, DisputeRecorded,
       NothingSilentlyDropped, RivalsQuarantined, LocalPreferred, Published, Pending

LEMMA NextPreserves == LedgerInv /\ [LedgerNext]_ledgerVars => LedgerInv'
<1> SUFFICES ASSUME LedgerInv, [LedgerNext]_ledgerVars PROVE LedgerInv'
  OBVIOUS
<1>1. ASSUME NEW S \in SUBSET Frame, NEW w \in Worker, NEW k \in ObjectKey, NEW mark \in BOOLEAN,
             NEW content \in [S -> Sha], Deliver(content, w, k, mark)
      PROVE  LedgerInv'
  BY <1>1, DeliverPreserves
<1>2. ASSUME NEW f \in Frame, NEW s \in Sha, Resolve(f, s)
      PROVE  LedgerInv'
  BY <1>2, ResolvePreserves
<1>3. CASE UNCHANGED ledgerVars
  BY <1>3, StutterPreserves
<1> QED BY <1>1, <1>2, <1>3 DEF LedgerNext

(* The tables satisfy the invariant in every behaviour, for every set of      *)
(* frames, contents, workers and object keys, with and without prefer_local.  *)
THEOREM LedgerInvariant == LedgerSpec => []LedgerInv
BY InitEstablishes, NextPreserves, PTL DEF LedgerSpec

(* Candidate, publication and conflict rows stay well formed. *)
THEOREM LedgerTypeCorrect == LedgerSpec => []LedgerTypeOK
BY LedgerInvariant, PTL DEF LedgerInv

(* frame_publications.status and publication_conflicts never disagree. *)
THEOREM ConflictsAreTracked == LedgerSpec => []ConflictTracked
BY LedgerInvariant, PTL DEF LedgerInv

(* No delivered content disappears without a conflict row that names it. *)
THEOREM NothingIsSilentlyDropped == LedgerSpec => []NothingSilentlyDropped
BY LedgerInvariant, PTL DEF LedgerInv

(* Rivals of a disputed publication are quarantined. *)
THEOREM RivalsAreQuarantined == LedgerSpec => []RivalsQuarantined
BY LedgerInvariant, PTL DEF LedgerInv

(* prefer_local is honoured until an operator decides. *)
THEOREM LocalIsPreferred == LedgerSpec => []LocalPreferred
BY LedgerInvariant, PTL DEF LedgerInv

-----------------------------------------------------------------------------
(* The tables implement FramePublication. *)

Offered(f) == {r.sha : r \in cands[f]}

(* One frame's step, stated without the instance's functions. *)
PromiseStep(f) ==
  \/ \E s \in Sha :
       \/ /\ ~Published(f) /\ SlotOf(f)' = [status |-> "accepted", value |-> s]
          /\ Offered(f)' = Offered(f) \cup {s}
       \/ /\ Published(f)
          /\ \/ s = pub[f].sha /\ SlotOf(f)' = SlotOf(f)
             \/ /\ s # pub[f].sha
                /\ \E v \in {s, pub[f].sha} : SlotOf(f)' = [status |-> "disputed", value |-> v]
          /\ Offered(f)' = Offered(f) \cup {s}
       \/ /\ Published(f) /\ pub[f].status = "QUARANTINED_CONFLICT" /\ s \in Offered(f)
          /\ SlotOf(f)' = [status |-> "accepted", value |-> s]
          /\ Offered(f)' = Offered(f)
  \/ SlotOf(f)' = SlotOf(f) /\ Offered(f)' = Offered(f)

LEMMA SlotFacts ==
  ASSUME LedgerTypeOK, NEW f \in Frame
  PROVE  /\ SlotOf(f) \in {Promise!Empty} \cup {Promise!Accepted(s) : s \in Sha}
                                         \cup {Promise!Disputed(s) : s \in Sha}
         /\ Offered(f) \subseteq Sha
         /\ ~Published(f) => SlotOf(f) = Promise!Empty
         /\ Published(f) => SlotOf(f) # Promise!Empty /\ SlotOf(f).value = pub[f].sha /\ pub[f].sha \in Sha
         /\ Published(f) /\ pub[f].status = "QUARANTINED_CONFLICT" =>
              SlotOf(f).status = "disputed"
<1>1. Published(f) => pub[f] \in Publication
  BY DEF LedgerTypeOK, Published
<1>2. Offered(f) \subseteq Sha
  BY DEF Offered, LedgerTypeOK, Candidate
<1>3. \A s : Promise!Accepted(s) # Promise!Empty /\ Promise!Disputed(s) # Promise!Empty
  <2> TAKE s
  <2>1. "status" \in DOMAIN Promise!Empty /\ "value" \notin DOMAIN Promise!Empty
    BY DEF Promise!Empty
  <2>2. "value" \in DOMAIN Promise!Accepted(s) /\ "value" \in DOMAIN Promise!Disputed(s)
    BY DEF Promise!Accepted, Promise!Disputed
  <2> QED BY <2>1, <2>2
<1>4. CASE ~Published(f)
  BY <1>2, <1>4 DEF SlotOf, Promise!Empty
<1>5. CASE Published(f) /\ pub[f].status = "ACCEPTED"
  <2>1. SlotOf(f) = Promise!Accepted(pub[f].sha) /\ pub[f].sha \in Sha
    BY <1>1, <1>5 DEF SlotOf, Promise!Accepted, Publication
  <2>2. SlotOf(f).value = pub[f].sha
    BY <2>1 DEF Promise!Accepted
  <2> QED BY <1>2, <1>3, <1>5, <2>1, <2>2
<1>6. CASE Published(f) /\ pub[f].status = "QUARANTINED_CONFLICT"
  <2>1. SlotOf(f) = Promise!Disputed(pub[f].sha) /\ pub[f].sha \in Sha
    BY <1>1, <1>6 DEF SlotOf, Promise!Disputed, Publication
  <2>2. SlotOf(f).value = pub[f].sha /\ SlotOf(f).status = "disputed"
    BY <2>1 DEF Promise!Disputed
  <2> QED BY <1>2, <1>3, <1>6, <2>1, <2>2
<1> QED BY <1>1, <1>4, <1>5, <1>6 DEF Publication

Slots == {Promise!Empty} \cup {Promise!Accepted(s) : s \in Sha}
                         \cup {Promise!Disputed(s) : s \in Sha}

LEMMA SlotsTyped ==
  LedgerTypeOK => \A f \in Frame : SlotOf(f) \in Slots /\ Offered(f) \in SUBSET Sha
BY SlotFacts DEF Slots

LEMMA StepsArePromised ==
  ASSUME LedgerTypeOK, LedgerTypeOK', \A f \in Frame : PromiseStep(f)
  PROVE  Promise!Next
<1>1. \A f \in Frame : SlotOf(f)' \in Slots /\ Offered(f)' \in SUBSET Sha
  <2>1. (LedgerTypeOK => \A f \in Frame : SlotOf(f) \in Slots /\ Offered(f) \in SUBSET Sha)'
    BY SlotsTyped, PTL
  <2> QED BY <2>1 DEF Slots, Promise!Empty, Promise!Accepted, Promise!Disputed
<1>2. ASSUME NEW f \in Frame
      PROVE  Promise!FrameStep(f)
  <2> USE DEF Promise!FrameStep
  <2>1. CASE SlotOf(f)' = SlotOf(f) /\ Offered(f)' = Offered(f)
    BY <2>1 DEF Promise!Untouched, Offered
  <2>2. ASSUME NEW s \in Sha, ~Published(f), SlotOf(f)' = [status |-> "accepted", value |-> s],
               Offered(f)' = Offered(f) \cup {s}
        PROVE  Promise!FirstValue(f, s)
    BY <2>2, SlotFacts DEF Promise!FirstValue, Promise!Accepted, Offered
  <2>3. ASSUME NEW s \in Sha, Published(f), s = pub[f].sha, SlotOf(f)' = SlotOf(f),
               Offered(f)' = Offered(f) \cup {s}
        PROVE  Promise!AnotherValue(f, s)
    BY <2>3, SlotFacts DEF Promise!AnotherValue, Offered
  <2>4. ASSUME NEW s \in Sha, NEW v \in {s, pub[f].sha}, Published(f), s # pub[f].sha,
               SlotOf(f)' = [status |-> "disputed", value |-> v],
               Offered(f)' = Offered(f) \cup {s}
        PROVE  Promise!AnotherValue(f, s)
    BY <2>4, SlotFacts DEF Promise!AnotherValue, Promise!Disputed, Offered
  <2>5. ASSUME NEW s \in Sha, Published(f), pub[f].status = "QUARANTINED_CONFLICT", s \in Offered(f),
               SlotOf(f)' = [status |-> "accepted", value |-> s], Offered(f)' = Offered(f)
        PROVE  Promise!Settle(f, s)
    BY <2>5, SlotFacts DEF Promise!Settle, Promise!Accepted, Offered
  <2> QED BY <2>1, <2>2, <2>3, <2>4, <2>5 DEF PromiseStep
<1> QED BY <1>1, <1>2 DEF Promise!Next, Slots, Offered

LEMMA DeliverIsPromised ==
  ASSUME LedgerInv,
         NEW S \in SUBSET Frame, NEW content \in [S -> Sha],
         NEW w \in Worker, NEW k \in ObjectKey, NEW mark \in BOOLEAN,
         Deliver(content, w, k, mark), NEW f \in Frame
  PROVE  PromiseStep(f)
<1>0. LedgerTypeOK /\ (f \in S => content[f] \in Sha)
  BY DEF LedgerInv
<1>1. CASE f \notin S
  <2>1. cands'[f] = cands[f] /\ pub'[f] = pub[f]
    BY <1>0, <1>1, DeliverFacts
  <2> QED BY <2>1 DEF PromiseStep, SlotOf, Offered, Published
<1>2. CASE f \in S
  <2> DEFINE s == content[f]
  <2>0. s \in Sha
    BY <1>0, <1>2
  <2>1. Offered(f)' = Offered(f) \cup {s}
    <3>1. /\ \A r \in cands[f] : \E q \in cands'[f] : SameObject(q, r)
          /\ \E q \in cands'[f] : Delivered(q, s, w, k)
          /\ \A q \in cands'[f] : (\E r \in cands[f] : SameObject(q, r)) \/ Delivered(q, s, w, k)
      BY <1>0, <1>2, DeliverFacts, CandidatesAfterFacts
    <3> QED BY <3>1 DEF Offered, SameObject, Delivered
  <2>2. pub'[f] = PublicationAfter(f, s, w, k) /\ pub'[f] \in Publication /\ Published(f)'
    BY <1>0, <1>2, DeliverFacts, PublicationAfterFacts, LedgerAssumption DEF Published, Publication
  <2>3. CASE ~Published(f)
    <3>1. pub'[f].status = "ACCEPTED" /\ pub'[f].sha = s
      BY <1>0, <2>0, <2>2, <2>3, PublicationAfterFacts DEF Delivered
    <3>2. SlotOf(f)' = [status |-> "accepted", value |-> s]
      BY <2>2, <3>1 DEF SlotOf
    <3> QED BY <2>0, <2>1, <2>3, <3>2 DEF PromiseStep
  <2>4. CASE Identical(f, s)
    <3>1. pub'[f] = pub[f] /\ pub[f].sha = s /\ Published(f)
      BY <1>0, <2>0, <2>2, <2>4, PublicationAfterFacts DEF Identical
    <3>2. SlotOf(f)' = SlotOf(f)
      BY <3>1 DEF SlotOf, Published
    <3> QED BY <2>0, <2>1, <3>1, <3>2 DEF PromiseStep
  <2>5. CASE Differs(f, s)
    <3>1. /\ pub'[f].status = "QUARANTINED_CONFLICT"
          /\ IF PreferIncoming(f, w) THEN Delivered(pub'[f], s, w, k) ELSE SameObject(pub'[f], pub[f])
      BY <1>0, <2>0, <2>2, <2>5, PublicationAfterFacts
    <3>2. pub'[f].sha \in {s, pub[f].sha}
      BY <3>1 DEF Delivered, SameObject
    <3>3. SlotOf(f)' = [status |-> "disputed", value |-> pub'[f].sha]
      BY <2>2, <3>1 DEF SlotOf
    <3>4. Published(f) /\ s # pub[f].sha
      BY <2>5 DEF Differs
    <3> QED BY <2>0, <2>1, <3>2, <3>3, <3>4 DEF PromiseStep
  <2> QED BY <2>3, <2>4, <2>5 DEF Identical, Differs
<1> QED BY <1>1, <1>2

LEMMA ResolveIsPromised ==
  ASSUME LedgerInv, NEW g \in Frame, NEW s \in Sha, Resolve(g, s), NEW f \in Frame
  PROVE  PromiseStep(f)
<1>1. /\ cands' = cands
      /\ pub'[g] \in Publication /\ pub'[g].status = "ACCEPTED" /\ pub'[g].sha = s
      /\ \E r \in cands[g] : SameObject(r, pub'[g])
      /\ \A h \in Frame \ {g} : pub'[h] = pub[h]
  BY ResolveFacts DEF LedgerInv
<1>2. CASE f # g
  BY <1>1, <1>2 DEF PromiseStep, SlotOf, Offered, Published
<1>3. CASE f = g
  <2>1. Published(f) /\ pub[f].status = "QUARANTINED_CONFLICT"
    BY <1>3 DEF LedgerInv, ConflictTracked, Resolve
  <2>2. SlotOf(f)' = [status |-> "accepted", value |-> s]
    BY <1>1, <1>3, LedgerAssumption DEF SlotOf, Published, Publication
  <2>3. s \in Offered(f) /\ Offered(f)' = Offered(f)
    BY <1>1, <1>3 DEF Offered, SameObject
  <2> QED BY <2>1, <2>2, <2>3 DEF PromiseStep
<1> QED BY <1>2, <1>3

(* The detailed tables implement the abstract promise: a frame's content      *)
(* changes only by a first delivery, by opening a dispute between contents    *)
(* that were delivered, or by an operator's choice among them.                *)
THEOREM LedgerKeepsPromise == LedgerSpec => PublicationPromise
<1>1. LedgerInit => Promise!Init
  BY DEF LedgerInit, Promise!Init, Promise!Empty, SlotOf, Published
<1>2. LedgerInv /\ LedgerInv' /\ [LedgerNext]_ledgerVars => [Promise!Next]_Promise!vars
  <2> SUFFICES ASSUME LedgerInv, LedgerInv', [LedgerNext]_ledgerVars
               PROVE  [Promise!Next]_Promise!vars
    OBVIOUS
  <2>1. LedgerTypeOK /\ LedgerTypeOK'
    BY DEF LedgerInv
  <2>2. ASSUME NEW S \in SUBSET Frame, NEW w \in Worker, NEW k \in ObjectKey, NEW mark \in BOOLEAN,
               NEW content \in [S -> Sha], Deliver(content, w, k, mark)
        PROVE  Promise!Next
    <3>1. \A f \in Frame : PromiseStep(f)
      BY <2>2, DeliverIsPromised
    <3> QED BY <2>1, <3>1, StepsArePromised
  <2>3. ASSUME NEW f \in Frame, NEW s \in Sha, Resolve(f, s)
        PROVE  Promise!Next
    <3>1. \A g \in Frame : PromiseStep(g)
      BY <2>3, ResolveIsPromised
    <3> QED BY <2>1, <3>1, StepsArePromised
  <2>4. CASE UNCHANGED ledgerVars
    BY <2>4 DEF ledgerVars, Promise!vars, SlotOf, Published
  <2> QED BY <2>2, <2>3, <2>4 DEF LedgerNext
<1> QED BY <1>1, <1>2, LedgerInvariant, PTL DEF LedgerSpec, PublicationPromise, Promise!Spec

-----------------------------------------------------------------------------
(* Chunks and leases. *)

SchedulerInv ==
  /\ TypeOK
  /\ LeaseDiscipline
  /\ RetryBudget

-----------------------------------------------------------------------------
(* Chunks and their rows. *)

LEMMA ChunkFacts ==
  /\ Chunk \subseteq Frame
  /\ \A c \in Chunk : FramesOf(c) \subseteq Frame
BY DEF Chunk, FramesOf

LEMMA Multiples ==
  ASSUME NEW i \in Nat, NEW j \in Nat, NEW n \in Nat, i < j
  PROVE  i * n + n <= j * n
<1>1. PICK k \in Nat : j = i + 1 + k
  <2>1. j - i - 1 \in Nat /\ j = i + 1 + (j - i - 1)
    OBVIOUS
  <2> QED BY <2>1
<1>2. j * n = i * n + n + k * n
  BY <1>1
<1>3. k * n >= 0 /\ i * n \in Int /\ k * n \in Int
  OBVIOUS
<1> QED BY <1>2, <1>3

(* No frame belongs to two chunks. *)
LEMMA ChunksDisjoint ==
  ASSUME NEW c \in Chunk, NEW d \in Chunk, NEW f \in Frame,
         f \in FramesOf(c), f \in FramesOf(d)
  PROVE  c = d
<1> DEFINE n == FramesPerChunk
<1>1. PICK i \in 0 .. FrameEnd - FrameStart : c = FrameStart + i * n
  BY DEF Chunk
<1>2. PICK j \in 0 .. FrameEnd - FrameStart : d = FrameStart + j * n
  BY DEF Chunk
<1>3. i \in Nat /\ j \in Nat /\ n \in Nat /\ FrameStart \in Nat /\ f \in Int
  BY SchedulerAssumption
<1>4. c <= f /\ f < c + n /\ d <= f /\ f < d + n
  BY DEF FramesOf
<1>5. i * n \in Int /\ j * n \in Int
  BY <1>3
<1> HIDE DEF n
<1>6. ~(i < j)
  <2> SUFFICES ASSUME i < j PROVE FALSE
    OBVIOUS
  <2>1. i * n + n <= j * n
    BY <1>3, Multiples
  <2> QED BY <1>1, <1>2, <1>3, <1>4, <1>5, <2>1
<1>7. ~(j < i)
  <2> SUFFICES ASSUME j < i PROVE FALSE
    OBVIOUS
  <2>1. j * n + n <= i * n
    BY <1>3, Multiples
  <2> QED BY <1>1, <1>2, <1>3, <1>4, <1>5, <2>1
<1>8. i = j
  BY <1>3, <1>6, <1>7
<1> QED BY <1>1, <1>2, <1>8

LEMMA StateFacts ==
  /\ Active \subseteq State /\ Claimable \subseteq State
  /\ \A s \in Active : s \notin Claimable
  /\ \A s \in {"COMPLETE", "FAILED", "QUARANTINED"} :
       s \in State /\ s \notin Active /\ s \notin Claimable
<1>1. Active \subseteq State /\ Claimable \subseteq State
  BY DEF State
<1>2. \A s \in Active : s \notin Claimable
  BY DEF Active, Claimable
<1>3. \A s \in {"COMPLETE", "FAILED", "QUARANTINED"} :
        s \in State /\ s \notin Active /\ s \notin Claimable
  BY DEF State, Active, Claimable
<1> QED BY <1>1, <1>2, <1>3

LEMMA ReleasedFacts ==
  ASSUME NEW row \in ChunkRow, NEW state \in State
  PROVE  /\ Released(row, state) \in ChunkRow
         /\ Released(row, state).state = state
         /\ Released(row, state).token = 0
         /\ Released(row, state).attempts = row.attempts
<1>1. 0 \in 0 .. MaxAttempts /\ 0 \in Int /\ NoWorker \in Worker \cup {NoWorker}
  BY SchedulerAssumption
<1> QED BY <1>1 DEF Released, ChunkRow

LEMMA RetryOrFailFacts ==
  ASSUME NEW row \in ChunkRow
  PROVE  /\ RetryOrFail(row) \in State \ Active
         /\ RetryOrFail(row) \in Claimable => row.attempts < MaxAttempts
         /\ RetryOrFail(row) \in {"RETRYABLE", "FAILED"}
BY DEF RetryOrFail, State, Active, Claimable

(* What happens to the row of a chunk when no lease is granted for it: its    *)
(* lease columns stay, or the chunk is released with its attempts spent.      *)
RowStep(old, new) ==
  /\ new \in ChunkRow
  /\ new.attempts = old.attempts
  /\ new.state \in Claimable => new.attempts < MaxAttempts
  /\ \/ /\ new.token = old.token /\ new.worker = old.worker
        /\ new.state \in Active <=> old.state \in Active
     \/ new.token = 0 /\ new.state \notin Active

LEMMA SameRow ==
  ASSUME SchedulerInv, NEW c \in Chunk
  PROVE  RowStep(chunk[c], chunk[c])
BY DEF SchedulerInv, TypeOK, RetryBudget, RowStep

LEMMA ReleaseIsRowStep ==
  ASSUME NEW row \in ChunkRow, NEW state \in State \ Active,
         state \in Claimable => row.attempts < MaxAttempts
  PROVE  RowStep(row, Released(row, state))
BY ReleasedFacts DEF RowStep

LEMMA SweptFacts ==
  ASSUME SchedulerInv, NEW lag \in Lag
  PROVE  /\ Swept(lag) \in [Chunk -> ChunkRow]
         /\ \A c \in Chunk : RowStep(chunk[c], Swept(lag)[c])
         /\ \A c \in Chunk :
              \/ Swept(lag)[c] = chunk[c]
              \/ chunk[c].state \in Active /\ Swept(lag)[c].state \in {"RETRYABLE", "FAILED"}
<1>1. ASSUME NEW c \in Chunk
      PROVE  /\ RowStep(chunk[c], Swept(lag)[c])
             /\ \/ Swept(lag)[c] = chunk[c]
                \/ chunk[c].state \in Active /\ Swept(lag)[c].state \in {"RETRYABLE", "FAILED"}
  <2>1. chunk[c] \in ChunkRow
    BY DEF SchedulerInv, TypeOK
  <2>2. CASE chunk[c].state \in Active /\ chunk[c].remaining + lag <= 0
    <3>1. Swept(lag)[c] = Released(chunk[c], RetryOrFail(chunk[c]))
      BY <2>2 DEF Swept
    <3>2. RetryOrFail(chunk[c]) \in State
      BY <2>1, RetryOrFailFacts
    <3>3. Released(chunk[c], RetryOrFail(chunk[c])).state \in {"RETRYABLE", "FAILED"}
      BY <2>1, <3>2, RetryOrFailFacts, ReleasedFacts
    <3>4. RowStep(chunk[c], Released(chunk[c], RetryOrFail(chunk[c])))
      BY <2>1, RetryOrFailFacts, ReleaseIsRowStep
    <3> QED BY <2>2, <3>1, <3>3, <3>4
  <2>3. CASE ~(chunk[c].state \in Active /\ chunk[c].remaining + lag <= 0)
    <3>1. Swept(lag)[c] = chunk[c]
      BY <2>3 DEF Swept
    <3> QED BY <3>1, SameRow
  <2> QED BY <2>2, <2>3
<1>2. Swept(lag) = [c \in Chunk |-> Swept(lag)[c]]
  BY DEF Swept
<1> QED BY <1>1, <1>2 DEF RowStep

(* Steps that grant nothing preserve the lease invariants. *)
LEMMA RowStepsPreserve ==
  ASSUME SchedulerInv, leases' = leases,
         \A c \in Chunk : RowStep(chunk[c], chunk'[c])
  PROVE  LeaseDiscipline' /\ RetryBudget'
<1>1. ASSUME NEW c \in Chunk
      PROVE  /\ chunk'[c].state \in Active <=> chunk'[c].token # 0
             /\ chunk'[c].token # 0 =>
                  /\ chunk'[c].token = chunk[c].token /\ chunk'[c].worker = chunk[c].worker
                  /\ chunk'[c].attempts = chunk[c].attempts
  BY DEF SchedulerInv, LeaseDiscipline, RowStep
<1>2. LeaseDiscipline'
  <2> SUFFICES ASSUME NEW c \in Chunk
               PROVE  /\ chunk'[c].state \in Active <=> chunk'[c].token # 0
                      /\ chunk'[c].token # 0 =>
                           /\ chunk'[c].token = chunk'[c].attempts
                           /\ \A l \in leases' :
                                (l.chunk = c /\ l.token = chunk'[c].token) <=>
                                l = [chunk |-> c, worker |-> chunk'[c].worker, token |-> chunk'[c].token]
                           /\ [chunk |-> c, worker |-> chunk'[c].worker, token |-> chunk'[c].token]
                                \in leases'
    BY DEF LeaseDiscipline
  <2>1. CASE chunk'[c].token = 0
    BY <1>1, <2>1
  <2>2. CASE chunk'[c].token # 0
    BY <1>1, <2>2 DEF SchedulerInv, LeaseDiscipline
  <2> QED BY <2>1, <2>2
<1>3. RetryBudget'
  BY DEF SchedulerInv, RetryBudget, RowStep
<1> QED BY <1>2, <1>3

-----------------------------------------------------------------------------
(* The scheduler is a client of the publication tables. *)

LEMMA LeaseFacts ==
  ASSUME SchedulerInv, NEW l \in leases
  PROVE  /\ l.chunk \in Chunk /\ l.worker \in Worker /\ l.token \in 1 .. MaxAttempts
         /\ l.token \in ObjectKey /\ l.token # 0
         /\ chunk[l.chunk] \in ChunkRow
BY SchedulerAssumption DEF SchedulerInv, TypeOK, Lease

LEMMA StepsAreLedgerSteps == SchedulerInv /\ [Next]_vars => [LedgerNext]_ledgerVars
<1> SUFFICES ASSUME SchedulerInv, [Next]_vars PROVE [LedgerNext]_ledgerVars
  OBVIOUS
<1>1. CASE UNCHANGED ledgerVars
  BY <1>1
<1>2. ASSUME NEW lag \in Lag, NEW l \in leases, NEW content \in [FramesOf(l.chunk) -> Sha],
             CompleteChunk(l, content, lag)
      PROVE  LedgerNext
  <2>1. FramesOf(l.chunk) \in SUBSET Frame /\ l.worker \in Worker /\ l.token \in ObjectKey
    BY LeaseFacts, ChunkFacts
  <2>2. Deliver(content, l.worker, l.token, TRUE)
    BY <1>2 DEF CompleteChunk
  <2> QED BY <2>1, <2>2 DEF LedgerNext
<1>3. ASSUME NEW e \in Outside, RegisterExternalPublication(e)
      PROVE  LedgerNext
  <2> DEFINE content == [f \in {e.frame} |-> e.sha]
  <2>1. e.frame \in Frame /\ e.worker \in Worker /\ e.sha \in Sha /\ 0 \in ObjectKey
    BY SchedulerAssumption
  <2>2. Deliver(content, e.worker, 0, FALSE)
    BY <1>3 DEF RegisterExternalPublication
  <2>3. content \in [{e.frame} -> Sha] /\ {e.frame} \in SUBSET Frame
    BY <2>1
  <2> HIDE DEF content
  <2> QED BY <2>1, <2>2, <2>3 DEF LedgerNext
<1>4. ASSUME NEW f \in Frame, NEW s \in Sha, ResolveConflict(f, s)
      PROVE  LedgerNext
  BY <1>4 DEF ResolveConflict, LedgerNext
<1>5. CASE Next
  <2>1. ASSUME NEW lag \in Lag, RecoverExpiredLeases(lag) \/ ClaimRefused(lag)
        PROVE  UNCHANGED ledgerVars
    BY <2>1 DEF RecoverExpiredLeases, ClaimRefused
  <2>2. ASSUME NEW lag \in Lag, NEW w \in Worker, NEW c \in Chunk, ClaimGranted(w, c, lag)
        PROVE  UNCHANGED ledgerVars
    BY <2>2 DEF ClaimGranted
  <2>3. ASSUME NEW lag \in Lag, NEW l \in leases, LeaseStep(l, lag)
        PROVE  LedgerNext \/ UNCHANGED ledgerVars
    BY <1>2, <2>3 DEF LeaseStep, RenewLease, Heartbeat, Transition, Extend
  <2>4. ASSUME CancelJob \/ Tick
        PROVE  UNCHANGED ledgerVars
    BY <2>4 DEF CancelJob, Tick
  <2> QED BY <1>3, <1>4, <1>5, <2>1, <2>2, <2>3, <2>4 DEF Next
<1>6. CASE UNCHANGED vars
  BY <1>6 DEF vars, ledgerVars
<1> QED BY <1>5, <1>6

-----------------------------------------------------------------------------
(* The steps that grant no lease, one by one. *)

NoGrant ==
  /\ leases' = leases
  /\ cancelled' \in BOOLEAN
  /\ chunk' \in [Chunk -> ChunkRow]
  /\ \A c \in Chunk : RowStep(chunk[c], chunk'[c])

LEMMA OneRowChanges ==
  ASSUME SchedulerInv, NEW c \in Chunk, NEW row, RowStep(chunk[c], row),
         chunk' = [chunk EXCEPT ![c] = row]
  PROVE  /\ chunk' \in [Chunk -> ChunkRow]
         /\ \A d \in Chunk : RowStep(chunk[d], chunk'[d])
<1>1. row \in ChunkRow /\ chunk \in [Chunk -> ChunkRow]
  BY DEF RowStep, SchedulerInv, TypeOK
<1>2. /\ chunk' \in [Chunk -> ChunkRow]
      /\ chunk'[c] = row /\ \A d \in Chunk \ {c} : chunk'[d] = chunk[d]
  BY <1>1
<1> QED BY <1>2, SameRow

LEMMA SweepGrantsNothing ==
  ASSUME SchedulerInv, NEW lag \in Lag, RecoverExpiredLeases(lag) \/ ClaimRefused(lag)
  PROVE  NoGrant
BY SweptFacts DEF RecoverExpiredLeases, ClaimRefused, NoGrant, SchedulerInv, TypeOK

LEMMA ExtendGrantsNothing ==
  ASSUME SchedulerInv, NEW l \in leases, NEW lag \in Lag, Extend(l, lag)
  PROVE  NoGrant
<1> DEFINE row == [chunk[l.chunk] EXCEPT !.remaining = LeaseTerm - lag]
<1>1. l.chunk \in Chunk /\ chunk[l.chunk] \in ChunkRow /\ LeaseTerm - lag \in Int
  BY LeaseFacts, SchedulerAssumption DEF Lag
<1>2. chunk' = [chunk EXCEPT ![l.chunk] = row]
  BY DEF Extend
<1>3. RowStep(chunk[l.chunk], row)
  <2>1. RowStep(chunk[l.chunk], chunk[l.chunk])
    BY <1>1, SameRow
  <2>2. /\ row \in ChunkRow /\ row.state = chunk[l.chunk].state /\ row.token = chunk[l.chunk].token
        /\ row.worker = chunk[l.chunk].worker /\ row.attempts = chunk[l.chunk].attempts
    BY <1>1 DEF ChunkRow
  <2> QED BY <2>1, <2>2 DEF RowStep
<1> HIDE DEF row
<1> QED BY <1>1, <1>2, <1>3, OneRowChanges DEF NoGrant, Extend, SchedulerInv, TypeOK

LEMMA TransitionGrantsNothing ==
  ASSUME SchedulerInv, NEW l \in leases, NEW target \in State, NEW lag \in Lag,
         Transition(l, target, lag)
  PROVE  NoGrant
<1> DEFINE row == chunk[l.chunk]
           reached == IF target = "RETRYABLE" THEN RetryOrFail(row) ELSE target
           next == IF reached \in {"RETRYABLE", "FAILED"}
                     THEN Released(row, reached) ELSE [row EXCEPT !.state = reached]
<1>1. l.chunk \in Chunk /\ row \in ChunkRow
  BY LeaseFacts
<1>2. row.state \in Active
  BY DEF Transition, Successors, Active
<1>3. target \in {"RENDERING", "UPLOADING", "VALIDATING", "RETRYABLE", "FAILED"}
  BY DEF Transition, Successors
<1>4. RowStep(row, next)
  <2>1. CASE target = "RETRYABLE"
    BY <1>1, <2>1, RetryOrFailFacts, ReleaseIsRowStep
  <2>2. CASE target = "FAILED"
    <3>1. "FAILED" \in State \ Active /\ "FAILED" \notin Claimable
      BY StateFacts
    <3> QED BY <1>1, <2>2, <3>1, ReleaseIsRowStep
  <2>3. CASE target \in {"RENDERING", "UPLOADING", "VALIDATING"}
    <3>1. target \in Active /\ target \notin Claimable /\ target \notin {"RETRYABLE", "FAILED"}
      BY <2>3 DEF Active, Claimable
    <3>2. next = [row EXCEPT !.state = target]
      BY <2>3, <3>1
    <3>3. /\ next \in ChunkRow /\ next.state = target /\ next.token = row.token
          /\ next.worker = row.worker /\ next.attempts = row.attempts
      BY <1>1, <3>2 DEF ChunkRow
    <3> QED BY <1>2, <3>1, <3>3 DEF RowStep
  <2> QED BY <1>3, <2>1, <2>2, <2>3
<1>5. chunk' = [chunk EXCEPT ![l.chunk] = next]
  BY DEF Transition
<1> HIDE DEF next
<1> QED BY <1>1, <1>4, <1>5, OneRowChanges DEF NoGrant, Transition, SchedulerInv, TypeOK

LEMMA CompletionGrantsNothing ==
  ASSUME SchedulerInv, NEW l \in leases, NEW lag \in Lag,
         NEW content \in [FramesOf(l.chunk) -> Sha], CompleteChunk(l, content, lag)
  PROVE  NoGrant
<1> DEFINE state == IF \E f \in FramesOf(l.chunk) : Differs(f, content[f])
                      THEN "QUARANTINED" ELSE "COMPLETE"
           row == Released(chunk[l.chunk], state)
<1>1. l.chunk \in Chunk /\ chunk[l.chunk] \in ChunkRow
  BY LeaseFacts
<1>2. state \in State \ Active /\ state \notin Claimable
  BY StateFacts
<1>3. chunk' = [chunk EXCEPT ![l.chunk] = row]
  BY DEF CompleteChunk
<1> HIDE DEF state
<1>4. RowStep(chunk[l.chunk], row)
  BY <1>1, <1>2, ReleaseIsRowStep
<1> QED BY <1>1, <1>3, <1>4, OneRowChanges DEF NoGrant, CompleteChunk, SchedulerInv, TypeOK

LEMMA ResolutionGrantsNothing ==
  ASSUME SchedulerInv, NEW f \in Frame, NEW s \in Sha, ResolveConflict(f, s)
  PROVE  NoGrant
<1>1. ASSUME NEW c \in Chunk
      PROVE  RowStep(chunk[c], chunk'[c])
  <2>1. CASE chunk'[c] = chunk[c]
    BY <2>1, SameRow
  <2>2. CASE chunk[c].state = "QUARANTINED" /\ chunk'[c] = [chunk[c] EXCEPT !.state = "COMPLETE"]
    <3>1. chunk[c] \in ChunkRow /\ RowStep(chunk[c], chunk[c])
      BY SameRow DEF SchedulerInv, TypeOK
    <3>2. /\ chunk'[c] \in ChunkRow /\ chunk'[c].state = "COMPLETE"
          /\ chunk'[c].token = chunk[c].token /\ chunk'[c].worker = chunk[c].worker
          /\ chunk'[c].attempts = chunk[c].attempts
      BY <2>2, <3>1, StateFacts DEF ChunkRow
    <3> QED BY <2>2, <3>1, <3>2, StateFacts DEF RowStep
  <2> QED BY <2>1, <2>2 DEF ResolveConflict
<1>2. chunk' = [c \in Chunk |-> chunk'[c]]
  BY DEF ResolveConflict
<1> QED BY <1>1, <1>2 DEF NoGrant, RowStep, ResolveConflict, SchedulerInv, TypeOK

LEMMA TickGrantsNothing ==
  ASSUME SchedulerInv, Tick
  PROVE  NoGrant
<1>1. ASSUME NEW c \in Chunk
      PROVE  RowStep(chunk[c], chunk'[c])
  <2>1. CASE chunk'[c] = chunk[c]
    BY <2>1, SameRow
  <2>2. CASE chunk'[c] = [chunk[c] EXCEPT !.remaining = @ - 1]
    <3>1. chunk[c] \in ChunkRow /\ RowStep(chunk[c], chunk[c])
      BY SameRow DEF SchedulerInv, TypeOK
    <3>2. /\ chunk'[c] \in ChunkRow /\ chunk'[c].state = chunk[c].state
          /\ chunk'[c].token = chunk[c].token /\ chunk'[c].worker = chunk[c].worker
          /\ chunk'[c].attempts = chunk[c].attempts
      BY <2>2, <3>1 DEF ChunkRow
    <3> QED BY <3>1, <3>2 DEF RowStep
  <2> QED BY <2>1, <2>2 DEF Tick
<1>2. chunk' = [c \in Chunk |-> chunk'[c]]
  BY DEF Tick
<1> QED BY <1>1, <1>2 DEF NoGrant, RowStep, Tick, SchedulerInv, TypeOK

LEMMA StutterGrantsNothing ==
  ASSUME SchedulerInv, UNCHANGED <<chunk, leases>>, cancelled' \in BOOLEAN
  PROVE  NoGrant
BY SameRow DEF NoGrant, SchedulerInv, TypeOK

-----------------------------------------------------------------------------
(* The step that grants one. *)

(* The token of a new lease is unused: the attempts of a chunk number all the *)
(* leases ever granted for it, and the new attempt is the next one.           *)
LEMMA GrantFacts ==
  ASSUME SchedulerInv, NEW w \in Worker, NEW c \in Chunk, NEW lag \in Lag, ClaimGranted(w, c, lag)
  PROVE  /\ chunk'[c].state = "LEASED" /\ chunk'[c].worker = w
         /\ chunk'[c].token = chunk[c].attempts + 1 /\ chunk'[c].attempts = chunk[c].attempts + 1
         /\ chunk'[c] \in ChunkRow
         /\ chunk' \in [Chunk -> ChunkRow]
         /\ \A d \in Chunk \ {c} : RowStep(chunk[d], chunk'[d])
         /\ leases' = leases \cup {[chunk |-> c, worker |-> w, token |-> chunk[c].attempts + 1]}
         /\ \A l \in leases : l.chunk = c => l.token # chunk[c].attempts + 1
         /\ chunk[c].attempts + 1 \in 1 .. MaxAttempts
         /\ cancelled' = cancelled
<1> DEFINE rows == Swept(lag)
           attempt == rows[c].attempts + 1
           row == [state |-> "LEASED", worker |-> w, token |-> attempt,
                   remaining |-> LeaseTerm - lag, attempts |-> attempt]
<1>1. /\ rows \in [Chunk -> ChunkRow]
      /\ rows[c].attempts = chunk[c].attempts /\ rows[c].attempts < MaxAttempts
      /\ \A d \in Chunk : RowStep(chunk[d], rows[d])
  BY SweptFacts DEF ClaimGranted, RowStep
<1>2. attempt \in 1 .. MaxAttempts /\ attempt = chunk[c].attempts + 1
  BY <1>1, SchedulerAssumption DEF ChunkRow
<1>3. chunk' = [rows EXCEPT ![c] = row]
  BY DEF ClaimGranted
<1>4. row \in ChunkRow
  <2>1. LeaseTerm - lag \in Int /\ "LEASED" \in State /\ attempt \in 0 .. MaxAttempts
    BY <1>2, SchedulerAssumption DEF Lag, State, Active
  <2> QED BY <2>1 DEF ChunkRow
<1>5. \A l \in leases : l.chunk = c => l.token # chunk[c].attempts + 1
  <2>1. \A l \in leases : l.chunk = c => l.token \in 1 .. chunk[c].attempts
    BY DEF SchedulerInv, RetryBudget
  <2>2. chunk[c].attempts \in Nat
    BY <1>1, SchedulerAssumption DEF SchedulerInv, TypeOK, ChunkRow
  <2> QED BY <2>1, <2>2
<1>6. leases' = leases \cup {[chunk |-> c, worker |-> w, token |-> attempt]} /\ cancelled' = cancelled
  BY DEF ClaimGranted
<1> HIDE DEF rows, attempt
<1>7. chunk' \in [Chunk -> ChunkRow] /\ chunk'[c] = row /\ \A d \in Chunk \ {c} : chunk'[d] = rows[d]
  BY <1>1, <1>3, <1>4
<1> QED BY <1>1, <1>2, <1>4, <1>5, <1>6, <1>7

LEMMA GrantPreserves ==
  ASSUME SchedulerInv, NEW w \in Worker, NEW c \in Chunk, NEW lag \in Lag, ClaimGranted(w, c, lag)
  PROVE  LeaseDiscipline' /\ RetryBudget'
<1> DEFINE attempt == chunk[c].attempts + 1
           lease == [chunk |-> c, worker |-> w, token |-> attempt]
<1>1. /\ chunk'[c].state = "LEASED" /\ chunk'[c].worker = w
      /\ chunk'[c].token = attempt /\ chunk'[c].attempts = attempt
      /\ leases' = leases \cup {lease}
      /\ \A l \in leases : l.chunk = c => l.token # attempt
      /\ attempt \in 1 .. MaxAttempts
  BY GrantFacts
<1>2. \A d \in Chunk \ {c} : RowStep(chunk[d], chunk'[d])
  BY GrantFacts
<1>3. \A l \in leases' : l \in leases \/ l = lease
  BY <1>1
<1>4. lease.chunk = c /\ lease.worker = w /\ lease.token = attempt
  OBVIOUS
<1>5. chunk[c].attempts \in Nat
  BY SchedulerAssumption DEF SchedulerInv, TypeOK, ChunkRow
<1> HIDE DEF attempt
<1>6. ASSUME NEW d \in Chunk
      PROVE  /\ chunk'[d].state \in Active <=> chunk'[d].token # 0
             /\ chunk'[d].token # 0 =>
                  /\ chunk'[d].token = chunk'[d].attempts
                  /\ \A l \in leases' :
                       (l.chunk = d /\ l.token = chunk'[d].token) <=>
                       l = [chunk |-> d, worker |-> chunk'[d].worker, token |-> chunk'[d].token]
                  /\ [chunk |-> d, worker |-> chunk'[d].worker, token |-> chunk'[d].token] \in leases'
  <2>1. CASE d = c
    <3>1. chunk'[d].state \in Active /\ chunk'[d].token # 0
      BY <1>1, <2>1, SchedulerAssumption DEF Active
    <3>2. [chunk |-> d, worker |-> chunk'[d].worker, token |-> chunk'[d].token] = lease
      BY <1>1, <2>1
    <3> HIDE DEF lease
    <3> QED BY <1>1, <1>3, <1>4, <2>1, <3>1, <3>2
  <2>2. CASE d # c
    <3> DEFINE held == [chunk |-> d, worker |-> chunk'[d].worker, token |-> chunk'[d].token]
    <3>1. RowStep(chunk[d], chunk'[d])
      BY <1>2, <2>2
    <3>2. /\ chunk[d].state \in Active <=> chunk[d].token # 0
          /\ chunk[d].token # 0 =>
               /\ chunk[d].token = chunk[d].attempts
               /\ \A l \in leases :
                    (l.chunk = d /\ l.token = chunk[d].token) <=>
                    l = [chunk |-> d, worker |-> chunk[d].worker, token |-> chunk[d].token]
               /\ [chunk |-> d, worker |-> chunk[d].worker, token |-> chunk[d].token] \in leases
      BY DEF SchedulerInv, LeaseDiscipline
    <3>3. chunk'[d].state \in Active <=> chunk'[d].token # 0
      BY <3>1, <3>2 DEF RowStep
    <3>4. chunk'[d].token # 0 =>
            /\ chunk'[d].token = chunk'[d].attempts
            /\ \A l \in leases : (l.chunk = d /\ l.token = chunk'[d].token) <=> l = held
            /\ held \in leases
      BY <3>1, <3>2 DEF RowStep
    <3>5. lease.chunk # d /\ held.chunk = d
      BY <1>4, <2>2
    <3> HIDE DEF lease, held
    <3>6. \A l \in leases' : l \in leases \/ l = lease
      BY <1>3
    <3>7. leases \subseteq leases'
      BY <1>1
    <3>8. chunk'[d].token # 0 =>
            \A l \in leases' : (l.chunk = d /\ l.token = chunk'[d].token) <=> l = held
      BY <3>4, <3>5, <3>6
    <3> QED BY <3>3, <3>4, <3>7, <3>8 DEF held
  <2> QED BY <2>1, <2>2
<1>7. LeaseDiscipline'
  BY <1>6 DEF LeaseDiscipline
<1>8. ASSUME NEW d \in Chunk
      PROVE  /\ {l.token : l \in {m \in leases' : m.chunk = d}} = 1 .. chunk'[d].attempts
             /\ chunk'[d].state \in Claimable => chunk'[d].attempts < MaxAttempts
  <2>1. {l.token : l \in {m \in leases : m.chunk = d}} = 1 .. chunk[d].attempts
    BY DEF SchedulerInv, RetryBudget
  <2>2. CASE d = c
    <3>1. {l.token : l \in {m \in leases' : m.chunk = c}}
            = {l.token : l \in {m \in leases : m.chunk = c}} \cup {attempt}
      BY <1>1, <1>4
    <3>2. (1 .. chunk[c].attempts) \cup {attempt} = 1 .. attempt
      BY <1>5 DEF attempt
    <3>3. chunk'[c].state \notin Claimable
      BY <1>1 DEF Claimable
    <3> QED BY <1>1, <2>1, <2>2, <3>1, <3>2, <3>3
  <2>3. CASE d # c
    <3>1. {m \in leases' : m.chunk = d} = {m \in leases : m.chunk = d}
      BY <1>1, <1>4, <2>3
    <3>2. /\ chunk'[d].attempts = chunk[d].attempts
          /\ chunk'[d].state \in Claimable => chunk'[d].attempts < MaxAttempts
      BY <1>2, <2>3 DEF RowStep
    <3> QED BY <2>1, <3>1, <3>2
  <2> QED BY <2>2, <2>3
<1>9. RetryBudget'
  BY <1>8 DEF RetryBudget
<1> QED BY <1>7, <1>9

-----------------------------------------------------------------------------
(* The invariants of the scheduler. *)

Grant == \E lag \in Lag, w \in Worker, c \in Chunk : ClaimGranted(w, c, lag)

LEMMA NextCases == SchedulerInv /\ [Next]_vars => NoGrant \/ Grant
<1> SUFFICES ASSUME SchedulerInv, [Next]_vars PROVE NoGrant \/ Grant
  OBVIOUS
<1>1. ASSUME NEW lag \in Lag, NEW l \in leases, LeaseStep(l, lag)
      PROVE  NoGrant
  <2>1. CASE RenewLease(l, lag)
    BY <2>1, ExtendGrantsNothing DEF RenewLease
  <2>2. ASSUME NEW s \in Active, Heartbeat(l, s, lag) PROVE NoGrant
    BY <2>2, ExtendGrantsNothing DEF Heartbeat
  <2>3. ASSUME NEW s \in State, Transition(l, s, lag) PROVE NoGrant
    BY <2>3, TransitionGrantsNothing
  <2>4. ASSUME NEW content \in [FramesOf(l.chunk) -> Sha], CompleteChunk(l, content, lag) PROVE NoGrant
    BY <2>4, CompletionGrantsNothing
  <2> QED BY <1>1, <2>1, <2>2, <2>3, <2>4 DEF LeaseStep
<1>2. ASSUME NEW lag \in Lag, RecoverExpiredLeases(lag) \/ ClaimRefused(lag)
      PROVE  NoGrant
  BY <1>2, SweepGrantsNothing
<1>3. CASE CancelJob
  BY <1>3, StutterGrantsNothing DEF CancelJob
<1>4. ASSUME NEW e \in Outside, RegisterExternalPublication(e) PROVE NoGrant
  BY <1>4, StutterGrantsNothing DEF RegisterExternalPublication, SchedulerInv, TypeOK
<1>5. ASSUME NEW f \in Frame, NEW s \in Sha, ResolveConflict(f, s) PROVE NoGrant
  BY <1>5, ResolutionGrantsNothing
<1>6. CASE Tick
  BY <1>6, TickGrantsNothing
<1>7. CASE UNCHANGED vars
  BY <1>7, StutterGrantsNothing DEF vars, SchedulerInv, TypeOK
<1> QED BY <1>1, <1>2, <1>3, <1>4, <1>5, <1>6, <1>7 DEF Next, Grant

LEMMA SchedulerInit == Init => SchedulerInv /\ LedgerInv
<1> SUFFICES ASSUME Init PROVE SchedulerInv /\ LedgerInv
  OBVIOUS
<1> DEFINE row == [state |-> "PENDING", worker |-> NoWorker, token |-> 0, remaining |-> 0, attempts |-> 0]
<1>1. LedgerInv
  BY InitEstablishes DEF Init
<1>2. chunk = [c \in Chunk |-> row] /\ leases = {} /\ cancelled = FALSE
  BY DEF Init
<1>3. row \in ChunkRow
  <2>1. 0 \in 0 .. MaxAttempts /\ "PENDING" \in State
    BY SchedulerAssumption DEF State, Claimable
  <2> QED BY <2>1 DEF ChunkRow
<1>4. /\ row.state = "PENDING" /\ row.token = 0 /\ row.attempts = 0
      /\ row.state \notin Active
  BY DEF Active
<1> HIDE DEF row
<1>5. TypeOK
  BY <1>1, <1>2, <1>3 DEF TypeOK, LedgerInv
<1>6. LeaseDiscipline
  BY <1>2, <1>4 DEF LeaseDiscipline
<1>7. RetryBudget
  <2>1. 1 .. 0 = {} /\ 0 < MaxAttempts
    BY SchedulerAssumption
  <2> QED BY <1>2, <1>4, <2>1 DEF RetryBudget
<1> QED BY <1>1, <1>5, <1>6, <1>7 DEF SchedulerInv

LEMMA SchedulerNext == SchedulerInv /\ LedgerInv /\ [Next]_vars => SchedulerInv' /\ LedgerInv'
<1> SUFFICES ASSUME SchedulerInv, LedgerInv, [Next]_vars PROVE SchedulerInv' /\ LedgerInv'
  OBVIOUS
<1>1. LedgerInv'
  BY StepsAreLedgerSteps, NextPreserves
<1>2. CASE NoGrant
  <2>1. LeaseDiscipline' /\ RetryBudget'
    BY <1>2, RowStepsPreserve DEF NoGrant
  <2>2. TypeOK'
    BY <1>1, <1>2 DEF NoGrant, TypeOK, SchedulerInv, LedgerInv
  <2> QED BY <1>1, <2>1, <2>2 DEF SchedulerInv
<1>3. ASSUME NEW lag \in Lag, NEW w \in Worker, NEW c \in Chunk, ClaimGranted(w, c, lag)
      PROVE  SchedulerInv'
  <2>1. LeaseDiscipline' /\ RetryBudget'
    BY <1>3, GrantPreserves
  <2>2. /\ chunk' \in [Chunk -> ChunkRow] /\ cancelled' = cancelled
        /\ leases' = leases \cup {[chunk |-> c, worker |-> w, token |-> chunk[c].attempts + 1]}
        /\ chunk[c].attempts + 1 \in 1 .. MaxAttempts
    BY <1>3, GrantFacts
  <2>3. TypeOK'
    BY <1>1, <2>2 DEF TypeOK, SchedulerInv, LedgerInv, Lease
  <2> QED BY <2>1, <2>3 DEF SchedulerInv
<1> QED BY <1>1, <1>2, <1>3, NextCases DEF Grant

LEMMA SchedulerInvariant == Spec => [](SchedulerInv /\ LedgerInv)
BY SchedulerInit, SchedulerNext, PTL DEF Spec

(* The rows of every table have the columns, states and bounds of the schema. *)
THEOREM SchedulerTypeCorrect == Spec => []TypeOK
BY SchedulerInvariant, PTL DEF SchedulerInv

(* A chunk has a token exactly while it is active, the token is the one       *)
(* granted last, and exactly one lease ever granted opens it.                 *)
THEOREM LeasesAreDisciplined == Spec => []LeaseDiscipline
BY SchedulerInvariant, PTL DEF SchedulerInv

(* At most max_attempts leases are granted per chunk, and a claimable chunk   *)
(* has one left.                                                              *)
THEOREM RetriesAreBounded == Spec => []RetryBudget
BY SchedulerInvariant, PTL DEF SchedulerInv

(* Everything proved of the publication tables holds of the scheduler: it     *)
(* touches them only through the operations of FrameLedger.                   *)
THEOREM SchedulerImplementsLedger == Spec => LedgerSpec
<1>1. Init => LedgerInit
  BY DEF Init
<1> QED BY <1>1, SchedulerInvariant, StepsAreLedgerSteps, PTL DEF Spec, LedgerSpec

(* The publication promise, for the scheduler as a whole. *)
THEOREM SchedulerKeepsPromise == Spec => PublicationPromise
BY SchedulerImplementsLedger, LedgerKeepsPromise

-----------------------------------------------------------------------------
(* Consequences. *)

(* A lease that has lost its chunk never opens it again. *)
THEOREM LostLeasesStayLost == Spec => LostIsLost
<1>1. SchedulerInv /\ [Next]_vars => [\A l \in leases : Opens(l)' => Opens(l)]_vars
  <2> SUFFICES ASSUME SchedulerInv, [Next]_vars, NEW l \in leases, Opens(l)' PROVE Opens(l)
    OBVIOUS
  <2>1. l.chunk \in Chunk /\ l.token # 0
    BY LeaseFacts
  <2>2. CASE NoGrant
    BY <2>1, <2>2 DEF NoGrant, RowStep, Opens
  <2>3. ASSUME NEW lag \in Lag, NEW w \in Worker, NEW c \in Chunk, ClaimGranted(w, c, lag)
        PROVE  Opens(l)
    <3>1. CASE l.chunk = c
      <4>1. chunk'[c].token = chunk[c].attempts + 1 /\ l.token # chunk[c].attempts + 1
        BY <2>3, <3>1, GrantFacts
      <4> QED BY <3>1, <4>1 DEF Opens
    <3>2. CASE l.chunk # c
      <4>1. RowStep(chunk[l.chunk], chunk'[l.chunk])
        BY <2>1, <2>3, <3>2, GrantFacts
      <4> QED BY <2>1, <4>1 DEF RowStep, Opens
    <3> QED BY <3>1, <3>2
  <2> QED BY <2>2, <2>3, NextCases DEF Grant
<1> QED BY <1>1, SchedulerInvariant, PTL DEF Spec, LostIsLost

(* A job that status() calls complete is finished and fully published. *)
THEOREM CompleteJobsAreQuiet == Spec => []CompleteJobIsQuiet
<1>1. SchedulerInv /\ LedgerInv => CompleteJobIsQuiet
  <2> SUFFICES ASSUME SchedulerInv, LedgerInv, JobComplete
               PROVE  /\ \A l \in leases, lag \in Lag : ~Holds(l, lag)
                      /\ \A f \in Frame : /\ pub[f].status = "ACCEPTED"
                                           /\ \E r \in cands[f] : SameObject(r, pub[f])
    BY DEF CompleteJobIsQuiet
  <2>1. ASSUME NEW l \in leases, NEW lag \in Lag PROVE ~Holds(l, lag)
    <3>1. l.chunk \in Chunk /\ l.token # 0
      BY LeaseFacts
    <3>2. chunk[l.chunk].token = 0
      BY <3>1, StateFacts DEF JobComplete, SchedulerInv, LeaseDiscipline
    <3> QED BY <3>1, <3>2 DEF Holds
  <2>2. ASSUME NEW f \in Frame
        PROVE  pub[f].status = "ACCEPTED" /\ \E r \in cands[f] : SameObject(r, pub[f])
    <3>1. Published(f) /\ ~Pending(conflicts, f)
      BY DEF JobComplete
    <3>2. pub[f] \in Publication
      BY <3>1 DEF LedgerInv, LedgerTypeOK, Published
    <3>3. pub[f].status # "QUARANTINED_CONFLICT"
      BY <3>1 DEF LedgerInv, ConflictTracked
    <3> QED BY <3>1, <3>2, <3>3 DEF Publication, LedgerInv, NothingSilentlyDropped
  <2> QED BY <2>1, <2>2
<1> QED BY <1>1, SchedulerInvariant, PTL

-----------------------------------------------------------------------------
(* Final states. *)

Final == {"COMPLETE", "FAILED", "QUARANTINED"}

LEMMA NobodyHoldsFinal ==
  ASSUME SchedulerInv, NEW l \in leases, NEW lag \in Lag, Holds(l, lag)
  PROVE  chunk[l.chunk].state \in Active /\ chunk[l.chunk].state \notin Final
BY LeaseFacts, StateFacts DEF Holds, SchedulerInv, LeaseDiscipline, Final

(* Only an operator's decision changes the row of a chunk in a final state,   *)
(* and only a completion finishes a chunk or puts it in quarantine.           *)
LEMMA FinalRows ==
  ASSUME SchedulerInv, [Next]_vars, NEW c \in Chunk
  PROVE  /\ chunk[c].state \in Final =>
              \/ chunk'[c] = chunk[c]
              \/ \E f \in Frame, s \in Sha : ResolveConflict(f, s)
         /\ chunk'[c].state = "QUARANTINED" =>
              \/ chunk[c].state = "QUARANTINED"
              \/ \E lag \in Lag, l \in leases : \E content \in [FramesOf(l.chunk) -> Sha] :
                   /\ l.chunk = c /\ CompleteChunk(l, content, lag)
                   /\ \E f \in FramesOf(c) : Differs(f, content[f])
         /\ chunk'[c].state \in {"COMPLETE", "QUARANTINED"} =>
              \/ chunk[c].state \in {"COMPLETE", "QUARANTINED"}
              \/ \E lag \in Lag, l \in leases : \E content \in [FramesOf(l.chunk) -> Sha] :
                   l.chunk = c /\ CompleteChunk(l, content, lag)
<1> DEFINE Goal ==
      /\ chunk[c].state \in Final =>
           chunk'[c] = chunk[c] \/ \E f \in Frame, s \in Sha : ResolveConflict(f, s)
      /\ chunk'[c].state = "QUARANTINED" =>
           \/ chunk[c].state = "QUARANTINED"
           \/ \E lag \in Lag, l \in leases : \E content \in [FramesOf(l.chunk) -> Sha] :
                /\ l.chunk = c /\ CompleteChunk(l, content, lag)
                /\ \E f \in FramesOf(c) : Differs(f, content[f])
      /\ chunk'[c].state \in {"COMPLETE", "QUARANTINED"} =>
           \/ chunk[c].state \in {"COMPLETE", "QUARANTINED"}
           \/ \E lag \in Lag, l \in leases : \E content \in [FramesOf(l.chunk) -> Sha] :
                l.chunk = c /\ CompleteChunk(l, content, lag)
<1>0. chunk \in [Chunk -> ChunkRow] /\ chunk[c] \in ChunkRow
  BY DEF SchedulerInv, TypeOK
<1>1. CASE chunk'[c] = chunk[c]
  BY <1>1
<1>2. ASSUME NEW lag \in Lag, RecoverExpiredLeases(lag) \/ ClaimRefused(lag) PROVE Goal
  <2>1. \/ chunk'[c] = chunk[c]
        \/ chunk[c].state \in Active /\ chunk'[c].state \in {"RETRYABLE", "FAILED"}
    BY <1>2, SweptFacts DEF RecoverExpiredLeases, ClaimRefused
  <2>2. chunk[c].state \in Active => chunk[c].state \notin Final
    BY StateFacts DEF Final
  <2> QED BY <2>1, <2>2
<1>3. ASSUME NEW lag \in Lag, NEW w \in Worker, NEW d \in Chunk, ClaimGranted(w, d, lag) PROVE Goal
  <2> DEFINE rows == Swept(lag)
  <2>1. /\ \/ rows[c] = chunk[c]
           \/ chunk[c].state \in Active /\ rows[c].state \in {"RETRYABLE", "FAILED"}
        /\ rows \in [Chunk -> ChunkRow]
    BY SweptFacts
  <2>2. rows[d].state \in Claimable
    BY <1>3 DEF ClaimGranted
  <2>3. chunk[c].state \in Active => chunk[c].state \notin Final
    BY StateFacts DEF Final
  <2>4. CASE c = d
    <3>1. chunk'[c].state = "LEASED"
      BY <1>3, <2>4, GrantFacts
    <3>2. chunk[c].state \notin Final
      BY <2>1, <2>2, <2>3, <2>4 DEF Claimable, Final
    <3> QED BY <3>1, <3>2
  <2>5. CASE c # d
    <3>1. chunk'[c] = rows[c]
      BY <1>3, <2>1, <2>5 DEF ClaimGranted
    <3> QED BY <2>1, <2>3, <3>1
  <2> QED BY <2>4, <2>5
<1>4. ASSUME NEW lag \in Lag, NEW l \in leases, LeaseStep(l, lag) PROVE Goal
  <2>1. l.chunk \in Chunk /\ chunk[l.chunk] \in ChunkRow
    BY LeaseFacts
  <2>2. Holds(l, lag)
    BY <1>4 DEF LeaseStep, RenewLease, Heartbeat, Transition, CompleteChunk
  <2>3. chunk[l.chunk].state \in Active /\ chunk[l.chunk].state \notin Final
    BY <2>2, NobodyHoldsFinal
  <2>4. CASE l.chunk # c
    BY <1>0, <1>4, <2>1, <2>4
       DEF LeaseStep, RenewLease, Heartbeat, Extend, Transition, CompleteChunk
  <2>5. CASE l.chunk = c
    <3>1. CASE RenewLease(l, lag) \/ \E s \in Active : Heartbeat(l, s, lag)
      <4>1. chunk'[c].state = chunk[c].state
        BY <1>0, <2>1, <2>5, <3>1 DEF RenewLease, Heartbeat, Extend, ChunkRow
      <4> QED BY <2>3, <2>5, <4>1
    <3>2. ASSUME NEW target \in State, Transition(l, target, lag) PROVE Goal
      <4> DEFINE reached == IF target = "RETRYABLE" THEN RetryOrFail(chunk[c]) ELSE target
      <4>1. reached # "QUARANTINED" /\ reached # "COMPLETE" /\ reached \in State
        BY <2>5, <3>2, RetryOrFailFacts, <1>0 DEF Transition, Successors
      <4>2. chunk'[c] = IF reached \in {"RETRYABLE", "FAILED"}
                          THEN Released(chunk[c], reached) ELSE [chunk[c] EXCEPT !.state = reached]
        BY <1>0, <2>1, <2>5, <3>2 DEF Transition
      <4> HIDE DEF reached
      <4>3. chunk'[c].state = reached
        BY <1>0, <4>1, <4>2, ReleasedFacts DEF ChunkRow
      <4> QED BY <2>3, <2>5, <4>1, <4>3
    <3>3. ASSUME NEW content \in [FramesOf(l.chunk) -> Sha], CompleteChunk(l, content, lag) PROVE Goal
      <4>0. \E n \in Lag, m \in leases : \E x \in [FramesOf(m.chunk) -> Sha] :
              m.chunk = c /\ CompleteChunk(m, x, n)
        BY <2>5, <3>3
      <4>1. CASE \E f \in FramesOf(c) : Differs(f, content[f])
        BY <2>3, <2>5, <3>3, <4>0, <4>1
      <4>2. CASE ~ \E f \in FramesOf(c) : Differs(f, content[f])
        <5>1. chunk'[c] = Released(chunk[c], "COMPLETE")
          BY <1>0, <2>1, <2>5, <3>3, <4>2 DEF CompleteChunk
        <5>2. chunk'[c].state = "COMPLETE"
          BY <1>0, <5>1, ReleasedFacts, StateFacts
        <5> QED BY <2>3, <2>5, <4>0, <5>2
      <4> QED BY <4>1, <4>2
    <3> QED BY <1>4, <3>1, <3>2, <3>3 DEF LeaseStep
  <2> QED BY <1>1, <2>4, <2>5
<1>5. CASE CancelJob \/ \E e \in Outside : RegisterExternalPublication(e)
  BY <1>1, <1>5 DEF CancelJob, RegisterExternalPublication
<1>6. ASSUME NEW f \in Frame, NEW s \in Sha, ResolveConflict(f, s) PROVE Goal
  <2>1. /\ chunk'[c].state = "QUARANTINED" => chunk[c].state = "QUARANTINED"
        /\ chunk'[c] = chunk[c] \/ chunk[c].state = "QUARANTINED"
    BY <1>0, <1>6 DEF ResolveConflict, ChunkRow
  <2> QED BY <1>6, <2>1
<1>7. CASE Tick
  <2>1. chunk'[c].state = chunk[c].state
    BY <1>0, <1>7 DEF Tick, ChunkRow
  <2>2. chunk[c].state \in Final => chunk'[c] = chunk[c]
    BY <1>0, <1>7, StateFacts DEF Tick, SchedulerInv, LeaseDiscipline, Final
  <2> QED BY <2>1, <2>2
<1>8. CASE UNCHANGED vars
  BY <1>1, <1>8 DEF vars
<1> HIDE DEF Goal
<1>9. Goal
  BY <1>2, <1>3, <1>4, <1>5, <1>6, <1>7, <1>8 DEF Next, Goal
<1> QED BY <1>9 DEF Goal

(* COMPLETE and FAILED are final; QUARANTINED is left only for COMPLETE, by   *)
(* the operator's decision that closes the last conflict of the chunk.        *)
THEOREM FinishedStaysFinal == Spec => FinishedIsFinal
<1>1. SchedulerInv /\ [Next]_vars => [\A c \in Chunk : FinalRow(c)]_vars
  <2> SUFFICES ASSUME SchedulerInv, [Next]_vars, NEW c \in Chunk PROVE FinalRow(c)
    OBVIOUS
  <2>1. CASE chunk'[c] = chunk[c] \/ chunk[c].state \notin Final
    BY <2>1 DEF FinalRow, Final
  <2>2. ASSUME NEW f \in Frame, NEW s \in Sha, ResolveConflict(f, s) PROVE FinalRow(c)
    <3>1. chunk[c] \in ChunkRow
      BY DEF SchedulerInv, TypeOK
    <3>2. chunk[c].state # "QUARANTINED" => chunk'[c] = chunk[c]
      BY <2>2 DEF ResolveConflict
    <3>3. \/ chunk'[c] = chunk[c]
          \/ /\ chunk'[c] = [chunk[c] EXCEPT !.state = "COMPLETE"]
             /\ \A g \in FramesOf(c) : ~Pending(conflicts', g)
      BY <2>2 DEF ResolveConflict
    <3> QED BY <3>1, <3>2, <3>3 DEF FinalRow, ChunkRow
  <2> QED BY <2>1, <2>2, FinalRows
<1> QED BY <1>1, SchedulerInvariant, PTL DEF Spec, FinishedIsFinal

LEMMA ConflictsStay ==
  ASSUME [Next]_vars
  PROVE  conflicts \subseteq conflicts' \/ \E f \in Frame, s \in Sha : ResolveConflict(f, s)
<1>1. ASSUME NEW lag \in Lag, NEW l \in leases, LeaseStep(l, lag)
      PROVE  conflicts \subseteq conflicts'
  BY <1>1 DEF LeaseStep, RenewLease, Heartbeat, Extend, Transition, CompleteChunk, Deliver, ledgerVars
<1>2. ASSUME NEW lag \in Lag, RecoverExpiredLeases(lag) \/ ClaimRefused(lag)
      PROVE  conflicts \subseteq conflicts'
  BY <1>2 DEF RecoverExpiredLeases, ClaimRefused, ledgerVars
<1>3. ASSUME NEW lag \in Lag, NEW w \in Worker, NEW c \in Chunk, ClaimGranted(w, c, lag)
      PROVE  conflicts \subseteq conflicts'
  BY <1>3 DEF ClaimGranted, ledgerVars
<1>4. CASE CancelJob \/ Tick \/ UNCHANGED vars
  BY <1>4 DEF CancelJob, Tick, vars, ledgerVars
<1>5. ASSUME NEW e \in Outside, RegisterExternalPublication(e)
      PROVE  conflicts \subseteq conflicts'
  BY <1>5 DEF RegisterExternalPublication, Deliver
<1> QED BY <1>1, <1>2, <1>3, <1>4, <1>5 DEF Next

LEMMA QuarantineStep ==
  SchedulerInv /\ QuarantineExplained /\ [Next]_vars => QuarantineExplained'
<1> SUFFICES ASSUME SchedulerInv, QuarantineExplained, [Next]_vars,
                    NEW c \in Chunk, chunk'[c].state = "QUARANTINED"
             PROVE  \E f \in FramesOf(c) : Pending(conflicts', f)
  BY DEF QuarantineExplained
<1>1. ASSUME NEW g \in Frame, NEW s \in Sha, ResolveConflict(g, s)
      PROVE  \E f \in FramesOf(c) : Pending(conflicts', f)
  <2>1. chunk[c] \in ChunkRow
    BY DEF SchedulerInv, TypeOK
  <2>2. chunk'[c] = IF /\ chunk[c].state = "QUARANTINED"
                       /\ \A f \in FramesOf(c) : ~Pending(conflicts', f)
                      THEN [chunk[c] EXCEPT !.state = "COMPLETE"] ELSE chunk[c]
    BY <1>1 DEF ResolveConflict
  <2> QED BY <2>1, <2>2 DEF ChunkRow
<1>2. CASE conflicts \subseteq conflicts' /\ chunk[c].state = "QUARANTINED"
  BY <1>2 DEF QuarantineExplained, Pending
<1>3. ASSUME NEW lag \in Lag, NEW l \in leases, NEW content \in [FramesOf(l.chunk) -> Sha],
             l.chunk = c, CompleteChunk(l, content, lag),
             NEW f \in FramesOf(c), Differs(f, content[f])
      PROVE  Pending(conflicts', f)
  <2>1. ConflictRow(f, content[f]) \in conflicts'
    BY <1>3 DEF CompleteChunk, Deliver
  <2> QED BY <2>1 DEF Pending, ConflictRow
<1> QED BY <1>1, <1>2, <1>3, FinalRows, ConflictsStay

(* No chunk is stuck in quarantine: there is always a conflict to resolve. *)
THEOREM QuarantineIsExplained == Spec => []QuarantineExplained
<1>1. Init => QuarantineExplained
  BY DEF Init, QuarantineExplained
<1> QED BY <1>1, QuarantineStep, SchedulerInvariant, PTL DEF Spec

-----------------------------------------------------------------------------
(* Deliveries. *)

(* The attempts whose frames are among the candidates. *)
Keys(rows) == {r.key : r \in {q \in rows : q.key # 0}}

(* A delivery under key k adds that key and no other. *)
AddsKey(rows, after, k) ==
  \A n : n \in Keys(after) <=> n \in Keys(rows) \/ (n = k /\ n # 0)

LEMMA DeliveryAddsKey ==
  ASSUME LedgerTypeOK, NEW f \in Frame, NEW s \in Sha,
         NEW w \in Worker, NEW k \in ObjectKey
  PROVE  /\ AddsKey(cands[f], CandidatesAfter(f, s, w, k, TRUE), k)
         /\ AddsKey(cands[f], CandidatesAfter(f, s, w, k, FALSE), k)
<1> SUFFICES ASSUME NEW mark \in BOOLEAN
             PROVE  AddsKey(cands[f], CandidatesAfter(f, s, w, k, mark), k)
  OBVIOUS
<1> DEFINE after == CandidatesAfter(f, s, w, k, mark)
<1>1. /\ \A r \in cands[f] : \E q \in after : SameObject(q, r)
      /\ \E q \in after : Delivered(q, s, w, k)
      /\ \A q \in after : (\E r \in cands[f] : SameObject(q, r)) \/ Delivered(q, s, w, k)
  BY CandidatesAfterFacts
<1> HIDE DEF after
<1>2. \A n : n \in Keys(after) <=> n # 0 /\ \E q \in after : q.key = n
  BY DEF Keys
<1>3. \A n : n \in Keys(cands[f]) <=> n # 0 /\ \E r \in cands[f] : r.key = n
  BY DEF Keys
<1>4. \A q, r : SameObject(q, r) => q.key = r.key
  BY DEF SameObject
<1>5. \A q : Delivered(q, s, w, k) => q.key = k
  BY DEF Delivered
<1>6. ASSUME NEW n PROVE n \in Keys(after) <=> n \in Keys(cands[f]) \/ (n = k /\ n # 0)
  BY <1>1, <1>2, <1>3, <1>4, <1>5
<1> QED BY <1>6 DEF after, AddsKey

(* Frames get candidates of an attempt only from the completion of their own  *)
(* chunk: frames that come from outside have key 0.                           *)
LEMMA KeysStay ==
  ASSUME SchedulerInv, LedgerInv, [Next]_vars, NEW c \in Chunk, NEW f \in FramesOf(c)
  PROVE  \/ Keys(cands'[f]) = Keys(cands[f])
         \/ \E lag \in Lag, l \in leases : \E content \in [FramesOf(l.chunk) -> Sha] :
              l.chunk = c /\ CompleteChunk(l, content, lag)
<1> DEFINE Same == Keys(cands'[f]) = Keys(cands[f])
           Own == \E lag \in Lag, l \in leases : \E content \in [FramesOf(l.chunk) -> Sha] :
                    l.chunk = c /\ CompleteChunk(l, content, lag)
<1>0. f \in Frame /\ LedgerTypeOK
  BY ChunkFacts DEF LedgerInv
<1>1. CASE cands' = cands
  BY <1>1
<1>2. ASSUME NEW lag \in Lag, NEW l \in leases, NEW content \in [FramesOf(l.chunk) -> Sha],
             CompleteChunk(l, content, lag)
      PROVE  Same \/ Own
  <2>1. CASE l.chunk = c
    BY <1>2, <2>1
  <2>2. CASE l.chunk # c
    <3>1. l.chunk \in Chunk /\ FramesOf(l.chunk) \in SUBSET Frame
          /\ l.worker \in Worker /\ l.token \in ObjectKey
      BY LeaseFacts, ChunkFacts
    <3>2. f \notin FramesOf(l.chunk)
      BY <1>0, <2>2, <3>1, ChunksDisjoint
    <3>3. Deliver(content, l.worker, l.token, TRUE)
      BY <1>2 DEF CompleteChunk
    <3>4. cands'[f] = cands[f]
      BY <1>0, <3>1, <3>2, <3>3, DeliverFacts
    <3> QED BY <3>4
  <2> QED BY <2>1, <2>2
<1>3. ASSUME NEW e \in Outside, RegisterExternalPublication(e) PROVE Same
  <2> DEFINE content == [g \in {e.frame} |-> e.sha]
  <2>1. e.frame \in Frame /\ e.worker \in Worker /\ e.sha \in Sha /\ 0 \in ObjectKey
    BY SchedulerAssumption
  <2>2. Deliver(content, e.worker, 0, FALSE)
    BY <1>3 DEF RegisterExternalPublication
  <2>3. content \in [{e.frame} -> Sha] /\ {e.frame} \in SUBSET Frame
    BY <2>1
  <2> HIDE DEF content
  <2>4. CASE f \in {e.frame}
    <3>0. content[f] \in Sha
      BY <2>3, <2>4
    <3>1. cands'[f] = CandidatesAfter(f, content[f], e.worker, 0, FALSE)
      BY <1>0, <2>1, <2>2, <2>3, <2>4, DeliverFacts
    <3>2. AddsKey(cands[f], cands'[f], 0)
      BY <1>0, <2>1, <3>0, <3>1, DeliveryAddsKey
    <3>3. \A n : n \in Keys(cands'[f]) <=> n \in Keys(cands[f])
      BY <3>2 DEF AddsKey
    <3> QED BY <3>3
  <2>5. CASE f \notin {e.frame}
    BY <1>0, <2>1, <2>2, <2>3, <2>5, DeliverFacts
  <2> QED BY <2>4, <2>5
<1>4. ASSUME NEW g \in Frame, NEW s \in Sha, ResolveConflict(g, s) PROVE cands' = cands
  BY <1>4 DEF ResolveConflict, Resolve
<1>5. ASSUME NEW lag \in Lag, NEW l \in leases, LeaseStep(l, lag) PROVE Same \/ Own
  <2>1. CASE \E content \in [FramesOf(l.chunk) -> Sha] : CompleteChunk(l, content, lag)
    BY <1>2, <2>1
  <2>2. CASE RenewLease(l, lag) \/ (\E s \in Active : Heartbeat(l, s, lag))
             \/ (\E s \in State : Transition(l, s, lag))
    BY <1>1, <2>2 DEF RenewLease, Heartbeat, Transition, Extend, ledgerVars
  <2> QED BY <1>5, <2>1, <2>2 DEF LeaseStep
<1>6. ASSUME NEW lag \in Lag, RecoverExpiredLeases(lag) \/ ClaimRefused(lag)
      PROVE  cands' = cands
  BY <1>6 DEF RecoverExpiredLeases, ClaimRefused, ledgerVars
<1>7. ASSUME NEW lag \in Lag, NEW w \in Worker, NEW d \in Chunk, ClaimGranted(w, d, lag)
      PROVE  cands' = cands
  BY <1>7 DEF ClaimGranted, ledgerVars
<1>8. ASSUME CancelJob \/ Tick \/ UNCHANGED vars PROVE cands' = cands
  BY <1>8 DEF CancelJob, Tick, vars, ledgerVars
<1>9. cands' = cands => Same
  OBVIOUS
<1> HIDE DEF Same, Own
<1>10. Same \/ Own
  BY <1>3, <1>4, <1>5, <1>6, <1>7, <1>8, <1>9 DEF Next
<1> QED BY <1>10 DEF Same, Own

(* A finished chunk keeps its number of attempts, and stays finished. *)
LEMMA FinishedStays ==
  ASSUME SchedulerInv, [Next]_vars, NEW c \in Chunk, Finished(c)
  PROVE  /\ chunk'[c].state \in {"COMPLETE", "QUARANTINED"}
         /\ chunk'[c].attempts = chunk[c].attempts
<1>1. chunk[c].state \in Final /\ chunk[c] \in ChunkRow
  BY DEF Finished, Final, SchedulerInv, TypeOK
<1>2. CASE chunk'[c] = chunk[c]
  BY <1>2 DEF Finished
<1>3. ASSUME NEW g \in Frame, NEW s \in Sha, ResolveConflict(g, s)
      PROVE  chunk'[c] = chunk[c] \/ chunk'[c] = [chunk[c] EXCEPT !.state = "COMPLETE"]
  BY <1>3 DEF ResolveConflict
<1>4. CASE chunk'[c] = [chunk[c] EXCEPT !.state = "COMPLETE"]
  BY <1>1, <1>4 DEF ChunkRow
<1> QED BY <1>1, <1>2, <1>3, <1>4, FinalRows

(* The completion of a chunk by the lease that holds it. *)
LEMMA CompletionDelivers ==
  ASSUME SchedulerInv, LedgerInv, DeliveredOnce, NEW lag \in Lag, NEW l \in leases,
         NEW content \in [FramesOf(l.chunk) -> Sha], CompleteChunk(l, content, lag)
  PROVE  /\ chunk'[l.chunk].state \in {"COMPLETE", "QUARANTINED"}
         /\ \A f \in FramesOf(l.chunk) : Keys(cands'[f]) = {chunk'[l.chunk].attempts}
<1> DEFINE c == l.chunk
           state == IF \E f \in FramesOf(c) : Differs(f, content[f])
                      THEN "QUARANTINED" ELSE "COMPLETE"
<1>1. /\ c \in Chunk /\ l.worker \in Worker /\ l.token \in ObjectKey /\ l.token # 0
      /\ chunk[c] \in ChunkRow /\ FramesOf(c) \in SUBSET Frame
      /\ chunk \in [Chunk -> ChunkRow]
  BY LeaseFacts, ChunkFacts DEF SchedulerInv, TypeOK
<1>2. chunk[c].token = l.token /\ chunk[c].state = "VALIDATING"
  BY DEF CompleteChunk, Holds
<1>3. l.token = chunk[c].attempts /\ ~Finished(c)
  BY <1>1, <1>2 DEF SchedulerInv, LeaseDiscipline, Finished
<1>4. chunk'[c] = Released(chunk[c], state) /\ state \in State
  BY <1>1, StateFacts DEF CompleteChunk
<1>5. chunk'[c].state = state /\ chunk'[c].attempts = chunk[c].attempts
  BY <1>1, <1>4, ReleasedFacts
<1>6. ASSUME NEW f \in FramesOf(c) PROVE Keys(cands'[f]) = {chunk'[c].attempts}
  <2>1. Keys(cands[f]) = {}
    BY <1>1, <1>3 DEF DeliveredOnce, Keys
  <2>2. AddsKey(cands[f], cands'[f], l.token)
    <3>1. LedgerTypeOK /\ Deliver(content, l.worker, l.token, TRUE)
      BY DEF CompleteChunk, LedgerInv
    <3>2. FramesOf(l.chunk) \in SUBSET Frame /\ l.worker \in Worker /\ l.token \in ObjectKey
      BY <1>1
    <3>3. f \in FramesOf(l.chunk)
      OBVIOUS
    <3> HIDE DEF c, state
    <3>4. cands'[f] = CandidatesAfter(f, content[f], l.worker, l.token, TRUE)
      BY <3>1, <3>2, <3>3, DeliverFacts
    <3>5. f \in Frame /\ content[f] \in Sha
      BY <3>2, <3>3
    <3> QED BY <3>1, <3>2, <3>4, <3>5, DeliveryAddsKey
  <2>3. Keys(cands'[f]) = {l.token}
    BY <1>1, <2>1, <2>2 DEF AddsKey
  <2> QED BY <1>3, <1>5, <2>3
<1> QED BY <1>5, <1>6

LEMMA DeliveryStep ==
  SchedulerInv /\ LedgerInv /\ DeliveredOnce /\ [Next]_vars => DeliveredOnce'
<1> SUFFICES ASSUME SchedulerInv, LedgerInv, DeliveredOnce, [Next]_vars,
                    NEW c \in Chunk, NEW f \in FramesOf(c)
             PROVE  Keys(cands'[f]) = IF chunk'[c].state \in {"COMPLETE", "QUARANTINED"}
                                        THEN {chunk'[c].attempts} ELSE {}
  BY DEF DeliveredOnce, Keys, Finished
<1>1. CASE \E lag \in Lag, l \in leases : \E content \in [FramesOf(l.chunk) -> Sha] :
             l.chunk = c /\ CompleteChunk(l, content, lag)
  BY <1>1, CompletionDelivers
<1>2. CASE ~ \E lag \in Lag, l \in leases : \E content \in [FramesOf(l.chunk) -> Sha] :
             l.chunk = c /\ CompleteChunk(l, content, lag)
  <2>1. Keys(cands'[f]) = Keys(cands[f])
    BY <1>2, KeysStay
  <2>2. Keys(cands[f]) = IF Finished(c) THEN {chunk[c].attempts} ELSE {}
    BY DEF DeliveredOnce, Keys
  <2>3. chunk'[c].state \in {"COMPLETE", "QUARANTINED"} => Finished(c)
    BY <1>2, FinalRows DEF Finished
  <2> QED BY <2>1, <2>2, <2>3, FinishedStays
<1> QED BY <1>1, <1>2

(* A chunk is delivered at most once, by the attempt granted last: a worker   *)
(* that lost its lease contributes nothing, however late it calls.            *)
THEOREM ChunksAreDeliveredOnce == Spec => []DeliveredOnce
<1>1. Init => DeliveredOnce
  <2> SUFFICES ASSUME Init, NEW c \in Chunk, NEW f \in FramesOf(c)
               PROVE  cands[f] = {} /\ ~Finished(c)
    BY DEF DeliveredOnce
  <2>1. f \in Frame
    BY ChunkFacts
  <2> QED BY <2>1 DEF Init, LedgerInit, Finished
<1> QED BY <1>1, DeliveryStep, SchedulerInvariant, PTL DEF Spec
=============================================================================
