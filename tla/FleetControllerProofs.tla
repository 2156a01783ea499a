------------------------- MODULE FleetControllerProofs -------------------------
(* A verdict of completeness pieced together from four SELECTs is true when   *)
(* it is taken and stays true, for every number of workers, chunks and        *)
(* attempts and however many transactions run between any two SELECTs.        *)
EXTENDS FleetController, ChunkSchedulerProofs, FiniteSetTheorems

AllComplete == \A c \in Chunk : chunk[c].state = "COMPLETE"
AllPublished == \A f \in Frame : Published(f)
FrameCount == FrameEnd - FrameStart + 1

(* What a count that was read says stays true: a complete chunk stays         *)
(* complete and a published frame stays published.  Only the conflicts may    *)
(* come and go, and they are read last.                                       *)
FleetInv ==
  /\ next \in 0 .. 4
  /\ IsFiniteSet(conflicts)
  /\ DOMAIN seen = {"job", "chunks", "published", "conflicts"}
  /\ next \in {3, 4} /\ seen["chunks"] = 0 => AllComplete
  /\ next = 4 /\ seen["published"] = FrameCount => AllPublished
  /\ reason = "job-complete" => AllComplete

-----------------------------------------------------------------------------
(* What the counts say. *)

LEMMA FiniteSets ==
  /\ IsFiniteSet(Frame) /\ Cardinality(Frame) = FrameCount
  /\ \A S \in SUBSET Frame : IsFiniteSet(S)
<1>1. FrameStart \in Int /\ FrameEnd \in Int /\ FrameStart <= FrameEnd
      /\ Frame = FrameStart .. FrameEnd
  BY SchedulerAssumption
<1>2. IsFiniteSet(Frame) /\ Cardinality(Frame) = FrameCount
  BY <1>1, FS_Interval DEF FrameCount
<1> QED BY <1>2, FS_Subset

LEMMA ChunksCounted == Select("chunks") = 0 => AllComplete
<1> DEFINE open == {c \in Chunk : chunk[c].state # "COMPLETE"}
<1>1. Select("chunks") = Cardinality(open)
  BY DEF Select
<1>2. IsFiniteSet(open)
  BY FiniteSets, ChunkFacts
<1>3. Cardinality(open) = 0 => open = {}
  BY <1>2, FS_EmptySet
<1> QED BY <1>1, <1>3 DEF AllComplete

LEMMA FramesCounted == Select("published") = FrameCount => AllPublished
<1> DEFINE there == {f \in Frame : Published(f)}
<1>1. Select("published") = Cardinality(there)
  BY DEF Select
<1>2. there \in SUBSET Frame
  OBVIOUS
<1>3. Cardinality(Frame) = Cardinality(there) => Frame = there
  BY <1>2, FiniteSets, FS_Subset
<1> QED BY <1>1, <1>3, FiniteSets DEF AllPublished

LEMMA ConflictsCounted ==
  IsFiniteSet(conflicts) /\ Select("conflicts") = 0 =>
    \A f \in Frame : ~Pending(conflicts, f)
<1> SUFFICES ASSUME IsFiniteSet(conflicts), Select("conflicts") = 0
             PROVE  \A f \in Frame : ~Pending(conflicts, f)
  OBVIOUS
<1> DEFINE open == {r \in conflicts : r.resolution = "PENDING_OPERATOR"}
<1>1. Select("conflicts") = Cardinality(open)
  BY DEF Select
<1>2. IsFiniteSet(open)
  <2>1. open \in SUBSET conflicts
    OBVIOUS
  <2> QED BY <2>1, FS_Subset
<1>3. open = {}
  BY <1>1, <1>2, FS_EmptySet
<1> QED BY <1>3 DEF Pending

-----------------------------------------------------------------------------
(* What the scheduler's steps leave true. *)

LEMMA ImageIsFinite ==
  ASSUME NEW S, IsFiniteSet(S), NEW T, NEW F \in [S -> T],
         \A t \in T : \E s \in S : F[s] = t
  PROVE  IsFiniteSet(T)
<1>1. F \in Surjection(S, T)
  BY DEF Surjection
<1> QED BY <1>1, FS_Surjection

LEMMA ConflictsStayFinite ==
  ASSUME LedgerTypeOK, IsFiniteSet(conflicts), [LedgerNext]_ledgerVars
  PROVE  IsFiniteSet(conflicts')
<1>1. CASE UNCHANGED ledgerVars
  BY <1>1 DEF ledgerVars
<1>2. ASSUME NEW S \in SUBSET Frame, NEW w \in Worker, NEW k \in ObjectKey, NEW mark \in BOOLEAN,
             NEW content \in [S -> Sha], Deliver(content, w, k, mark)
      PROVE  IsFiniteSet(conflicts')
  <2> DEFINE clashes == {f \in S : Differs(f, content[f])}
             rows == {ConflictRow(f, content[f]) : f \in clashes}
             F == [f \in clashes |-> ConflictRow(f, content[f])]
  <2>1. conflicts' = conflicts \cup rows
    BY <1>2 DEF Deliver
  <2>2. IsFiniteSet(clashes)
    BY FiniteSets
  <2>3. IsFiniteSet(rows)
    <3>1. F \in [clashes -> rows] /\ \A t \in rows : \E f \in clashes : F[f] = t
      OBVIOUS
    <3> HIDE DEF F, rows, clashes
    <3> QED BY <2>2, <3>1, ImageIsFinite
  <2> QED BY <2>1, <2>3, FS_Union
<1>3. ASSUME NEW f \in Frame, NEW s \in Sha, Resolve(f, s)
      PROVE  IsFiniteSet(conflicts')
  <2> DEFINE closed(r) == IF r.frame = f /\ r.resolution = "PENDING_OPERATOR"
                            THEN [r EXCEPT !.resolution = s] ELSE r
             F == [r \in conflicts |-> closed(r)]
  <2>1. conflicts' = {closed(r) : r \in conflicts}
    BY <1>3 DEF Resolve, Closed
  <2> HIDE DEF closed
  <2>2. F \in [conflicts -> conflicts'] /\ \A t \in conflicts' : \E r \in conflicts : F[r] = t
    BY <2>1
  <2> HIDE DEF F
  <2> QED BY <2>2, ImageIsFinite
<1> QED BY <1>1, <1>2, <1>3 DEF LedgerNext

LEMMA PublishedStays ==
  ASSUME LedgerTypeOK, [LedgerNext]_ledgerVars, NEW f \in Frame, Published(f)
  PROVE  pub'[f] # NoRow
<1>1. CASE UNCHANGED ledgerVars
  BY <1>1 DEF ledgerVars, Published
<1>2. ASSUME NEW S \in SUBSET Frame, NEW w \in Worker, NEW k \in ObjectKey, NEW mark \in BOOLEAN,
             NEW content \in [S -> Sha], Deliver(content, w, k, mark)
      PROVE  pub'[f] # NoRow
  <2>1. CASE f \in S
    <3>1. pub'[f] = PublicationAfter(f, content[f], w, k) /\ content[f] \in Sha
      BY <1>2, <2>1, DeliverFacts
    <3>2. PublicationAfter(f, content[f], w, k) \in Publication
      BY <3>1, PublicationAfterFacts
    <3> QED BY <3>1, <3>2, LedgerAssumption DEF Publication
  <2>2. CASE f \notin S
    BY <1>2, <2>2 DEF Deliver, Published
  <2> QED BY <2>1, <2>2
<1>3. ASSUME NEW g \in Frame, NEW s \in Sha, Resolve(g, s)
      PROVE  pub'[f] # NoRow
  BY <1>3, ResolveFacts, LedgerAssumption DEF Published, Publication
<1> QED BY <1>1, <1>2, <1>3 DEF LedgerNext

LEMMA CompleteStays ==
  ASSUME SchedulerInv, [Next]_vars, NEW c \in Chunk, chunk[c].state = "COMPLETE"
  PROVE  chunk'[c].state = "COMPLETE"
<1>1. ASSUME NEW g \in Frame, NEW s \in Sha, ResolveConflict(g, s) PROVE chunk'[c] = chunk[c]
  BY <1>1 DEF ResolveConflict
<1> QED BY <1>1, FinalRows DEF Final

LEMMA SchedulerKeepsFacts ==
  ASSUME SchedulerInv, LedgerInv, IsFiniteSet(conflicts), [Next]_vars
  PROVE  /\ AllComplete => AllComplete'
         /\ AllPublished => AllPublished'
         /\ IsFiniteSet(conflicts')
<1>1. [LedgerNext]_ledgerVars /\ LedgerTypeOK
  BY StepsAreLedgerSteps DEF LedgerInv
<1>2. AllComplete => AllComplete'
  BY CompleteStays DEF AllComplete
<1>3. AllPublished => AllPublished'
  BY <1>1, PublishedStays DEF AllPublished, Published
<1> QED BY <1>1, <1>2, <1>3, ConflictsStayFinite

-----------------------------------------------------------------------------
(* The controller. *)

LEMMA FleetStepsAreSchedulerSteps == [FleetNext]_fleetVars => [Next]_vars
<1> SUFFICES ASSUME [FleetNext]_fleetVars PROVE [Next]_vars
  OBVIOUS
<1>1. CASE UNCHANGED fleetVars
  BY <1>1 DEF fleetVars, vars
<1>2. ASSUME (\E in \in Input : Reconcile(in)) \/ ReadNext \/ (\E w \in Worker : StopInstance(w))
      PROVE  UNCHANGED vars
  BY <1>2 DEF Reconcile, ReadNext, StopInstance, SchedulerStutters
<1> QED BY <1>1, <1>2 DEF FleetNext

LEMMA ReadFacts ==
  /\ Len(Reads) = 4
  /\ Reads[1] = "job" /\ Reads[2] = "chunks" /\ Reads[3] = "published" /\ Reads[4] = "conflicts"
BY DEF Reads

(* The last SELECT, and what the three before it have left.                   *)
LEMMA LastRead ==
  ASSUME SchedulerInv, LedgerInv, FleetInv, ReadNext, next = 4, reason' = "job-complete"
  PROVE  /\ AllComplete /\ AllPublished
         /\ \A f \in Frame : ~Pending(conflicts, f)
<1>1. /\ seen' = [seen EXCEPT !["conflicts"] = Select("conflicts")]
      /\ reason' = Reason(seen', input)
  BY ReadFacts DEF ReadNext
<1>2. SeenComplete(seen')
  BY <1>1 DEF Reason
<1>3. /\ seen'["chunks"] = seen["chunks"] /\ seen'["published"] = seen["published"]
      /\ seen'["conflicts"] = Select("conflicts")
  BY <1>1 DEF FleetInv
<1>4. seen'["chunks"] = 0 /\ seen'["published"] = FrameCount /\ seen'["conflicts"] = 0
  BY <1>2 DEF SeenComplete, FrameCount
<1> QED BY <1>3, <1>4, ConflictsCounted DEF FleetInv

LEMMA FleetStep ==
  SchedulerInv /\ LedgerInv /\ FleetInv /\ [FleetNext]_fleetVars => FleetInv'
<1> SUFFICES ASSUME SchedulerInv, LedgerInv, FleetInv, [FleetNext]_fleetVars PROVE FleetInv'
  OBVIOUS
<1>1. CASE UNCHANGED ctlVars
  <2>1. /\ AllComplete => AllComplete'
        /\ AllPublished => AllPublished'
        /\ IsFiniteSet(conflicts')
    BY FleetStepsAreSchedulerSteps, SchedulerKeepsFacts DEF FleetInv
  <2> QED BY <1>1, <2>1 DEF FleetInv, ctlVars
<1>2. ASSUME UNCHANGED vars
      PROVE  AllComplete' = AllComplete /\ AllPublished' = AllPublished /\ conflicts' = conflicts
  BY <1>2 DEF vars, AllComplete, AllPublished, Published
<1>3. ASSUME NEW in \in Input, Reconcile(in) PROVE FleetInv'
  BY <1>2, <1>3 DEF Reconcile, SchedulerStutters, FleetInv, Nothing
<1>4. CASE ReadNext
  <2>1. next \in 1 .. 4 /\ UNCHANGED vars
    BY <1>4, ReadFacts DEF ReadNext, SchedulerStutters
  <2>2. /\ AllComplete' = AllComplete /\ AllPublished' = AllPublished /\ conflicts' = conflicts
        /\ DOMAIN seen' = {"job", "chunks", "published", "conflicts"}
    BY <1>2, <1>4, <2>1 DEF ReadNext, FleetInv
  <2>3. CASE next = 1
    BY <1>4, <2>2, <2>3, ReadFacts DEF ReadNext, FleetInv
  <2>4. CASE next = 2
    <3>1. seen'["chunks"] = Select("chunks") /\ next' = 3 /\ reason' = reason
      BY <1>4, <2>4, ReadFacts DEF ReadNext, FleetInv
    <3> QED BY <2>2, <3>1, ChunksCounted DEF FleetInv
  <2>5. CASE next = 3
    <3>1. /\ seen'["published"] = Select("published") /\ seen'["chunks"] = seen["chunks"]
          /\ next' = 4 /\ reason' = reason
      BY <1>4, <2>5, ReadFacts DEF ReadNext, FleetInv
    <3> QED BY <2>2, <2>5, <3>1, FramesCounted DEF FleetInv
  <2>6. CASE next = 4
    <3>1. next' = 0
      BY <1>4, <2>6, ReadFacts DEF ReadNext
    <3>2. reason' = "job-complete" => AllComplete
      BY <1>4, <2>6, LastRead
    <3> QED BY <2>2, <3>1, <3>2 DEF FleetInv
  <2> QED BY <2>1, <2>3, <2>4, <2>5, <2>6
<1>5. ASSUME NEW w \in Worker, StopInstance(w) PROVE FleetInv'
  BY <1>2, <1>5 DEF StopInstance, SchedulerStutters, FleetInv
<1>6. UNCHANGED fleetVars => UNCHANGED ctlVars
  BY DEF fleetVars, ctlVars
<1> QED BY <1>1, <1>3, <1>4, <1>5, <1>6 DEF FleetNext

LEMMA FleetInvariant == FleetSpec => [](SchedulerInv /\ LedgerInv /\ FleetInv)
<1>1. FleetInit => SchedulerInv /\ LedgerInv
  BY SchedulerInit DEF FleetInit
<1>2. FleetInit => FleetInv
  BY FS_EmptySet DEF FleetInit, FleetInv, Init, LedgerInit, Nothing
<1>3. SchedulerInv /\ LedgerInv /\ [FleetNext]_fleetVars => SchedulerInv' /\ LedgerInv'
  BY FleetStepsAreSchedulerSteps, SchedulerNext
<1> QED BY <1>1, <1>2, <1>3, FleetStep, PTL DEF FleetSpec

(* Beside the controller the scheduler is still the scheduler: reconcile      *)
(* reads and stops instances, and changes no table.                           *)
THEOREM FleetOnlyWatches == FleetSpec => Spec
<1>1. FleetInit => Init
  BY DEF FleetInit
<1> QED BY <1>1, FleetStepsAreSchedulerSteps, PTL DEF FleetSpec, Spec

(* After a verdict of completeness no lease is live and none is granted.      *)
THEOREM CompletedFleetStaysQuiet == FleetSpec => []CompletedFleetIsQuiet
<1>1. SchedulerInv /\ FleetInv => CompletedFleetIsQuiet
  <2>1. "COMPLETE" \notin Active
    BY DEF Active
  <2>2. SchedulerInv => \A c \in Chunk : chunk[c].token # 0 => chunk[c].state \in Active
    BY DEF SchedulerInv, LeaseDiscipline
  <2> QED BY <2>1, <2>2 DEF FleetInv, AllComplete, CompletedFleetIsQuiet
<1> QED BY <1>1, FleetInvariant, PTL

(* The verdict is true at the moment of the last SELECT.                      *)
THEOREM VerdictsAreCurrent == FleetSpec => VerdictIsCurrent
<1> DEFINE Step == (reason' = "job-complete" /\ reason # reason') =>
                     /\ \A c \in Chunk : chunk[c].state = "COMPLETE"
                     /\ \A f \in Frame : Published(f) /\ pub[f].status = "ACCEPTED"
<1>1. SchedulerInv /\ LedgerInv /\ FleetInv /\ [FleetNext]_fleetVars => Step
  <2> SUFFICES ASSUME SchedulerInv, LedgerInv, FleetInv, [FleetNext]_fleetVars,
                      reason' = "job-complete", reason # reason'
               PROVE  /\ \A c \in Chunk : chunk[c].state = "COMPLETE"
                      /\ \A f \in Frame : Published(f) /\ pub[f].status = "ACCEPTED"
    OBVIOUS
  <2>1. ReadNext
    <3>1. ~ UNCHANGED fleetVars /\ ~ UNCHANGED ctlVars
      BY DEF fleetVars, ctlVars
    <3>2. ~ (\E in \in Input : Reconcile(in)) /\ ~ (\E w \in Worker : StopInstance(w))
      BY DEF Reconcile, StopInstance
    <3> QED BY <3>1, <3>2 DEF FleetNext
  <2>2. next = 4
    BY <2>1, ReadFacts DEF ReadNext, FleetInv
  <2>3. AllComplete /\ AllPublished /\ \A f \in Frame : ~Pending(conflicts, f)
    BY <2>1, <2>2, LastRead
  <2>4. ASSUME NEW f \in Frame PROVE Published(f) /\ pub[f].status = "ACCEPTED"
    <3>1. Published(f) /\ pub[f].status # "QUARANTINED_CONFLICT"
      BY <2>3 DEF AllPublished, LedgerInv, ConflictTracked
    <3>2. pub[f] \in Publication
      BY <3>1 DEF LedgerInv, LedgerTypeOK, Published
    <3> QED BY <3>1, <3>2 DEF Publication
  <2> QED BY <2>3, <2>4 DEF AllComplete
<1> QED BY <1>1, FleetInvariant, PTL DEF FleetSpec, VerdictIsCurrent
=============================================================================
