------------------------- MODULE RenderPlacementProofs -------------------------
(* The render scheduler under its workers, whatever they and its other        *)
(* clients call and in whatever order: the tables stay typed, leases and      *)
(* tasks agree, only the newest lease of a task delivers it, and no worker is *)
(* given more than it can hold; for every number of workers, tasks and        *)
(* devices, every need and every staleness of the times the calls carry.      *)
(* With renewals frequent enough for that staleness, two processes share a    *)
(* device or a task only when one of their workers is retired or late.  And   *)
(* the tables keep the promise of TaskDelivery.                               *)
(*                                                                            *)
(* First what each transaction of RenderTaskScheduler preserves of its        *)
(* tables, one lemma per operation on tables as values; then what each step   *)
(* of a worker's program makes of them; then the same again for the times.    *)
(* The promise is kept row by row: a call makes rows lapse, then serves one.  *)
EXTENDS RenderPlacement, FiniteSetTheorems, SequenceTheorems, WellFoundedInduction,
        TLAPS

-----------------------------------------------------------------------------
(* Sums over finite sets, for the memories that leases reserve.  The fold of  *)
(* the library is a table of partial sums over the subsets of the set; that   *)
(* there is one, and what it says, is shown for a smallest subset that would  *)
(* be a counterexample.                                                       *)

Any(s) == CHOOSE x \in s : TRUE

(* g is the table of partial sums of f that the library's fold computes.      *)
Partial(f, S, g) ==
  g = [s \in SUBSET S |-> IF s = {} THEN 0 ELSE f[Any(s)] + g[s \ {Any(s)}]]

LEMMA SumIsPartial ==
  ASSUME NEW f, NEW S
  PROVE  SumFunctionOnSet(f, S) = (CHOOSE g : Partial(f, S, g))[S]
BY DEF SumFunctionOnSet, FoldFunctionOnSet, MapThenFoldSet, Partial, Any

(* Induction over the subsets of a finite set, as a smallest counterexample.  *)
LEMMA SmallestSubset ==
  ASSUME NEW S, IsFiniteSet(S), NEW bad \in SUBSET SUBSET S, bad # {}
  PROVE  \E s \in bad : \A t \in bad : t \subseteq s => t = s
<1>1. IsWellFoundedOn(StrictSubsetOrdering(S), SUBSET S)
  BY FS_StrictSubsetOrderingWellFounded, FS_FiniteSubsetsOfFinite
<1>2. PICK s \in bad : \A t \in bad : <<t, s>> \notin StrictSubsetOrdering(S)
  BY <1>1, WFMin
<1> QED BY <1>2 DEF StrictSubsetOrdering

LEMMA AnyFacts ==
  ASSUME NEW s, s # {}
  PROVE  Any(s) \in s /\ s \ {Any(s)} \subseteq s /\ s \ {Any(s)} # s
BY DEF Any

LEMMA PartialAgree ==
  ASSUME NEW f, NEW S, NEW T, IsFiniteSet(S), NEW g, NEW h, Partial(f, S, g), Partial(f, T, h),
         NEW s \in SUBSET S, s \subseteq T
  PROVE  g[s] = h[s]
<1> DEFINE bad == {t \in SUBSET S : t \subseteq T /\ g[t] # h[t]}
<1>1. SUFFICES bad = {}
  OBVIOUS
<1>2. SUFFICES ASSUME bad # {} PROVE FALSE
  OBVIOUS
<1>3. PICK t \in bad : \A u \in bad : u \subseteq t => u = t
  <2>1. bad \in SUBSET SUBSET S
    OBVIOUS
  <2> HIDE DEF bad
  <2> QED BY <1>2, <2>1, SmallestSubset
<1>4. t # {} => g[t \ {Any(t)}] = h[t \ {Any(t)}]
  BY <1>3, AnyFacts
<1>5. /\ g[t] = IF t = {} THEN 0 ELSE f[Any(t)] + g[t \ {Any(t)}]
      /\ h[t] = IF t = {} THEN 0 ELSE f[Any(t)] + h[t \ {Any(t)}]
  BY <1>3 DEF Partial
<1> QED BY <1>3, <1>4, <1>5

LEMMA PartialExists ==
  ASSUME NEW f, NEW S, IsFiniteSet(S)
  PROVE  \E g : Partial(f, S, g)
<1> DEFINE bad == {t \in SUBSET S : ~ \E g : Partial(f, t, g)}
<1>1. SUFFICES ASSUME bad # {} PROVE FALSE
  OBVIOUS
<1>2. PICK T \in bad : \A u \in bad : u \subseteq T => u = T
  <2>1. bad \in SUBSET SUBSET S
    OBVIOUS
  <2> HIDE DEF bad
  <2> QED BY <1>1, <2>1, SmallestSubset
<1> DEFINE sol(u) == CHOOSE g : Partial(f, u, g)
           g == [s \in SUBSET T |-> IF s = T /\ T # {}
                                      THEN f[Any(T)] + sol(T \ {Any(T)})[T \ {Any(T)}]
                                      ELSE IF s = {} THEN 0 ELSE sol(s)[s]]
<1>3. \A u \in SUBSET T : u # T => Partial(f, u, sol(u))
  BY <1>2
<1>4. \A u \in SUBSET T : IsFiniteSet(u)
  BY <1>2, FS_Subset
<1> HIDE DEF sol
<1>5. ASSUME NEW s \in SUBSET T
      PROVE  g[s] = IF s = {} THEN 0 ELSE f[Any(s)] + g[s \ {Any(s)}]
  <2> DEFINE r == s \ {Any(s)}
  <2>1. SUFFICES ASSUME s # {} PROVE g[s] = f[Any(s)] + g[r]
    BY <1>5
  <2>2. r \in SUBSET T /\ r \in SUBSET s /\ r # T /\ r # s
    BY <1>5, <2>1, AnyFacts
  <2>3. g[r] = sol(r)[r]
    <3>1. Partial(f, r, sol(r)) /\ r \in SUBSET r
      BY <1>3, <2>2
    <3>2. r = {} => sol(r)[r] = 0
      BY <3>1 DEF Partial
    <3> QED BY <2>2, <3>2
  <2>4. CASE s = T
    BY <2>1, <2>3, <2>4
  <2>5. CASE s # T
    <3>1. Partial(f, s, sol(s)) /\ Partial(f, r, sol(r))
      BY <1>3, <2>2, <2>5
    <3>2. sol(s)[r] = sol(r)[r]
      BY <1>4, <2>2, <3>1, PartialAgree
    <3>3. s \in SUBSET s /\ sol(s)[s] = f[Any(s)] + sol(s)[r]
      BY <2>1, <3>1 DEF Partial
    <3> QED BY <2>1, <2>3, <2>5, <3>2, <3>3
  <2> QED BY <2>4, <2>5
<1>6. Partial(f, T, g)
  BY <1>5 DEF Partial
<1> QED BY <1>2, <1>6

LEMMA SumUnfolds ==
  ASSUME NEW f, NEW s, IsFiniteSet(s)
  PROVE  SumFunctionOnSet(f, s) =
           IF s = {} THEN 0 ELSE f[Any(s)] + SumFunctionOnSet(f, s \ {Any(s)})
<1> DEFINE sol(u) == CHOOSE g : Partial(f, u, g)
           r == s \ {Any(s)}
<1>1. \A u : IsFiniteSet(u) => Partial(f, u, sol(u))
  BY PartialExists
<1>2. \A u : SumFunctionOnSet(f, u) = sol(u)[u]
  BY SumIsPartial
<1> HIDE DEF sol
<1>3. Partial(f, s, sol(s)) /\ s \in SUBSET s
  BY <1>1
<1>4. CASE s = {}
  BY <1>2, <1>3, <1>4 DEF Partial
<1>5. CASE s # {}
  <2>1. IsFiniteSet(r) /\ r \in SUBSET s /\ r \in SUBSET r
    BY FS_Subset
  <2>2. Partial(f, r, sol(r))
    BY <1>1, <2>1
  <2>3. sol(s)[r] = sol(r)[r]
    BY <1>3, <2>1, <2>2, PartialAgree
  <2>4. sol(s)[s] = f[Any(s)] + sol(s)[r]
    BY <1>3, <1>5 DEF Partial
  <2> QED BY <1>2, <1>5, <2>3, <2>4
<1> QED BY <1>4, <1>5

-----------------------------------------------------------------------------
(* From here on SumUnfolds is all that is known of sums.                      *)

LEMMA SumType ==
  ASSUME NEW S, IsFiniteSet(S), NEW f, \A x \in S : f[x] \in Nat
  PROVE  \A s \in SUBSET S : SumFunctionOnSet(f, s) \in Nat
<1> DEFINE bad == {s \in SUBSET S : SumFunctionOnSet(f, s) \notin Nat}
<1>1. SUFFICES ASSUME bad # {} PROVE FALSE
  OBVIOUS
<1>2. PICK s \in bad : \A t \in bad : t \subseteq s => t = s
  <2>1. bad \in SUBSET SUBSET S
    OBVIOUS
  <2> HIDE DEF bad
  <2> QED BY <1>1, <2>1, SmallestSubset
<1>3. IsFiniteSet(s)
  BY <1>2, FS_Subset
<1>4. s # {} => f[Any(s)] \in Nat /\ SumFunctionOnSet(f, s \ {Any(s)}) \in Nat
  BY <1>2, AnyFacts
<1>5. SumFunctionOnSet(f, s) \in Nat
  BY <1>3, <1>4, SumUnfolds
<1> QED BY <1>2, <1>5

(* A sum does not depend on which element is taken first, nor on what its     *)
(* function is elsewhere.                                                     *)
LEMMA SumTakesAny ==
  ASSUME NEW S, IsFiniteSet(S), NEW f, \A x \in S : f[x] \in Nat,
         NEW s \in SUBSET S, NEW x \in s
  PROVE  SumFunctionOnSet(f, s) = f[x] + SumFunctionOnSet(f, s \ {x})
<1> DEFINE Sum(t) == SumFunctionOnSet(f, t)
           bad == {t \in SUBSET S : \E y \in t : Sum(t) # f[y] + Sum(t \ {y})}
<1>1. SUFFICES ASSUME bad # {} PROVE FALSE
  OBVIOUS
<1>2. PICK t \in bad : \A u \in bad : u \subseteq t => u = t
  <2>1. bad \in SUBSET SUBSET S
    OBVIOUS
  <2> HIDE DEF bad
  <2> QED BY <1>1, <2>1, SmallestSubset
<1>3. PICK y \in t : Sum(t) # f[y] + Sum(t \ {y})
  BY <1>2
<1> DEFINE a == Any(t)
<1>4. /\ a \in t /\ IsFiniteSet(t) /\ IsFiniteSet(t \ {y})
      /\ \A u \in SUBSET S : Sum(u) \in Nat
  BY <1>2, <1>3, AnyFacts, FS_Subset, SumType
<1> HIDE DEF Sum
<1>5. Sum(t) = f[a] + Sum(t \ {a})
  BY <1>3, <1>4, SumUnfolds DEF Sum
<1>6. a # y
  BY <1>3, <1>5
<1>7. t \ {a} \notin bad /\ t \ {y} \notin bad /\ (t \ {a}) \ {y} = (t \ {y}) \ {a}
  BY <1>2, <1>3, <1>4
<1>8. Sum(t \ {a}) = f[y] + Sum((t \ {a}) \ {y})
  BY <1>2, <1>3, <1>6, <1>7
<1>9. Sum(t \ {y}) = f[a] + Sum((t \ {a}) \ {y})
  BY <1>2, <1>4, <1>6, <1>7
<1>10. f[a] \in Nat /\ f[y] \in Nat /\ Sum((t \ {a}) \ {y}) \in Nat
  BY <1>2, <1>3, <1>4
<1> QED BY <1>3, <1>5, <1>8, <1>9, <1>10

LEMMA SumLooksAtItsSet ==
  ASSUME NEW S, IsFiniteSet(S), NEW f, NEW g, \A x \in S : f[x] = g[x]
  PROVE  SumFunctionOnSet(f, S) = SumFunctionOnSet(g, S)
<1> DEFINE bad == {s \in SUBSET S : SumFunctionOnSet(f, s) # SumFunctionOnSet(g, s)}
<1>1. SUFFICES ASSUME bad # {} PROVE FALSE
  OBVIOUS
<1>2. PICK s \in bad : \A t \in bad : t \subseteq s => t = s
  <2>1. bad \in SUBSET SUBSET S
    OBVIOUS
  <2> HIDE DEF bad
  <2> QED BY <1>1, <2>1, SmallestSubset
<1>3. IsFiniteSet(s)
  BY <1>2, FS_Subset
<1>4. s # {} => /\ f[Any(s)] = g[Any(s)]
               /\ SumFunctionOnSet(f, s \ {Any(s)}) = SumFunctionOnSet(g, s \ {Any(s)})
  BY <1>2, AnyFacts
<1>5. SumFunctionOnSet(f, s) = SumFunctionOnSet(g, s)
  BY <1>3, <1>4, SumUnfolds
<1> QED BY <1>2, <1>5

LEMMA SumOfFewer ==
  ASSUME NEW S, IsFiniteSet(S), NEW f, \A x \in S : f[x] \in Nat, NEW T \in SUBSET S
  PROVE  SumFunctionOnSet(f, T) <= SumFunctionOnSet(f, S)
<1> DEFINE Sum(t) == SumFunctionOnSet(f, t)
           bad == {s \in SUBSET S : T \subseteq s /\ ~(Sum(T) <= Sum(s))}
<1>1. SUFFICES ASSUME bad # {} PROVE FALSE
  OBVIOUS
<1>2. PICK s \in bad : \A t \in bad : t \subseteq s => t = s
  <2>1. bad \in SUBSET SUBSET S
    OBVIOUS
  <2> HIDE DEF bad
  <2> QED BY <1>1, <2>1, SmallestSubset
<1>3. \A u \in SUBSET S : Sum(u) \in Nat
  BY SumType
<1>4. PICK x \in s : x \notin T
  <2>1. Sum(T) \in Nat => Sum(T) <= Sum(T)
    OBVIOUS
  <2>2. T # s
    BY <1>2, <1>3, <2>1
  <2> QED BY <1>2, <2>2
<1>5. Sum(s) = f[x] + Sum(s \ {x})
  BY <1>2, SumTakesAny
<1> HIDE DEF Sum
<1>6. Sum(T) <= Sum(s \ {x})
  BY <1>2, <1>4
<1> QED BY <1>2, <1>3, <1>5, <1>6

-----------------------------------------------------------------------------
(* What the proofs below need of sums of functions.                           *)

LEMMA SumOfNothing == \A f : DOMAIN f = {} => SumFunction(f) = 0
BY SumUnfolds, FS_EmptySet DEF SumFunction

LEMMA SumGrows ==
  ASSUME NEW S, IsFiniteSet(S), NEW x, x \notin S,
         NEW f \in [S -> Nat], NEW g \in [S \cup {x} -> Nat], \A y \in S : g[y] = f[y]
  PROVE  SumFunction(g) = SumFunction(f) + g[x] /\ SumFunction(f) \in Nat
<1> DEFINE T == S \cup {x}
<1>1. IsFiniteSet(T) /\ T \ {x} = S
  BY FS_AddElement
<1>2. SumFunctionOnSet(g, T) = g[x] + SumFunctionOnSet(g, S)
  BY <1>1, SumTakesAny
<1>3. SumFunctionOnSet(g, S) = SumFunctionOnSet(f, S)
  BY SumLooksAtItsSet
<1>4. SumFunctionOnSet(f, S) \in Nat
  BY SumType
<1> QED BY <1>2, <1>3, <1>4 DEF SumFunction

LEMMA SumShrinks ==
  ASSUME NEW S, IsFiniteSet(S), NEW T \in SUBSET S,
         NEW f \in [S -> Nat], NEW g \in [T -> Nat], \A y \in T : g[y] = f[y]
  PROVE  SumFunction(g) <= SumFunction(f) /\ SumFunction(g) \in Nat
<1>1. SumFunctionOnSet(g, T) = SumFunctionOnSet(f, T)
  BY FS_Subset, SumLooksAtItsSet
<1>2. SumFunctionOnSet(f, T) <= SumFunctionOnSet(f, S) /\ SumFunctionOnSet(f, T) \in Nat
  BY SumOfFewer, SumType
<1> QED BY <1>1, <1>2 DEF SumFunction

-----------------------------------------------------------------------------
(* The tables. *)

WorkerRow == [status : WorkerStatus, cap : Capability \cup {NoCapability}, expires : Nat]

TaskRow == [state : TaskState, attempt : Nat, lease : Nat,
            worker : Worker \cup {NoWorker}, completed : Nat]

LeaseRow == [task : Task, worker : Worker, attempt : Nat \ {0},
             device : Device \cup {NoDevice}, state : LeaseState, expires : Nat]

Tables == [worker : [Worker -> WorkerRow], owner : [Device -> Worker \cup {NoWorker}],
           task : [Task -> TaskRow], lease : Seq(LeaseRow), order : Seq(Task)]

Holding == {"leased", "running"}

(* A task that is held points to an active lease of it, any other to none;    *)
(* a complete task points to the completed lease of its last attempt.         *)
TaskShape(s) ==
  \A t \in Task :
    /\ s.task[t].state \in Holding =>
         /\ s.task[t].lease \in DOMAIN s.lease
         /\ s.lease[s.task[t].lease].state = "active"
         /\ s.lease[s.task[t].lease].task = t
         /\ s.lease[s.task[t].lease].worker = s.task[t].worker
    /\ s.task[t].state \notin Holding => s.task[t].lease = 0
    /\ s.task[t].state # "absent" => s.task[t].attempt # 0
    /\ s.task[t].state = "complete" =>
         /\ s.task[t].completed \in DOMAIN s.lease
         /\ s.lease[s.task[t].completed].state = "completed"
         /\ s.lease[s.task[t].completed].task = t
         /\ s.lease[s.task[t].completed].attempt = s.task[t].attempt

(* An active lease is the one of its task and attempt, and its worker is      *)
(* active with the device it was granted on.                                  *)
Held(l, lease, task, worker) ==
  /\ task.lease = l /\ task.state \in Holding /\ task.attempt = lease.attempt
  /\ worker.status = "active"
  /\ lease.device # NoDevice => worker.cap.gpu /\ worker.cap.device = lease.device

LeaseShape(s) ==
  \A l \in DOMAIN s.lease :
    s.lease[l].state = "active" =>
      Held(l, s.lease[l], s.task[s.lease[l].task], s.worker[s.lease[l].worker])

(* An active worker has the capabilities it declared, and owns its device. *)
WorkerShape(s) ==
  \A w \in Worker :
    s.worker[w].status = "active" =>
      /\ s.worker[w].cap \in Capability
      /\ s.worker[w].cap.gpu => s.owner[s.worker[w].cap.device] = w

(* No lease is of a later attempt than its task; the last attempt has one     *)
(* only while it is held, or once the task failed or was completed by it.     *)
Past(l, lease, task) ==
  /\ task.state # "absent"
  /\ lease.attempt <= task.attempt
  /\ lease.attempt = task.attempt =>
       \/ lease.state = "active"
       \/ task.state = "failed"
       \/ task.state = "complete" /\ task.completed = l

History(s) ==
  \A l \in DOMAIN s.lease : Past(l, s.lease[l], s.task[s.lease[l].task])

(* The leases of a task, in the order they were granted, are of increasing    *)
(* attempts.                                                                  *)
Increasing(s) ==
  \A l, m \in DOMAIN s.lease :
    s.lease[l].task = s.lease[m].task /\ l < m => s.lease[l].attempt < s.lease[m].attempt

(* The leases a worker holds fit what it declared.                            *)
Fits(s, w) ==
  LeasesOf(s, w) # {} =>
    /\ Cardinality(LeasesOf(s, w)) <= Slots(s.worker[w].cap)
    /\ ReservedMemory(s, w) <= s.worker[w].cap.memory
    /\ ReservedGpuMemory(s, w) <= s.worker[w].cap.gpuMemory

Capacity(s) == \A w \in Worker : Fits(s, w)

TableInv(s) ==
  /\ s \in Tables
  /\ TaskShape(s) /\ LeaseShape(s) /\ WorkerShape(s)
  /\ History(s) /\ Increasing(s) /\ Capacity(s)

(* What a transaction makes of tables that satisfy TableInv. *)
Step(s, r) ==
  /\ TableInv(r)
  /\ \A t \in Task : s.task[t].state \in {"complete", "failed"} => r.task[t] = s.task[t]
  /\ Len(s.lease) <= Len(r.lease)
  /\ \A l \in DOMAIN s.lease : r.lease[l].worker = s.lease[l].worker

LEMMA TablesFacts ==
  ASSUME NEW s \in Tables
  PROVE  /\ s.worker \in [Worker -> WorkerRow]
         /\ s.owner \in [Device -> Worker \cup {NoWorker}]
         /\ s.task \in [Task -> TaskRow]
         /\ s.lease \in Seq(LeaseRow) /\ s.order \in Seq(Task)
         /\ Len(s.lease) \in Nat /\ DOMAIN s.lease = 1 .. Len(s.lease)
         /\ \A l \in DOMAIN s.lease : s.lease[l] \in LeaseRow
         /\ \A i \in DOMAIN s.order : s.order[i] \in Task
<1>1. s.lease \in Seq(LeaseRow) /\ s.order \in Seq(Task)
  BY DEF Tables
<1> QED BY <1>1, LenProperties, ElementOfSeq DEF Tables

LEMMA SameLength ==
  ASSUME NEW q \in Seq(LeaseRow), NEW f \in [DOMAIN q -> LeaseRow]
  PROVE  f \in Seq(LeaseRow) /\ DOMAIN f = DOMAIN q /\ Len(f) = Len(q)
<1>1. DOMAIN q = 1 .. Len(q) /\ Len(q) \in Nat
  BY LenProperties
<1>2. f \in Seq(LeaseRow)
  BY <1>1, IsASeq
<1>3. DOMAIN f = 1 .. Len(f) /\ Len(f) \in Nat
  BY <1>2, LenProperties
<1> QED BY <1>1, <1>2, <1>3

LEMMA StepToItself == \A s : TableInv(s) => Step(s, s)
BY TablesFacts DEF Step, TableInv

LEMMA StepsCompose ==
  ASSUME NEW s, NEW m, NEW r, TableInv(s), Step(s, m), Step(m, r)
  PROVE  Step(s, r)
<1>1. /\ Len(s.lease) \in Nat /\ Len(m.lease) \in Nat /\ Len(r.lease) \in Nat
      /\ DOMAIN s.lease = 1 .. Len(s.lease) /\ DOMAIN m.lease = 1 .. Len(m.lease)
  BY TablesFacts DEF Step, TableInv
<1> QED BY <1>1 DEF Step

LEMMA EmptyIsSound == TableInv(EmptyTables)
<1>1. EmptyTables \in Tables
  BY EmptySeq DEF EmptyTables, Tables, WorkerRow, TaskRow, WorkerStatus, TaskState
<1>2. EmptyTables.lease = <<>> /\ DOMAIN <<>> = {}
  BY DEF EmptyTables
<1>3. \A w : LeasesOf(EmptyTables, w) = {}
  BY <1>2 DEF LeasesOf, ActiveLeases
<1> QED BY <1>1, <1>2, <1>3 DEF EmptyTables, TableInv, TaskShape, LeaseShape, WorkerShape,
                          History, Increasing, Holding, Capacity, Fits

-----------------------------------------------------------------------------
(* What leases reserve. *)

LEMMA LeasesAreFinite ==
  ASSUME NEW s \in Tables, NEW w
  PROVE  /\ LeasesOf(s, w) \subseteq DOMAIN s.lease /\ IsFiniteSet(LeasesOf(s, w))
         /\ Cardinality(LeasesOf(s, w)) \in Nat
<1>1. LeasesOf(s, w) \subseteq DOMAIN s.lease /\ DOMAIN s.lease = 1 .. Len(s.lease)
  BY TablesFacts DEF LeasesOf, ActiveLeases
<1>2. IsFiniteSet(1 .. Len(s.lease))
  BY TablesFacts, FS_Interval
<1> QED BY <1>1, <1>2, FS_Subset, FS_CardinalityType

LEMMA NeedsAreNumbers ==
  ASSUME NEW s \in Tables, NEW S \in SUBSET DOMAIN s.lease
  PROVE  /\ [l \in S |-> Need[s.lease[l].task].memory] \in [S -> Nat]
         /\ [l \in S |-> Need[s.lease[l].task].gpuMemory] \in [S -> Nat]
BY TablesFacts, NeedAssumption DEF LeaseRow

LEMMA HolderFacts ==
  ASSUME NEW s, TableInv(s), NEW w \in Worker, LeasesOf(s, w) # {}
  PROVE  s.worker[w].status = "active" /\ s.worker[w].cap \in Capability
<1>1. PICK l \in DOMAIN s.lease : s.lease[l].state = "active" /\ s.lease[l].worker = w
  BY DEF LeasesOf, ActiveLeases
<1>2. s.worker[w].status = "active"
  BY <1>1 DEF TableInv, LeaseShape, Held
<1> QED BY <1>2 DEF TableInv, WorkerShape

LEMMA SlotsType == \A cap \in Capability : Slots(cap) \in Nat
BY CapabilityAssumption DEF Slots

(* The active leases of r are leases of s that were active, with their task,  *)
(* their worker and its capabilities.                                         *)
Fewer(s, r) ==
  \A l \in ActiveLeases(r) :
    /\ l \in ActiveLeases(s)
    /\ r.lease[l].task = s.lease[l].task /\ r.lease[l].worker = s.lease[l].worker
    /\ r.worker[s.lease[l].worker].cap = s.worker[s.lease[l].worker].cap

LEMMA FewerFit ==
  ASSUME NEW s, TableInv(s), NEW r \in Tables, Fewer(s, r)
  PROVE  Capacity(r)
<1> SUFFICES ASSUME NEW w \in Worker, LeasesOf(r, w) # {}
             PROVE  Fits(r, w)!2
  BY DEF Capacity, Fits
<1> DEFINE S == LeasesOf(s, w)
           T == LeasesOf(r, w)
           Memory(q) == [l \in LeasesOf(q, w) |-> Need[q.lease[l].task].memory]
           GpuMemory(q) == [l \in LeasesOf(q, w) |-> Need[q.lease[l].task].gpuMemory]
<1>1. /\ T \subseteq S /\ \A l \in T : r.lease[l].task = s.lease[l].task
      /\ r.worker[w].cap = s.worker[w].cap
  BY DEF Fewer, LeasesOf, ActiveLeases
<1>2. /\ s \in Tables /\ IsFiniteSet(S)
      /\ Cardinality(S) \in Nat /\ Cardinality(T) \in Nat
  BY LeasesAreFinite DEF TableInv
<1>3. S # {} /\ Fits(s, w) /\ s.worker[w].cap \in Capability
  BY <1>1, HolderFacts DEF TableInv, Capacity
<1>4. Cardinality(T) <= Cardinality(S)
  BY <1>1, <1>2, FS_Subset
<1>5. /\ Memory(s) \in [S -> Nat] /\ Memory(r) \in [T -> Nat]
      /\ GpuMemory(s) \in [S -> Nat] /\ GpuMemory(r) \in [T -> Nat]
  BY <1>2, LeasesAreFinite, NeedsAreNumbers
<1>6. \A l \in T : Memory(r)[l] = Memory(s)[l] /\ GpuMemory(r)[l] = GpuMemory(s)[l]
  BY <1>1
<1>13. T \in SUBSET S
  BY <1>1
<1> HIDE DEF Memory, GpuMemory, S, T
<1>14. /\ \A l \in T : Memory(r)[l] = Memory(s)[l]
       /\ \A l \in T : GpuMemory(r)[l] = GpuMemory(s)[l]
  BY <1>6
<1>7. /\ SumFunction(Memory(r)) <= SumFunction(Memory(s))
      /\ SumFunction(Memory(r)) \in Nat /\ SumFunction(Memory(s)) \in Nat
  <2>1. SumFunction(Memory(r)) <= SumFunction(Memory(s)) /\ SumFunction(Memory(r)) \in Nat
    BY <1>2, <1>5, <1>13, <1>14, SumShrinks, Zenon
  <2>2. SumFunction(Memory(s)) \in Nat
    BY <1>2, <1>5, SumShrinks, S \in SUBSET S, Zenon
  <2> QED BY <2>1, <2>2
<1>8. /\ SumFunction(GpuMemory(r)) <= SumFunction(GpuMemory(s))
      /\ SumFunction(GpuMemory(r)) \in Nat /\ SumFunction(GpuMemory(s)) \in Nat
  <2>1. /\ SumFunction(GpuMemory(r)) <= SumFunction(GpuMemory(s))
        /\ SumFunction(GpuMemory(r)) \in Nat
    BY <1>2, <1>5, <1>13, <1>14, SumShrinks, Zenon
  <2>2. SumFunction(GpuMemory(s)) \in Nat
    BY <1>2, <1>5, SumShrinks, S \in SUBSET S, Zenon
  <2> QED BY <2>1, <2>2
<1>9. \A q : /\ ReservedMemory(q, w) = SumFunction(Memory(q))
             /\ ReservedGpuMemory(q, w) = SumFunction(GpuMemory(q))
  BY DEF ReservedMemory, ReservedGpuMemory, Memory, GpuMemory
<1>10. /\ s.worker[w].cap.memory \in Nat /\ s.worker[w].cap.gpuMemory \in Nat
       /\ Slots(s.worker[w].cap) \in Nat
  BY <1>3, CapabilityAssumption, SlotsType
<1>11. /\ Cardinality(S) <= Slots(s.worker[w].cap)
       /\ ReservedMemory(s, w) <= s.worker[w].cap.memory
       /\ ReservedGpuMemory(s, w) <= s.worker[w].cap.gpuMemory
  BY <1>3 DEF Fits, S
<1>12. /\ Cardinality(T) <= Slots(r.worker[w].cap)
       /\ ReservedMemory(r, w) <= r.worker[w].cap.memory
       /\ ReservedGpuMemory(r, w) <= r.worker[w].cap.gpuMemory
  BY <1>1, <1>2, <1>4, <1>7, <1>8, <1>9, <1>10, <1>11
<1> QED BY <1>12 DEF T

-----------------------------------------------------------------------------
(* Reaping and retirement. *)

(* r is s without the workers in gone and without the leases in ended. *)
Released(s, r, gone, ended) ==
  /\ r \in Tables
  /\ DOMAIN r.lease = DOMAIN s.lease /\ Len(r.lease) = Len(s.lease)
  /\ \A w \in gone : r.worker[w].status # "active"
  /\ \A w \in Worker \ gone : r.worker[w] = s.worker[w]
  /\ \A d \in Device : r.owner[d] = IF s.owner[d] \in gone THEN NoWorker ELSE s.owner[d]
  /\ \A l \in ended : /\ r.lease[l].state = "ended"
                      /\ r.lease[l].task = s.lease[l].task
                      /\ r.lease[l].attempt = s.lease[l].attempt
                      /\ r.lease[l].worker = s.lease[l].worker
  /\ \A l \in DOMAIN s.lease \ ended : r.lease[l] = s.lease[l]
  /\ \A t \in Task :
       IF s.task[t].lease \in ended
         THEN /\ r.task[t].state = "pending" /\ r.task[t].lease = 0
              /\ r.task[t].attempt = s.task[t].attempt + 1
         ELSE r.task[t] = s.task[t]

LEMMA ReleaseStep ==
  ASSUME NEW s, TableInv(s), NEW r, NEW gone \in SUBSET Worker,
         NEW ended \in SUBSET ActiveLeases(s),
         \A l \in ActiveLeases(s) : s.lease[l].worker \in gone => l \in ended,
         Released(s, r, gone, ended)
  PROVE  Step(s, r)
<1> USE DEF Released
<1>1. s \in Tables /\ r \in Tables
  BY DEF TableInv
<1>2. \A l \in DOMAIN s.lease : s.lease[l] \in LeaseRow /\ s.lease[l].task \in Task
                                /\ s.lease[l].attempt \in Nat /\ s.lease[l].worker \in Worker
  BY <1>1, TablesFacts DEF LeaseRow
<1>3. \A t \in Task : s.task[t] \in TaskRow /\ s.task[t].attempt \in Nat
  BY <1>1, TablesFacts DEF TaskRow
<1>4. \A l \in DOMAIN s.lease : /\ r.lease[l].task = s.lease[l].task
                                /\ r.lease[l].attempt = s.lease[l].attempt
                                /\ r.lease[l].worker = s.lease[l].worker
  OBVIOUS
<1>5. \A l \in ended : /\ l \in DOMAIN s.lease /\ l # 0 /\ s.lease[l].state = "active"
                       /\ s.task[s.lease[l].task].lease = l
  BY <1>1, TablesFacts DEF TableInv, LeaseShape, ActiveLeases, Held
<1>6. \A t \in Task : s.task[t].lease \in ended => s.task[t].state \in Holding
  BY <1>5 DEF TableInv, TaskShape
<1>7. TaskShape(r)
  <2> SUFFICES ASSUME NEW t \in Task
               PROVE  TaskShape(r)!(t)
    BY DEF TaskShape
  <2>1. CASE s.task[t].lease \in ended
    BY <2>1, <1>3 DEF Holding
  <2>2. CASE s.task[t].lease \notin ended
    <3>1. r.task[t] = s.task[t]
      BY <2>2
    <3>2. s.task[t].state = "complete" => s.task[t].completed \notin ended
      BY <1>5 DEF TableInv, TaskShape
    <3> QED BY <3>1, <3>2, <2>2 DEF TableInv, TaskShape
  <2> QED BY <2>1, <2>2
<1>8. LeaseShape(r)
  <2> SUFFICES ASSUME NEW l \in DOMAIN r.lease, r.lease[l].state = "active"
               PROVE  Held(l, r.lease[l], r.task[r.lease[l].task], r.worker[r.lease[l].worker])
    BY DEF LeaseShape
  <2>1. l \in DOMAIN s.lease /\ l \notin ended /\ r.lease[l] = s.lease[l]
    OBVIOUS
  <2>2. l \in ActiveLeases(s) /\ s.lease[l].worker \in Worker \ gone
    BY <2>1, <1>2 DEF ActiveLeases
  <2>3. r.worker[s.lease[l].worker] = s.worker[s.lease[l].worker]
    BY <2>2
  <2>4. Held(l, s.lease[l], s.task[s.lease[l].task], s.worker[s.lease[l].worker])
    BY <2>1 DEF TableInv, LeaseShape
  <2>5. s.task[s.lease[l].task].lease = l
    BY <2>4 DEF Held
  <2>6. r.task[s.lease[l].task] = s.task[s.lease[l].task]
    BY <2>1, <2>5, <1>2
  <2> HIDE DEF Released
  <2> QED BY <2>1, <2>3, <2>4, <2>6
<1>9. WorkerShape(r)
  <2> SUFFICES ASSUME NEW w \in Worker, r.worker[w].status = "active"
               PROVE  WorkerShape(r)!(w)!2
    BY DEF WorkerShape
  <2>1. w \notin gone /\ r.worker[w] = s.worker[w]
    OBVIOUS
  <2> QED BY <2>1, CapabilityAssumption DEF TableInv, WorkerShape
<1>10. History(r)
  <2> SUFFICES ASSUME NEW l \in DOMAIN s.lease
               PROVE  Past(l, r.lease[l], r.task[r.lease[l].task])
    BY DEF History
  <2> DEFINE t == s.lease[l].task
  <2>1. Past(l, s.lease[l], s.task[t])
    BY DEF TableInv, History
  <2>2. /\ t \in Task /\ r.lease[l].task = t /\ r.lease[l].attempt = s.lease[l].attempt
        /\ s.lease[l].attempt \in Nat /\ s.task[t].attempt \in Nat
    BY <1>2, <1>3, <1>4
  <2>3. CASE s.task[t].lease \in ended
    <3>1. r.task[t].state = "pending" /\ r.task[t].attempt = s.task[t].attempt + 1
      BY <2>2, <2>3
    <3> HIDE DEF Released, t
    <3> QED BY <3>1, <2>1, <2>2 DEF Past
  <2>4. CASE s.task[t].lease \notin ended
    <3>1. r.lease[l] = s.lease[l] /\ r.task[t] = s.task[t]
      BY <2>2, <2>4, <1>5
    <3> HIDE DEF Released
    <3> QED BY <3>1, <2>1
  <2> QED BY <2>3, <2>4
<1>13. Increasing(r)
  BY <1>4 DEF TableInv, Increasing
<1>11. \A t \in Task : s.task[t].state \in {"complete", "failed"} => r.task[t] = s.task[t]
  BY <1>6 DEF Holding
<1>12. Len(s.lease) <= Len(r.lease)
  BY <1>1, TablesFacts
<1>14. Capacity(r)
  <2>1. ASSUME NEW l \in ActiveLeases(r)
        PROVE  Fewer(s, r)!(l)
    <3>1. l \in DOMAIN s.lease /\ l \notin ended /\ r.lease[l] = s.lease[l]
      BY DEF ActiveLeases
    <3>2. l \in ActiveLeases(s) /\ s.lease[l].worker \in Worker \ gone
      BY <3>1, <1>2 DEF ActiveLeases
    <3> QED BY <3>1, <3>2
  <2> QED BY <2>1, <1>1, FewerFit DEF Fewer
<1>15. \A l \in DOMAIN s.lease : r.lease[l].worker = s.lease[l].worker
  BY <1>4
<1> HIDE DEF Released
<1> QED BY <1>1, <1>7, <1>8, <1>9, <1>10, <1>11, <1>12, <1>13, <1>14, <1>15 DEF Step, TableInv

(* What the primitives leave, column by column. *)

LEMMA ClosedFacts ==
  ASSUME NEW row \in LeaseRow, NEW state \in LeaseState
  PROVE  /\ Closed(row, state) \in LeaseRow
         /\ Closed(row, state).state = state
         /\ Closed(row, state).task = row.task
         /\ Closed(row, state).attempt = row.attempt
         /\ Closed(row, state).worker = row.worker
BY DEF Closed, LeaseRow

LEMMA RequeuedFacts ==
  ASSUME NEW row \in TaskRow
  PROVE  /\ Requeued(row) \in TaskRow
         /\ Requeued(row).state = "pending" /\ Requeued(row).lease = 0
         /\ Requeued(row).attempt = row.attempt + 1
<1>1. row.attempt + 1 \in Nat /\ NoWorker \in Worker \cup {NoWorker} /\ "pending" \in TaskState
  BY DEF TaskRow, TaskState
<1> QED BY <1>1 DEF Requeued, TaskRow

LEMMA MarkWorkersColumns ==
  ASSUME NEW s \in Tables, NEW gone, NEW status \in WorkerStatus \ {"active"}
  PROVE  LET r == MarkWorkers(s, gone, status)
         IN  /\ r \in Tables
             /\ r.owner = s.owner /\ r.task = s.task /\ r.lease = s.lease
             /\ \A w \in Worker : IF w \in gone THEN r.worker[w].status = status
                                  ELSE r.worker[w] = s.worker[w]
<1> DEFINE marked == [w \in Worker |-> IF w \in gone
              THEN [status |-> status, cap |-> NoCapability, expires |-> 0] ELSE s.worker[w]]
<1>1. marked \in [Worker -> WorkerRow]
  BY TablesFacts DEF WorkerRow
<1>2. \A w \in Worker : IF w \in gone THEN marked[w].status = status
                        ELSE marked[w] = s.worker[w]
  OBVIOUS
<1>3. MarkWorkers(s, gone, status) = [s EXCEPT !.worker = marked]
  BY DEF MarkWorkers
<1> HIDE DEF marked
<1> QED BY <1>1, <1>2, <1>3 DEF Tables

LEMMA FreeDevicesColumns ==
  ASSUME NEW s \in Tables, NEW gone
  PROVE  LET r == FreeDevices(s, gone)
         IN  /\ r \in Tables
             /\ r.worker = s.worker /\ r.task = s.task /\ r.lease = s.lease
             /\ r.order = s.order
             /\ \A d \in Device :
                  r.owner[d] = IF s.owner[d] \in gone THEN NoWorker ELSE s.owner[d]
<1> DEFINE freed == [d \in Device |-> IF s.owner[d] \in gone THEN NoWorker ELSE s.owner[d]]
<1>1. freed \in [Device -> Worker \cup {NoWorker}]
  BY TablesFacts
<1>2. FreeDevices(s, gone) = [s EXCEPT !.owner = freed]
  BY DEF FreeDevices
<1>3. \A d \in Device : freed[d] = IF s.owner[d] \in gone THEN NoWorker ELSE s.owner[d]
  OBVIOUS
<1> HIDE DEF freed
<1> QED BY <1>1, <1>2, <1>3 DEF Tables

LEMMA EndLeasesColumns ==
  ASSUME NEW s \in Tables, NEW ended \in SUBSET DOMAIN s.lease
  PROVE  LET r == EndLeases(s, ended)
         IN  /\ r \in Tables
             /\ r.worker = s.worker /\ r.owner = s.owner
             /\ DOMAIN r.lease = DOMAIN s.lease /\ Len(r.lease) = Len(s.lease)
             /\ \A l \in ended : /\ r.lease[l].state = "ended"
                                 /\ r.lease[l].task = s.lease[l].task
                                 /\ r.lease[l].attempt = s.lease[l].attempt
                                 /\ r.lease[l].worker = s.lease[l].worker
             /\ \A l \in DOMAIN s.lease \ ended : r.lease[l] = s.lease[l]
             /\ \A t \in Task :
                  IF s.task[t].lease \in ended
                    THEN /\ r.task[t].state = "pending" /\ r.task[t].lease = 0
                         /\ r.task[t].attempt = s.task[t].attempt + 1
                    ELSE r.task[t] = s.task[t]
<1> DEFINE leases == [l \in DOMAIN s.lease |-> IF l \in ended
              THEN Closed(s.lease[l], "ended") ELSE s.lease[l]]
           tasks == [t \in Task |-> IF s.task[t].lease \in ended
              THEN Requeued(s.task[t]) ELSE s.task[t]]
<1>1. EndLeases(s, ended) = [s EXCEPT !.lease = leases, !.task = tasks]
  BY DEF EndLeases
<1>2. /\ leases \in [DOMAIN s.lease -> LeaseRow]
      /\ \A l \in ended : /\ leases[l].state = "ended"
                          /\ leases[l].task = s.lease[l].task
                          /\ leases[l].attempt = s.lease[l].attempt
                          /\ leases[l].worker = s.lease[l].worker
      /\ \A l \in DOMAIN s.lease \ ended : leases[l] = s.lease[l]
  BY TablesFacts, ClosedFacts DEF LeaseState
<1>3. leases \in Seq(LeaseRow) /\ DOMAIN leases = DOMAIN s.lease /\ Len(leases) = Len(s.lease)
  BY <1>2, SameLength, TablesFacts
<1>4. /\ tasks \in [Task -> TaskRow]
      /\ \A t \in Task :
           IF s.task[t].lease \in ended
             THEN /\ tasks[t].state = "pending" /\ tasks[t].lease = 0
                  /\ tasks[t].attempt = s.task[t].attempt + 1
             ELSE tasks[t] = s.task[t]
  BY TablesFacts, RequeuedFacts
<1> HIDE DEF leases, tasks
<1>5. /\ EndLeases(s, ended) \in Tables
      /\ EndLeases(s, ended).worker = s.worker /\ EndLeases(s, ended).owner = s.owner
      /\ EndLeases(s, ended).lease = leases /\ EndLeases(s, ended).task = tasks
  BY <1>1, <1>3, <1>4 DEF Tables
<1> QED BY <1>2, <1>3, <1>4, <1>5

LEMMA ReapStep ==
  ASSUME NEW s, TableInv(s), NEW now \in Nat
  PROVE  /\ Step(s, Reap(s, now))
         /\ \E gone : \E ended \in SUBSET ActiveLeases(s) :
               Released(s, Reap(s, now), gone, ended)
<1> DEFINE lost == LostWorkers(s, now)
           ended == {l \in ActiveLeases(s) : \/ s.lease[l].worker \in lost
                                             \/ s.lease[l].expires <= now}
           marked == MarkWorkers(s, lost, "lost")
           freed == FreeDevices(marked, lost)
           r == EndLeases(freed, ended)
<1>1. s \in Tables /\ "lost" \in WorkerStatus \ {"active"}
  BY DEF TableInv, WorkerStatus
<1>2. /\ lost \in SUBSET Worker /\ ended \in SUBSET ActiveLeases(s)
      /\ ended \in SUBSET DOMAIN s.lease
  BY DEF LostWorkers, ActiveLeases
<1>3. Reap(s, now) = r
  BY DEF Reap
<1>4. \A l \in ActiveLeases(s) : s.lease[l].worker \in lost => l \in ended
  OBVIOUS
<1> HIDE DEF lost, ended, marked, freed, r
<1>5. /\ marked \in Tables
      /\ marked.owner = s.owner /\ marked.task = s.task /\ marked.lease = s.lease
      /\ \A w \in Worker : IF w \in lost THEN marked.worker[w].status = "lost"
                           ELSE marked.worker[w] = s.worker[w]
  BY <1>1, MarkWorkersColumns DEF marked
<1>6. /\ freed \in Tables
      /\ freed.worker = marked.worker /\ freed.task = s.task /\ freed.lease = s.lease
      /\ \A d \in Device :
           freed.owner[d] = IF s.owner[d] \in lost THEN NoWorker ELSE s.owner[d]
  BY <1>5, FreeDevicesColumns DEF freed
<1>7. /\ r \in Tables
      /\ r.worker = freed.worker /\ r.owner = freed.owner
      /\ DOMAIN r.lease = DOMAIN s.lease /\ Len(r.lease) = Len(s.lease)
      /\ \A l \in ended : /\ r.lease[l].state = "ended"
                          /\ r.lease[l].task = s.lease[l].task
                          /\ r.lease[l].attempt = s.lease[l].attempt
                          /\ r.lease[l].worker = s.lease[l].worker
      /\ \A l \in DOMAIN s.lease \ ended : r.lease[l] = s.lease[l]
      /\ \A t \in Task :
           IF s.task[t].lease \in ended
             THEN /\ r.task[t].state = "pending" /\ r.task[t].lease = 0
                  /\ r.task[t].attempt = s.task[t].attempt + 1
             ELSE r.task[t] = s.task[t]
  BY <1>2, <1>6, EndLeasesColumns DEF r
<1>8. Released(s, r, lost, ended)
  BY <1>2, <1>5, <1>6, <1>7 DEF Released
<1> QED BY <1>2, <1>3, <1>4, <1>8, ReleaseStep

LEMMA RetireStep ==
  ASSUME NEW s, TableInv(s), NEW w \in Worker
  PROVE  /\ Step(s, Retire(s, w))
         /\ \E gone : \E ended \in SUBSET ActiveLeases(s) :
              Released(s, Retire(s, w), gone, ended)
<1> DEFINE ended == LeasesOf(s, w)
           closed == EndLeases(s, ended)
           marked == MarkWorkers(closed, {w}, "retired")
           r == FreeDevices(marked, {w})
<1>1. s \in Tables /\ "retired" \in WorkerStatus \ {"active"}
  BY DEF TableInv, WorkerStatus
<1>2. ended \in SUBSET ActiveLeases(s) /\ ended \in SUBSET DOMAIN s.lease
  BY DEF LeasesOf, ActiveLeases
<1>3. Retire(s, w) = r
  BY DEF Retire
<1>4. \A l \in ActiveLeases(s) : s.lease[l].worker \in {w} => l \in ended
  BY DEF LeasesOf
<1> HIDE DEF ended, closed, marked, r
<1>5. /\ closed \in Tables
      /\ closed.worker = s.worker /\ closed.owner = s.owner
      /\ DOMAIN closed.lease = DOMAIN s.lease /\ Len(closed.lease) = Len(s.lease)
      /\ \A l \in ended : /\ closed.lease[l].state = "ended"
                          /\ closed.lease[l].task = s.lease[l].task
                          /\ closed.lease[l].attempt = s.lease[l].attempt
                          /\ closed.lease[l].worker = s.lease[l].worker
      /\ \A l \in DOMAIN s.lease \ ended : closed.lease[l] = s.lease[l]
      /\ \A t \in Task :
           IF s.task[t].lease \in ended
             THEN /\ closed.task[t].state = "pending" /\ closed.task[t].lease = 0
                  /\ closed.task[t].attempt = s.task[t].attempt + 1
             ELSE closed.task[t] = s.task[t]
  BY <1>1, <1>2, EndLeasesColumns DEF closed
<1>6. /\ marked \in Tables
      /\ marked.owner = s.owner /\ marked.task = closed.task /\ marked.lease = closed.lease
      /\ \A v \in Worker : IF v \in {w} THEN marked.worker[v].status = "retired"
                           ELSE marked.worker[v] = s.worker[v]
  BY <1>1, <1>5, MarkWorkersColumns DEF marked
<1>7. /\ r \in Tables
      /\ r.worker = marked.worker /\ r.task = closed.task /\ r.lease = closed.lease
      /\ \A d \in Device : r.owner[d] = IF s.owner[d] \in {w} THEN NoWorker ELSE s.owner[d]
  BY <1>6, FreeDevicesColumns DEF r
<1>8. Released(s, r, {w}, ended)
  BY <1>2, <1>5, <1>6, <1>7 DEF Released
<1> QED BY <1>2, <1>3, <1>4, <1>8, ReleaseStep

-----------------------------------------------------------------------------
(* Submission, registration, start and renewal. *)

LEMMA SubmitStep ==
  ASSUME NEW s, TableInv(s), NEW t \in Task
  PROVE  LET r == Submit(s, t)
         IN  /\ Step(s, r)
             /\ \/ r = s
                \/ /\ s.task[t].state = "absent" /\ r.task[t].state = "pending"
                   /\ r.task[t].attempt = 1
                   /\ \A u \in Task \ {t} : r.task[u] = s.task[u]
<1>1. CASE s.task[t].state # "absent"
  BY <1>1, StepToItself DEF Submit
<1>2. CASE s.task[t].state = "absent"
  <2> DEFINE r == Submit(s, t)
             row == [s.task[t] EXCEPT !.state = "pending", !.attempt = 1]
  <2>1. s \in Tables /\ s.task[t] \in TaskRow
    BY TablesFacts DEF TableInv
  <2>2. /\ row \in TaskRow /\ row.state = "pending" /\ row.attempt = 1
        /\ row.lease = s.task[t].lease
    BY <2>1 DEF TaskRow, TaskState
  <2>3. r = [s EXCEPT !.task = [s.task EXCEPT ![t] = row], !.order = Append(s.order, t)]
    BY <1>2, <2>1 DEF Submit, Tables
  <2>4. Append(s.order, t) \in Seq(Task)
    BY <2>1, TablesFacts, AppendProperties
  <2> HIDE DEF row, r
  <2>5. /\ r \in Tables /\ r.worker = s.worker /\ r.owner = s.owner /\ r.lease = s.lease
        /\ r.task = [s.task EXCEPT ![t] = row]
    BY <2>1, <2>2, <2>3, <2>4 DEF Tables
  <2>6. r.task[t] = row /\ \A u \in Task \ {t} : r.task[u] = s.task[u]
    BY <2>1, <2>5, TablesFacts
  <2>7. \A l \in DOMAIN s.lease : s.lease[l].task \in Task \ {t}
    BY <1>2, <2>1, TablesFacts DEF TableInv, History, Past, LeaseRow
  <2>8. TaskShape(r) /\ LeaseShape(r) /\ WorkerShape(r) /\ History(r) /\ Increasing(r)
    <3>1. ASSUME NEW u \in Task
          PROVE  TaskShape(r)!(u)
      <4>1. TaskShape(s)!(u)
        BY DEF TableInv, TaskShape
      <4>2. CASE u = t
        BY <1>2, <4>1, <4>2, <2>2, <2>6 DEF Holding
      <4>3. CASE u # t
        <5>1. r.task[u] = s.task[u]
          BY <4>3, <2>6
        <5> QED BY <4>1, <5>1, <2>5
      <4> QED BY <4>2, <4>3
    <3>2. \A l \in DOMAIN s.lease : r.task[s.lease[l].task] = s.task[s.lease[l].task]
      BY <2>6, <2>7
    <3>3. TaskShape(r)
      BY <3>1 DEF TaskShape
    <3>4. LeaseShape(r) /\ History(r)
      BY <2>5, <3>2 DEF TableInv, LeaseShape, History
    <3>5. WorkerShape(r) /\ Increasing(r)
      BY <2>5 DEF TableInv, WorkerShape, Increasing
    <3> QED BY <3>3, <3>4, <3>5
  <2>10. Capacity(r)
    BY <2>5, FewerFit DEF Fewer, ActiveLeases
  <2>9. Step(s, r)
    BY <1>2, <2>1, <2>5, <2>6, <2>8, <2>10, TablesFacts DEF Step, TableInv
  <2> QED BY <1>2, <2>2, <2>6, <2>9 DEF r
<1> QED BY <1>1, <1>2

LEMMA RegisterStep ==
  ASSUME NEW s, TableInv(s), NEW w \in Worker, NEW cap \in Capability,
         NEW now \in Nat, MayRegister(s, w, cap)
  PROVE  Step(s, Register(s, w, cap, now)) /\ Register(s, w, cap, now).task = s.task
<1> DEFINE own == FreeDevices(s, {w})
           row == [status |-> "active", cap |-> cap, expires |-> now + WorkerTimeout]
           owners == IF cap.gpu THEN [own.owner EXCEPT ![cap.device] = w] ELSE own.owner
           r == Register(s, w, cap, now)
<1>1. s \in Tables
  BY DEF TableInv
<1>2. cap.gpu \in BOOLEAN /\ (cap.gpu => cap.device \in Device)
  BY CapabilityAssumption
<1>3. row \in WorkerRow
  <2>1. now + WorkerTimeout \in Nat
    BY TermsAssumption
  <2> QED BY <2>1 DEF WorkerRow, WorkerStatus
<1>4. r = [own EXCEPT !.worker = [own.worker EXCEPT ![w] = row], !.owner = owners]
  BY DEF Register
<1> HIDE DEF own, row, r
<1>5. /\ own \in Tables /\ own.worker = s.worker /\ own.task = s.task
      /\ own.lease = s.lease
      /\ \A d \in Device : own.owner[d] = IF s.owner[d] \in {w} THEN NoWorker ELSE s.owner[d]
  BY <1>1, FreeDevicesColumns DEF own
<1>6. /\ owners \in [Device -> Worker \cup {NoWorker}]
      /\ cap.gpu => owners[cap.device] = w
      /\ \A d \in Device : s.owner[d] \in Worker \ {w} /\ ~(cap.gpu /\ d = cap.device)
                             => owners[d] = s.owner[d]
  BY <1>2, <1>5, TablesFacts
<1> HIDE DEF owners
<1>7. /\ r \in Tables /\ r.task = s.task /\ r.lease = s.lease /\ r.owner = owners
      /\ r.worker = [s.worker EXCEPT ![w] = row]
  BY <1>3, <1>4, <1>5, <1>6, TablesFacts DEF Tables
<1>8. r.worker[w] = row /\ \A v \in Worker \ {w} : r.worker[v] = s.worker[v]
  BY <1>1, <1>7, TablesFacts
<1>9. row.status = "active" /\ row.cap = cap
  BY DEF row
<1>10. WorkerShape(r)
  <2> SUFFICES ASSUME NEW v \in Worker, r.worker[v].status = "active"
               PROVE  WorkerShape(r)!(v)!2
    BY DEF WorkerShape
  <2>1. CASE v = w
    BY <2>1, <1>6, <1>7, <1>8, <1>9
  <2>2. CASE v # w
    <3> DEFINE d == s.worker[v].cap.device
    <3>1. r.worker[v] = s.worker[v] /\ s.worker[v].cap \in Capability
      BY <2>2, <1>8 DEF TableInv, WorkerShape
    <3>2. s.worker[v].cap.gpu => d \in Device /\ s.owner[d] = v
      BY <3>1, <1>8, <2>2, CapabilityAssumption DEF TableInv, WorkerShape
    <3>3. cap.gpu => s.owner[cap.device] \in {NoWorker, w}
      BY DEF MayRegister
    <3>4. s.worker[v].cap.gpu => owners[d] = v
      BY <2>2, <3>2, <3>3, <1>6, NamesAssumption
    <3> QED BY <3>1, <3>4, <1>7
  <2> QED BY <2>1, <2>2
<1>11. LeaseShape(r)
  <2> SUFFICES ASSUME NEW l \in DOMAIN s.lease, s.lease[l].state = "active"
               PROVE  Held(l, s.lease[l], s.task[s.lease[l].task], r.worker[s.lease[l].worker])
    BY <1>7 DEF LeaseShape
  <2>1. Held(l, s.lease[l], s.task[s.lease[l].task], s.worker[s.lease[l].worker])
    BY DEF TableInv, LeaseShape
  <2>2. s.lease[l].worker \in Worker
    BY <1>1, TablesFacts DEF LeaseRow
  <2>3. CASE s.lease[l].worker = w
    <3>1. s.worker[w].cap = cap
      BY <2>3 DEF MayRegister, LeasesOf, ActiveLeases
    <3> QED BY <2>1, <2>3, <3>1, <1>8, <1>9 DEF Held
  <2>4. CASE s.lease[l].worker # w
    <3>1. r.worker[s.lease[l].worker] = s.worker[s.lease[l].worker]
      BY <2>2, <2>4, <1>8
    <3> QED BY <2>1, <3>1
  <2> QED BY <2>3, <2>4
<1>12. TaskShape(r) /\ History(r) /\ Increasing(r)
  <2>1. r.task = s.task /\ r.lease = s.lease
    BY <1>7
  <2>2. TaskShape(r)
    <3> SUFFICES ASSUME NEW t \in Task
                 PROVE  TaskShape(r)!(t)
      BY DEF TaskShape
    <3>1. TaskShape(s)!(t)
      BY DEF TableInv, TaskShape
    <3> QED BY <2>1, <3>1
  <2>3. History(r)
    BY <2>1 DEF TableInv, History
  <2>4. Increasing(r)
    BY <2>1 DEF TableInv, Increasing
  <2> QED BY <2>2, <2>3, <2>4
<1>14. Capacity(r)
  <2>1. ASSUME NEW l \in ActiveLeases(r)
        PROVE  Fewer(s, r)!(l)
    <3>1. l \in ActiveLeases(s) /\ s.lease[l].worker \in Worker
      BY <1>1, <1>7, TablesFacts DEF ActiveLeases, LeaseRow
    <3>2. s.lease[l].worker = w => s.worker[w].cap = cap
      BY <3>1 DEF MayRegister, LeasesOf
    <3> QED BY <3>1, <3>2, <1>7, <1>8, <1>9
  <2> QED BY <2>1, <1>7, FewerFit DEF Fewer
<1>13. Step(s, r)
  BY <1>1, <1>7, <1>10, <1>11, <1>12, <1>14, TablesFacts DEF Step, TableInv
<1> QED BY <1>7, <1>13 DEF r

(* r is s but for times of expiry, and for a held task that was started. *)
Renewed(s, r) ==
  /\ r \in Tables
  /\ r.owner = s.owner
  /\ DOMAIN r.lease = DOMAIN s.lease /\ Len(r.lease) = Len(s.lease)
  /\ \A w \in Worker : /\ r.worker[w].status = s.worker[w].status
                       /\ r.worker[w].cap = s.worker[w].cap
  /\ \A l \in DOMAIN s.lease :
       /\ r.lease[l].task = s.lease[l].task /\ r.lease[l].worker = s.lease[l].worker
       /\ r.lease[l].attempt = s.lease[l].attempt /\ r.lease[l].state = s.lease[l].state
       /\ r.lease[l].device = s.lease[l].device
  /\ \A t \in Task :
       \/ r.task[t] = s.task[t]
       \/ /\ r.task[t].state \in Holding /\ s.task[t].state \in Holding
          /\ r.task[t].lease = s.task[t].lease /\ r.task[t].worker = s.task[t].worker
          /\ r.task[t].attempt = s.task[t].attempt

LEMMA RenewedStep ==
  ASSUME NEW s, TableInv(s), NEW r, Renewed(s, r)
  PROVE  Step(s, r)
<1>1. /\ s \in Tables /\ r \in Tables /\ r.owner = s.owner
      /\ DOMAIN r.lease = DOMAIN s.lease /\ Len(r.lease) = Len(s.lease)
  BY DEF TableInv, Renewed
<1>2. \A l \in DOMAIN s.lease :
        /\ r.lease[l].task = s.lease[l].task /\ r.lease[l].worker = s.lease[l].worker
        /\ r.lease[l].attempt = s.lease[l].attempt /\ r.lease[l].state = s.lease[l].state
        /\ r.lease[l].device = s.lease[l].device
        /\ s.lease[l].task \in Task /\ s.lease[l].worker \in Worker
  BY <1>1, TablesFacts DEF LeaseRow, Renewed
<1>3. \A t \in Task :
        /\ r.task[t].lease = s.task[t].lease /\ r.task[t].worker = s.task[t].worker
        /\ r.task[t].attempt = s.task[t].attempt
        /\ r.task[t].state \in Holding <=> s.task[t].state \in Holding
        /\ r.task[t].state \notin Holding => r.task[t] = s.task[t]
  BY DEF Renewed
<1>4. \A w \in Worker : /\ r.worker[w].status = s.worker[w].status
                        /\ r.worker[w].cap = s.worker[w].cap
  BY DEF Renewed
<1>5. TaskShape(r)
  <2> SUFFICES ASSUME NEW t \in Task
               PROVE  TaskShape(r)!(t)
    BY DEF TaskShape
  <2>1. TaskShape(s)!(t)
    BY DEF TableInv, TaskShape
  <2>2. CASE s.task[t].state \in Holding
    <3>1. /\ r.task[t].state \in Holding
          /\ r.task[t].state # "complete" /\ s.task[t].state # "absent"
      BY <2>2, <1>3 DEF Holding
    <3>2. /\ r.task[t].lease = s.task[t].lease /\ r.task[t].worker = s.task[t].worker
          /\ r.task[t].attempt = s.task[t].attempt
      BY <1>3
    <3> DEFINE l == s.task[t].lease
    <3>3. /\ l \in DOMAIN s.lease /\ s.lease[l].state = "active"
          /\ s.lease[l].task = t /\ s.lease[l].worker = s.task[t].worker
      BY <2>1, <2>2
    <3>4. /\ l \in DOMAIN r.lease /\ r.lease[l].state = "active"
          /\ r.lease[l].task = t /\ r.lease[l].worker = s.task[t].worker
      BY <3>3, <1>1, <1>2
    <3> QED BY <2>1, <3>1, <3>2, <3>4
  <2>3. CASE s.task[t].state \notin Holding
    <3>1. r.task[t] = s.task[t]
      BY <2>3, <1>3
    <3> QED BY <2>1, <2>3, <3>1, <1>1, <1>2
  <2> QED BY <2>2, <2>3
<1>6. LeaseShape(r)
  <2> SUFFICES ASSUME NEW l \in DOMAIN s.lease, s.lease[l].state = "active"
               PROVE  Held(l, r.lease[l], r.task[s.lease[l].task], r.worker[s.lease[l].worker])
    BY <1>1, <1>2 DEF LeaseShape
  <2> DEFINE t == s.lease[l].task
             w == s.lease[l].worker
  <2>1. Held(l, s.lease[l], s.task[t], s.worker[w])
    BY DEF TableInv, LeaseShape
  <2>2. /\ r.task[t].lease = s.task[t].lease /\ r.task[t].attempt = s.task[t].attempt
        /\ r.task[t].state \in Holding <=> s.task[t].state \in Holding
    BY <1>2, <1>3
  <2>3. r.worker[w].cap = s.worker[w].cap /\ r.worker[w].status = s.worker[w].status
    BY <1>2, <1>4
  <2>4. r.lease[l].attempt = s.lease[l].attempt /\ r.lease[l].device = s.lease[l].device
    BY <1>2
  <2> HIDE DEF t, w
  <2> QED BY <2>1, <2>2, <2>3, <2>4 DEF Held, t, w
<1>7. WorkerShape(r)
  BY <1>1, <1>4 DEF TableInv, WorkerShape
<1>8. History(r)
  <2> SUFFICES ASSUME NEW l \in DOMAIN s.lease
               PROVE  Past(l, r.lease[l], r.task[s.lease[l].task])
    BY <1>1, <1>2 DEF History
  <2> DEFINE t == s.lease[l].task
  <2>1. Past(l, s.lease[l], s.task[t])
    BY DEF TableInv, History
  <2>2. /\ r.task[t].attempt = s.task[t].attempt /\ r.lease[l].attempt = s.lease[l].attempt
        /\ r.lease[l].state = s.lease[l].state
    BY <1>2, <1>3
  <2>3. \/ r.task[t] = s.task[t]
        \/ r.task[t].state \in Holding /\ s.task[t].state \in Holding
    BY <1>2, <1>3
  <2> HIDE DEF t
  <2> QED BY <2>1, <2>2, <2>3 DEF Past, Holding, t
<1>9. Increasing(r)
  BY <1>1, <1>2 DEF TableInv, Increasing
<1>10. \A t \in Task : s.task[t].state \in {"complete", "failed"} => r.task[t] = s.task[t]
  BY <1>3 DEF Holding
<1>11. Len(s.lease) <= Len(r.lease)
  BY <1>1, TablesFacts
<1>12. Capacity(r)
  BY <1>1, <1>2, <1>4, FewerFit DEF Fewer, ActiveLeases
<1> QED BY <1>1, <1>2, <1>5, <1>6, <1>7, <1>8, <1>9, <1>10, <1>11, <1>12 DEF Step, TableInv

LEMMA BeatWorkerStep ==
  ASSUME NEW s, TableInv(s), NEW w \in Worker, NEW now \in Nat
  PROVE  Step(s, BeatWorker(s, w, now)) /\ Renewed(s, BeatWorker(s, w, now))
<1> DEFINE r == BeatWorker(s, w, now)
           row == [s.worker[w] EXCEPT !.expires = now + WorkerTimeout]
<1>1. s \in Tables /\ s.worker[w] \in WorkerRow
  BY TablesFacts DEF TableInv
<1>2. now + WorkerTimeout \in Nat
  BY TermsAssumption
<1>3. row \in WorkerRow /\ row.status = s.worker[w].status /\ row.cap = s.worker[w].cap
  BY <1>1, <1>2 DEF WorkerRow
<1>4. r = [s EXCEPT !.worker = [s.worker EXCEPT ![w] = row]]
  BY <1>1 DEF BeatWorker, Tables
<1> HIDE DEF row, r
<1>5. /\ r \in Tables /\ r.owner = s.owner /\ r.lease = s.lease /\ r.task = s.task
      /\ r.worker = [s.worker EXCEPT ![w] = row]
  BY <1>1, <1>3, <1>4 DEF Tables
<1>6. Renewed(s, r)
  BY <1>1, <1>3, <1>5, TablesFacts DEF Renewed
<1> QED BY <1>6, RenewedStep DEF r

LEMMA StartStep ==
  ASSUME NEW s, TableInv(s), NEW l \in DOMAIN s.lease, IsActive(s, l)
  PROVE  Step(s, Start(s, l)) /\ Renewed(s, Start(s, l))
<1> DEFINE r == Start(s, l)
           t == s.lease[l].task
           row == [s.task[t] EXCEPT !.state = "running"]
<1>1. s \in Tables /\ t \in Task /\ s.task[t] \in TaskRow
  BY TablesFacts DEF TableInv, LeaseRow
<1>2. s.task[t].state \in Holding
  BY DEF TableInv, LeaseShape, Held, IsActive
<1>3. /\ row \in TaskRow /\ row.state \in Holding /\ row.lease = s.task[t].lease
      /\ row.worker = s.task[t].worker /\ row.attempt = s.task[t].attempt
  BY <1>1 DEF TaskRow, TaskState, Holding
<1>4. r = [s EXCEPT !.task = [s.task EXCEPT ![t] = row]]
  BY <1>1 DEF Start, Tables
<1> HIDE DEF row, r, t
<1>5. /\ r \in Tables /\ r.owner = s.owner /\ r.lease = s.lease /\ r.worker = s.worker
      /\ r.task = [s.task EXCEPT ![t] = row]
  BY <1>1, <1>3, <1>4 DEF Tables
<1>6. Renewed(s, r)
  BY <1>1, <1>2, <1>3, <1>5, TablesFacts DEF Renewed
<1> QED BY <1>6, RenewedStep DEF r

LEMMA BeatLeaseStep ==
  ASSUME NEW s, TableInv(s), NEW l \in DOMAIN s.lease, NEW now \in Nat
  PROVE  Step(s, BeatLease(s, l, now)) /\ Renewed(s, BeatLease(s, l, now))
<1> DEFINE r == BeatLease(s, l, now)
           w == s.lease[l].worker
           row == [s.lease[l] EXCEPT !.expires = now + LeaseTerm]
           beat == [s.worker[w] EXCEPT !.expires = now + WorkerTimeout]
           workers == IF s.worker[w].status = "active"
                        THEN [s.worker EXCEPT ![w] = beat] ELSE s.worker
           leases == [s.lease EXCEPT ![l] = row]
<1>1. s \in Tables /\ s.lease[l] \in LeaseRow /\ w \in Worker /\ s.worker[w] \in WorkerRow
  BY TablesFacts DEF TableInv, LeaseRow
<1>2. now + WorkerTimeout \in Nat /\ now + LeaseTerm \in Nat
  BY TermsAssumption
<1>3. /\ beat \in WorkerRow /\ beat.status = s.worker[w].status
      /\ beat.cap = s.worker[w].cap
  BY <1>1, <1>2 DEF WorkerRow
<1>4. /\ row \in LeaseRow /\ row.task = s.lease[l].task /\ row.worker = s.lease[l].worker
      /\ row.attempt = s.lease[l].attempt /\ row.state = s.lease[l].state
      /\ row.device = s.lease[l].device
  BY <1>1, <1>2 DEF LeaseRow
<1>5. r = [s EXCEPT !.lease = leases, !.worker = workers]
  BY <1>1 DEF BeatLease, Tables
<1> HIDE DEF row, beat, r, w
<1>6. /\ leases \in [DOMAIN s.lease -> LeaseRow] /\ leases[l] = row
      /\ \A m \in DOMAIN s.lease \ {l} : leases[m] = s.lease[m]
  BY <1>1, <1>4, TablesFacts
<1>7. leases \in Seq(LeaseRow) /\ DOMAIN leases = DOMAIN s.lease /\ Len(leases) = Len(s.lease)
  BY <1>1, <1>6, SameLength, TablesFacts
<1>8. /\ workers \in [Worker -> WorkerRow]
      /\ \A v \in Worker : /\ workers[v].status = s.worker[v].status
                           /\ workers[v].cap = s.worker[v].cap
  BY <1>1, <1>3, TablesFacts
<1> HIDE DEF leases, workers
<1>9. /\ r \in Tables /\ r.owner = s.owner /\ r.task = s.task /\ r.lease = leases
      /\ r.worker = workers
  BY <1>1, <1>5, <1>7, <1>8 DEF Tables
<1>10. Renewed(s, r)
  BY <1>4, <1>6, <1>7, <1>8, <1>9 DEF Renewed
<1> QED BY <1>10, RenewedStep DEF r

-----------------------------------------------------------------------------
(* Completion and failure. *)

(* Lease l ends, and its task goes back to the queue for its next attempt,    *)
(* fails, or is complete.                                                     *)
Finished(s, r, l) ==
  LET t == s.lease[l].task
  IN  /\ r \in Tables
      /\ r.owner = s.owner /\ r.worker = s.worker
      /\ DOMAIN r.lease = DOMAIN s.lease /\ Len(r.lease) = Len(s.lease)
      /\ r.lease[l].state \in {"ended", "completed"}
      /\ r.lease[l].task = t /\ r.lease[l].attempt = s.lease[l].attempt
      /\ r.lease[l].worker = s.lease[l].worker
      /\ \A m \in DOMAIN s.lease \ {l} : r.lease[m] = s.lease[m]
      /\ \A u \in Task \ {t} : r.task[u] = s.task[u]
      /\ r.task[t].lease = 0
      /\ \/ r.task[t].state = "pending" /\ r.task[t].attempt = s.task[t].attempt + 1
         \/ r.task[t].state = "failed" /\ r.task[t].attempt = s.task[t].attempt
         \/ /\ r.task[t].state = "complete" /\ r.task[t].attempt = s.task[t].attempt
            /\ r.task[t].completed = l /\ r.lease[l].state = "completed"

LEMMA FinishedStep ==
  ASSUME NEW s, TableInv(s), NEW l \in DOMAIN s.lease, IsActive(s, l),
         NEW r, Finished(s, r, l)
  PROVE  Step(s, r)
<1> DEFINE t == s.lease[l].task
<1>1. /\ s \in Tables /\ r \in Tables /\ r.owner = s.owner /\ r.worker = s.worker
      /\ DOMAIN r.lease = DOMAIN s.lease /\ Len(r.lease) = Len(s.lease)
  BY DEF TableInv, Finished
<1>2. \A m \in DOMAIN s.lease : /\ s.lease[m].task \in Task
                                /\ s.lease[m].attempt \in Nat \ {0}
  BY <1>1, TablesFacts DEF LeaseRow
<1>3. \A u \in Task : s.task[u].attempt \in Nat
  BY <1>1, TablesFacts DEF TaskRow
<1>4. /\ s.task[t].lease = l /\ s.task[t].state \in Holding
      /\ s.task[t].attempt = s.lease[l].attempt
  BY DEF TableInv, LeaseShape, Held, IsActive
<1>5. \A u \in Task \ {t} : r.task[u] = s.task[u]
  BY DEF Finished
<1>6. \A m \in DOMAIN s.lease \ {l} : r.lease[m] = s.lease[m]
  BY DEF Finished
<1>7. \A m \in DOMAIN s.lease \ {l} : s.lease[m].task = t => s.lease[m].state # "active"
  BY <1>4 DEF TableInv, LeaseShape, Held
<1>8. /\ r.lease[l].state \in {"ended", "completed"}
      /\ r.lease[l].task = t /\ r.lease[l].attempt = s.lease[l].attempt
      /\ r.lease[l].worker = s.lease[l].worker
  BY DEF Finished
<1>9. /\ r.task[t].lease = 0 /\ r.task[t].state \in {"pending", "failed", "complete"}
      /\ \/ r.task[t].attempt = s.task[t].attempt + 1
         \/ r.task[t].attempt = s.task[t].attempt /\ r.task[t].state = "failed"
         \/ /\ r.task[t].attempt = s.task[t].attempt /\ r.task[t].state = "complete"
            /\ r.task[t].completed = l /\ r.lease[l].state = "completed"
      /\ r.task[t].state = "complete" =>
           /\ r.task[t].attempt = s.task[t].attempt
           /\ r.task[t].completed = l /\ r.lease[l].state = "completed"
  BY DEF Finished
<1>10. t \in Task /\ s.task[t].attempt \in Nat \ {0} /\ r.task[t].attempt \in Nat \ {0}
  BY <1>2, <1>3, <1>4, <1>9
<1>11. s.lease[l].state = "active"
  BY DEF IsActive
<1> HIDE DEF Finished
<1>12. TaskShape(r)
  <2> SUFFICES ASSUME NEW u \in Task
               PROVE  TaskShape(r)!(u)
    BY DEF TaskShape
  <2>1. CASE u = t
    <3> HIDE DEF t
    <3> QED BY <2>1, <1>1, <1>4, <1>8, <1>9, <1>10 DEF Holding
  <2>2. CASE u # t
    <3>1. TaskShape(s)!(u)
      BY DEF TableInv, TaskShape
    <3>2. /\ s.task[u].state \in Holding => s.task[u].lease # l
          /\ s.task[u].state = "complete" => s.task[u].completed # l
      BY <2>2, <3>1, <1>11
    <3>3. r.task[u] = s.task[u]
      BY <2>2, <1>5
    <3>4. /\ s.task[u].state \in Holding =>
               r.lease[s.task[u].lease] = s.lease[s.task[u].lease]
          /\ s.task[u].state = "complete" =>
               r.lease[s.task[u].completed] = s.lease[s.task[u].completed]
      BY <3>1, <3>2, <1>6
    <3> QED BY <3>1, <3>3, <3>4, <1>1
  <2> QED BY <2>1, <2>2
<1>13. LeaseShape(r)
  <2> SUFFICES ASSUME NEW m \in DOMAIN s.lease, r.lease[m].state = "active"
               PROVE  Held(m, r.lease[m], r.task[r.lease[m].task], s.worker[r.lease[m].worker])
    BY <1>1 DEF LeaseShape
  <2>1. m # l
    BY <1>8
  <2>2. r.lease[m] = s.lease[m] /\ s.lease[m].task \in Task \ {t}
    BY <2>1, <1>2, <1>6, <1>7
  <2>3. r.task[s.lease[m].task] = s.task[s.lease[m].task]
    BY <2>2, <1>5
  <2>4. Held(m, s.lease[m], s.task[s.lease[m].task], s.worker[s.lease[m].worker])
    BY <2>2 DEF TableInv, LeaseShape
  <2> QED BY <2>2, <2>3, <2>4
<1>14. WorkerShape(r)
  BY <1>1 DEF TableInv, WorkerShape
<1>15. History(r)
  <2> SUFFICES ASSUME NEW m \in DOMAIN s.lease
               PROVE  Past(m, r.lease[m], r.task[r.lease[m].task])
    BY <1>1 DEF History
  <2>1. Past(m, s.lease[m], s.task[s.lease[m].task])
    BY DEF TableInv, History
  <2>2. CASE s.lease[m].task # t
    <3>1. /\ r.lease[m] = s.lease[m]
          /\ r.task[s.lease[m].task] = s.task[s.lease[m].task]
      BY <2>2, <1>2, <1>5, <1>6
    <3> QED BY <3>1, <2>1
  <2>3. CASE s.lease[m].task = t /\ m # l
    <3>1. r.lease[m] = s.lease[m] /\ s.lease[m].attempt \in Nat /\ s.lease[m].state # "active"
      BY <2>3, <1>2, <1>6, <1>7
    <3>2. Past(m, s.lease[m], s.task[t])
      BY <2>1, <2>3
    <3> HIDE DEF t
    <3>3. s.lease[m].attempt < s.task[t].attempt
      BY <3>1, <3>2, <1>4, <1>10 DEF Past, Holding
    <3>4. s.lease[m].attempt < r.task[t].attempt
      BY <3>1, <3>3, <1>9, <1>10
    <3>5. Past(m, s.lease[m], r.task[t])
      BY <3>1, <3>4, <1>9, <1>10 DEF Past
    <3> QED BY <2>3, <3>1, <3>5 DEF t
  <2>4. CASE m = l
    <3>1. Past(l, r.lease[l], r.task[t])
      <4> HIDE DEF t
      <4> QED BY <1>4, <1>8, <1>9, <1>10 DEF Past
    <3> QED BY <2>4, <3>1, <1>8
  <2> QED BY <2>2, <2>3, <2>4
<1>16. Increasing(r)
  <2>1. \A m \in DOMAIN s.lease : /\ r.lease[m].task = s.lease[m].task
                                  /\ r.lease[m].attempt = s.lease[m].attempt
    BY <1>6, <1>8
  <2> QED BY <2>1, <1>1 DEF TableInv, Increasing
<1>17. \A u \in Task : s.task[u].state \in {"complete", "failed"} => r.task[u] = s.task[u]
  BY <1>4, <1>5 DEF Holding
<1>18. Len(s.lease) <= Len(r.lease)
  BY <1>1, TablesFacts
<1>19. Capacity(r)
  <2>1. \A m \in ActiveLeases(r) : m \in DOMAIN s.lease \ {l}
    BY <1>1, <1>8 DEF ActiveLeases
  <2> QED BY <2>1, <1>1, <1>6, FewerFit DEF Fewer, ActiveLeases
<1>20. \A m \in DOMAIN s.lease : r.lease[m].worker = s.lease[m].worker
  BY <1>6, <1>8
<1> QED BY <1>1, <1>12, <1>13, <1>14, <1>15, <1>16, <1>17, <1>18, <1>19, <1>20
        DEF Step, TableInv

(* Tables in which the rows of lease l and of task t are written. *)
Written(s, l, t, lease, task) ==
  [s EXCEPT !.lease = [s.lease EXCEPT ![l] = lease], !.task = [s.task EXCEPT ![t] = task]]

LEMMA RowsWritten ==
  ASSUME NEW s \in Tables, NEW l \in DOMAIN s.lease, NEW t \in Task,
         NEW lease \in LeaseRow, NEW task \in TaskRow, NEW r,
         r = Written(s, l, t, lease, task)
  PROVE  /\ r \in Tables
         /\ r.owner = s.owner /\ r.worker = s.worker
         /\ DOMAIN r.lease = DOMAIN s.lease /\ Len(r.lease) = Len(s.lease)
         /\ r.lease[l] = lease /\ r.task[t] = task
         /\ \A m \in DOMAIN s.lease \ {l} : r.lease[m] = s.lease[m]
         /\ \A u \in Task \ {t} : r.task[u] = s.task[u]
<1> DEFINE leases == [s.lease EXCEPT ![l] = lease]
           tasks == [s.task EXCEPT ![t] = task]
<1>1. /\ leases \in [DOMAIN s.lease -> LeaseRow] /\ leases[l] = lease
      /\ \A m \in DOMAIN s.lease \ {l} : leases[m] = s.lease[m]
  BY TablesFacts
<1>2. leases \in Seq(LeaseRow) /\ DOMAIN leases = DOMAIN s.lease /\ Len(leases) = Len(s.lease)
  BY <1>1, SameLength, TablesFacts
<1>3. /\ tasks \in [Task -> TaskRow] /\ tasks[t] = task
      /\ \A u \in Task \ {t} : tasks[u] = s.task[u]
  BY TablesFacts
<1> HIDE DEF leases, tasks
<1>4. /\ r \in Tables /\ r.owner = s.owner /\ r.worker = s.worker
      /\ r.lease = leases /\ r.task = tasks
  BY <1>2, <1>3 DEF Written, Tables, leases, tasks
<1> QED BY <1>1, <1>2, <1>3, <1>4

LEMMA CompleteStep ==
  ASSUME NEW s, TableInv(s), NEW l \in DOMAIN s.lease, MayComplete(s, l)
  PROVE  /\ Step(s, Complete(s, l))
         /\ \/ Complete(s, l) = s
            \/ IsActive(s, l) /\ Finished(s, Complete(s, l), l)
<1>1. CASE s.lease[l].state = "completed"
  <2>1. Complete(s, l) = s
    BY <1>1 DEF Complete
  <2> QED BY <2>1, StepToItself
<1>2. CASE s.lease[l].state # "completed"
  <2> DEFINE t == s.lease[l].task
             lease == Closed(s.lease[l], "completed")
             task == [s.task[t] EXCEPT !.state = "complete", !.lease = 0,
                                       !.worker = NoWorker, !.completed = l]
             r == Complete(s, l)
  <2>1. /\ s \in Tables /\ t \in Task /\ s.task[t] \in TaskRow /\ s.lease[l] \in LeaseRow
        /\ l \in Nat
    BY TablesFacts DEF TableInv, LeaseRow
  <2>2. IsActive(s, l)
    BY <1>2 DEF MayComplete
  <2>3. /\ lease \in LeaseRow /\ lease.state = "completed" /\ lease.task = t
        /\ lease.attempt = s.lease[l].attempt /\ lease.worker = s.lease[l].worker
    BY <2>1, ClosedFacts DEF LeaseState
  <2>4. /\ task \in TaskRow /\ task.state = "complete" /\ task.lease = 0
        /\ task.attempt = s.task[t].attempt /\ task.completed = l
    <3>1. "complete" \in TaskState /\ NoWorker \in Worker \cup {NoWorker} /\ 0 \in Nat
      BY DEF TaskState
    <3> QED BY <2>1, <3>1 DEF TaskRow
  <2>5. r = Written(s, l, t, lease, task)
    BY <1>2, <2>1 DEF Written, Complete, Tables
  <2> HIDE DEF lease, task, r, t
  <2>6. /\ r \in Tables
        /\ r.owner = s.owner /\ r.worker = s.worker
        /\ DOMAIN r.lease = DOMAIN s.lease /\ Len(r.lease) = Len(s.lease)
        /\ r.lease[l] = lease /\ r.task[t] = task
        /\ \A m \in DOMAIN s.lease \ {l} : r.lease[m] = s.lease[m]
        /\ \A u \in Task \ {t} : r.task[u] = s.task[u]
    BY <2>1, <2>3, <2>4, <2>5, RowsWritten
  <2>7. Finished(s, r, l)
    BY <2>3, <2>4, <2>6 DEF Finished, t
  <2>8. Step(s, r)
    BY <2>2, <2>7, FinishedStep
  <2> QED BY <2>2, <2>7, <2>8 DEF r
<1> QED BY <1>1, <1>2

LEMMA FailStep ==
  ASSUME NEW s, TableInv(s), NEW l \in DOMAIN s.lease, IsActive(s, l), NEW retry \in BOOLEAN
  PROVE  Step(s, Fail(s, l, retry)) /\ Finished(s, Fail(s, l, retry), l)
<1> DEFINE t == s.lease[l].task
           lease == Closed(s.lease[l], "ended")
           failed == [s.task[t] EXCEPT !.state = "failed", !.lease = 0, !.worker = NoWorker]
           task == IF retry THEN Requeued(s.task[t]) ELSE failed
           r == Fail(s, l, retry)
<1>1. s \in Tables /\ t \in Task /\ s.task[t] \in TaskRow /\ s.lease[l] \in LeaseRow
  BY TablesFacts DEF TableInv, LeaseRow
<1>2. /\ lease \in LeaseRow /\ lease.state = "ended" /\ lease.task = t
      /\ lease.attempt = s.lease[l].attempt /\ lease.worker = s.lease[l].worker
  BY <1>1, ClosedFacts DEF LeaseState
<1>3. /\ failed \in TaskRow /\ failed.state = "failed" /\ failed.lease = 0
      /\ failed.attempt = s.task[t].attempt
  <2>1. "failed" \in TaskState /\ NoWorker \in Worker \cup {NoWorker} /\ 0 \in Nat
    BY DEF TaskState
  <2> QED BY <1>1, <2>1 DEF TaskRow
<1>4. r = Written(s, l, t, lease, task)
  BY <1>1 DEF Written, Fail, Tables
<1> HIDE DEF lease, failed, r
<1>5. /\ task \in TaskRow /\ task.lease = 0
      /\ \/ task.state = "pending" /\ task.attempt = s.task[t].attempt + 1
         \/ task.state = "failed" /\ task.attempt = s.task[t].attempt
  BY <1>1, <1>3, RequeuedFacts
<1> HIDE DEF task, t
<1>6. /\ r \in Tables
      /\ r.owner = s.owner /\ r.worker = s.worker
      /\ DOMAIN r.lease = DOMAIN s.lease /\ Len(r.lease) = Len(s.lease)
      /\ r.lease[l] = lease /\ r.task[t] = task
      /\ \A m \in DOMAIN s.lease \ {l} : r.lease[m] = s.lease[m]
      /\ \A u \in Task \ {t} : r.task[u] = s.task[u]
  BY <1>1, <1>2, <1>4, <1>5, RowsWritten
<1>7. Finished(s, r, l)
  BY <1>2, <1>5, <1>6 DEF Finished, t
<1>8. Step(s, r)
  BY <1>7, FinishedStep
<1> QED BY <1>7, <1>8 DEF r

-----------------------------------------------------------------------------
(* Claiming. *)

LEMMA SelectedFacts ==
  ASSUME NEW s \in Tables, NEW w \in Worker, NEW t \in Selected(s, w)
  PROVE  /\ t \in Task /\ s.task[t].state = "pending" /\ CanRun(s, w, t)
         /\ ~(Cardinality(LeasesOf(s, w)) >= Slots(s.worker[w].cap))
<1>1. PICK i \in Candidates(s, w) : t = s.order[i]
  BY DEF Selected
<1>2. ~(Cardinality(LeasesOf(s, w)) >= Slots(s.worker[w].cap))
  BY <1>1 DEF Candidates
<1>3. /\ i \in DOMAIN s.order /\ s.task[s.order[i]].state = "pending"
      /\ CanRun(s, w, s.order[i])
  BY <1>1, <1>2 DEF Candidates
<1> QED BY <1>1, <1>2, <1>3, TablesFacts

(* One more lease, of a task that fits, still fits. *)
LEMMA GrantFits ==
  ASSUME NEW s, TableInv(s), NEW w \in Worker, s.worker[w].status = "active",
         NEW t \in Task, CanRun(s, w, t),
         ~(Cardinality(LeasesOf(s, w)) >= Slots(s.worker[w].cap)),
         NEW r \in Tables, r.worker = s.worker,
         NEW n, n \notin DOMAIN s.lease, DOMAIN r.lease = DOMAIN s.lease \cup {n},
         \A l \in DOMAIN s.lease : r.lease[l] = s.lease[l],
         r.lease[n].state = "active", r.lease[n].worker = w, r.lease[n].task = t
  PROVE  Capacity(r)
<1> DEFINE cap == s.worker[w].cap
           Memory(q, v) == [l \in LeasesOf(q, v) |-> Need[q.lease[l].task].memory]
           GpuMemory(q, v) == [l \in LeasesOf(q, v) |-> Need[q.lease[l].task].gpuMemory]
<1>1. \A q, v : /\ ReservedMemory(q, v) = SumFunction(Memory(q, v))
                /\ ReservedGpuMemory(q, v) = SumFunction(GpuMemory(q, v))
  BY DEF ReservedMemory, ReservedGpuMemory
<1>2. s \in Tables /\ cap \in Capability
  BY DEF TableInv, WorkerShape
<1>3. cap.memory \in Nat /\ cap.gpuMemory \in Nat /\ Slots(cap) \in Nat
  BY <1>2, CapabilityAssumption, SlotsType
<1>4. Need[t].memory \in Nat /\ Need[t].gpuMemory \in Nat
  BY NeedAssumption
<1>5. ASSUME NEW v \in Worker, v # w
      PROVE  Fits(r, v)
  <2>1. LeasesOf(r, v) = LeasesOf(s, v)
    BY <1>5 DEF LeasesOf, ActiveLeases
  <2>2. \A l \in LeasesOf(s, v) : r.lease[l] = s.lease[l]
    BY DEF LeasesOf, ActiveLeases
  <2>3. Memory(r, v) = Memory(s, v) /\ GpuMemory(r, v) = GpuMemory(s, v)
    BY <2>1, <2>2
  <2>4. Fits(s, v)
    BY DEF TableInv, Capacity
  <2> QED BY <1>1, <2>1, <2>3, <2>4 DEF Fits
<1>6. Fits(r, w)
  <2> DEFINE S == LeasesOf(s, w)
             f == Memory(s, w)
             g == Memory(r, w)
             fg == GpuMemory(s, w)
             gg == GpuMemory(r, w)
  <2>1. LeasesOf(r, w) = S \cup {n} /\ n \notin S
    BY DEF LeasesOf, ActiveLeases
  <2>2. \A l \in S : r.lease[l] = s.lease[l]
    BY DEF LeasesOf, ActiveLeases
  <2>3. IsFiniteSet(S) /\ Cardinality(S) \in Nat
    BY <1>2, LeasesAreFinite
  <2>4. /\ f \in [S -> Nat] /\ g \in [S \cup {n} -> Nat]
        /\ fg \in [S -> Nat] /\ gg \in [S \cup {n} -> Nat]
    BY <1>2, <2>1, LeasesAreFinite, NeedsAreNumbers
  <2>5. /\ \A l \in S : g[l] = f[l]
        /\ \A l \in S : gg[l] = fg[l]
        /\ g[n] = Need[t].memory /\ gg[n] = Need[t].gpuMemory
    BY <2>1, <2>2
  <2>6. Cardinality(S \cup {n}) = Cardinality(S) + 1
    BY <2>1, <2>3, FS_AddElement
  <2>7. /\ ReservedMemory(s, w) = SumFunction(f) /\ ReservedMemory(r, w) = SumFunction(g)
        /\ ReservedGpuMemory(s, w) = SumFunction(fg)
        /\ ReservedGpuMemory(r, w) = SumFunction(gg)
    BY <1>1
  <2>8. S = {} => SumFunction(fg) = 0
    BY SumOfNothing
  <2>9. Fits(s, w)
    BY DEF TableInv, Capacity
  <2> HIDE DEF f, g, fg, gg
  <2>10. SumFunction(g) = SumFunction(f) + g[n] /\ SumFunction(f) \in Nat
    BY <2>1, <2>3, <2>4, <2>5, SumGrows
  <2>11. SumFunction(gg) = SumFunction(fg) + gg[n] /\ SumFunction(fg) \in Nat
    BY <2>1, <2>3, <2>4, <2>5, SumGrows
  <2>12. Cardinality(S \cup {n}) <= Slots(cap)
    BY <2>3, <2>6, <1>3
  <2>13. ReservedMemory(r, w) <= cap.memory
    BY <2>5, <2>7, <2>10 DEF CanRun
  <2>14. ReservedGpuMemory(r, w) <= cap.gpuMemory
    <3>1. SumFunction(fg) <= cap.gpuMemory
      BY <1>3, <2>7, <2>8, <2>9 DEF Fits
    <3>2. CASE Need[t].gpuMemory > 0
      BY <3>2, <2>5, <2>7, <2>11 DEF CanRun
    <3>3. CASE ~(Need[t].gpuMemory > 0)
      BY <3>1, <3>3, <1>4, <2>5, <2>7, <2>11
    <3> QED BY <3>2, <3>3
  <2> QED BY <2>1, <2>12, <2>13, <2>14 DEF Fits
<1> QED BY <1>5, <1>6 DEF Capacity

LEMMA ClaimStep ==
  ASSUME NEW s, TableInv(s), NEW w \in Worker, NEW t \in Selected(s, w),
         NEW now \in Nat, s.worker[w].status = "active"
  PROVE  LET r == Claim(s, w, t, now)
         IN  /\ Step(s, r) /\ Len(r.lease) = Len(s.lease) + 1
             /\ t \in Task /\ s.task[t].state = "pending"
             /\ r.task[t].state = "leased" /\ r.task[t].worker = w
             /\ r.task[t].attempt = s.task[t].attempt
             /\ \A u \in Task \ {t} : r.task[u] = s.task[u]
<1> DEFINE n == Len(s.lease) + 1
           cap == s.worker[w].cap
           lease == [task |-> t, worker |-> w, attempt |-> s.task[t].attempt,
                     device |-> IF cap.gpu THEN cap.device ELSE NoDevice,
                     state |-> "active", expires |-> now + LeaseTerm]
           task == [s.task[t] EXCEPT !.state = "leased", !.worker = w, !.lease = n]
           r == Claim(s, w, t, now)
<1>1. /\ s \in Tables /\ t \in Task /\ s.task[t].state = "pending" /\ s.task[t] \in TaskRow
      /\ n \in Nat \ {0} /\ n \notin DOMAIN s.lease
      /\ DOMAIN s.lease = 1 .. Len(s.lease) /\ Len(s.lease) \in Nat
  BY SelectedFacts, TablesFacts DEF TableInv
<1>2. s.task[t].attempt \in Nat \ {0} /\ s.task[t].lease = 0
  BY <1>1 DEF TableInv, TaskShape, TaskRow, Holding
<1>3. cap \in Capability
  BY DEF TableInv, WorkerShape
<1>4. /\ lease \in LeaseRow /\ lease.task = t /\ lease.worker = w
      /\ lease.attempt = s.task[t].attempt /\ lease.state = "active"
      /\ lease.device # NoDevice => cap.gpu /\ lease.device = cap.device
  <2>1. now + LeaseTerm \in Nat /\ "active" \in LeaseState
    BY TermsAssumption DEF LeaseState
  <2>2. (IF cap.gpu THEN cap.device ELSE NoDevice) \in Device \cup {NoDevice}
    BY <1>3, CapabilityAssumption
  <2> QED BY <1>1, <1>2, <2>1, <2>2 DEF LeaseRow
<1>5. /\ task \in TaskRow /\ task.state = "leased" /\ task.worker = w /\ task.lease = n
      /\ task.attempt = s.task[t].attempt
  <2>1. "leased" \in TaskState
    BY DEF TaskState
  <2> QED BY <1>1, <2>1 DEF TaskRow
<1>6. r = [s EXCEPT !.lease = Append(s.lease, lease), !.task = [s.task EXCEPT ![t] = task]]
  BY <1>1 DEF Claim, Tables
<1> HIDE DEF lease, task, r
<1>7. /\ Append(s.lease, lease) \in Seq(LeaseRow) /\ Len(Append(s.lease, lease)) = n
      /\ Append(s.lease, lease)[n] = lease
      /\ \A l \in DOMAIN s.lease : Append(s.lease, lease)[l] = s.lease[l]
  BY <1>1, <1>4, TablesFacts, AppendProperties
<1>8. /\ r \in Tables /\ r.worker = s.worker /\ r.owner = s.owner
      /\ r.lease = Append(s.lease, lease) /\ r.task = [s.task EXCEPT ![t] = task]
  BY <1>1, <1>5, <1>6, <1>7, TablesFacts DEF Tables
<1>9. /\ DOMAIN r.lease = DOMAIN s.lease \cup {n} /\ Len(r.lease) = n
      /\ r.lease[n] = lease /\ \A l \in DOMAIN s.lease : r.lease[l] = s.lease[l]
  <2>1. DOMAIN r.lease = 1 .. n
    BY <1>7, <1>8, LenProperties
  <2>2. 1 .. n = (1 .. Len(s.lease)) \cup {n}
    BY <1>1
  <2> QED BY <2>1, <2>2, <1>1, <1>7, <1>8
<1>10. r.task[t] = task /\ \A u \in Task \ {t} : r.task[u] = s.task[u]
  BY <1>1, <1>8, TablesFacts
<1>11. \A l \in DOMAIN s.lease : /\ s.lease[l].task \in Task /\ s.lease[l].attempt \in Nat
                                 /\ l \in Nat /\ l < n
  BY <1>1, TablesFacts DEF LeaseRow
<1>12. \A l \in DOMAIN s.lease : s.lease[l].state = "active" => s.lease[l].task # t
  BY <1>1 DEF TableInv, LeaseShape, Held, Holding
<1>13. \A l \in DOMAIN s.lease : s.lease[l].task = t => s.lease[l].attempt < s.task[t].attempt
  BY <1>1, <1>2, <1>11, <1>12 DEF TableInv, History, Past
<1> HIDE DEF n, cap
<1>14. TaskShape(r)
  <2> SUFFICES ASSUME NEW u \in Task
               PROVE  TaskShape(r)!(u)
    BY DEF TaskShape
  <2>1. CASE u = t
    BY <2>1, <1>2, <1>4, <1>5, <1>9, <1>10 DEF Holding
  <2>2. CASE u # t
    <3>1. TaskShape(s)!(u)
      BY DEF TableInv, TaskShape
    <3>2. r.task[u] = s.task[u]
      BY <2>2, <1>10
    <3> QED BY <3>1, <3>2, <1>9
  <2> QED BY <2>1, <2>2
<1>15. LeaseShape(r)
  <2> SUFFICES ASSUME NEW l \in DOMAIN r.lease, r.lease[l].state = "active"
               PROVE  Held(l, r.lease[l], r.task[r.lease[l].task], s.worker[r.lease[l].worker])
    BY <1>8 DEF LeaseShape
  <2>1. CASE l = n
    <3>1. Held(n, lease, task, s.worker[w])
      BY <1>4, <1>5 DEF Held, Holding, cap
    <3> QED BY <2>1, <3>1, <1>4, <1>9, <1>10
  <2>2. CASE l \in DOMAIN s.lease
    <3>1. r.lease[l] = s.lease[l]
      BY <2>2, <1>9
    <3>2. r.task[s.lease[l].task] = s.task[s.lease[l].task]
      BY <2>2, <3>1, <1>10, <1>11, <1>12
    <3>3. Held(l, s.lease[l], s.task[s.lease[l].task], s.worker[s.lease[l].worker])
      BY <2>2, <3>1 DEF TableInv, LeaseShape
    <3> QED BY <3>1, <3>2, <3>3
  <2> QED BY <2>1, <2>2, <1>9
<1>16. WorkerShape(r)
  BY <1>8 DEF TableInv, WorkerShape
<1>17. History(r)
  <2> SUFFICES ASSUME NEW l \in DOMAIN r.lease
               PROVE  Past(l, r.lease[l], r.task[r.lease[l].task])
    BY DEF History
  <2>1. CASE l = n
    <3>1. Past(n, lease, task)
      BY <1>2, <1>4, <1>5 DEF Past
    <3> QED BY <2>1, <3>1, <1>4, <1>9, <1>10
  <2>2. CASE l \in DOMAIN s.lease /\ s.lease[l].task # t
    <3>1. r.lease[l] = s.lease[l] /\ r.task[s.lease[l].task] = s.task[s.lease[l].task]
      BY <2>2, <1>9, <1>10, <1>11
    <3> QED BY <2>2, <3>1 DEF TableInv, History
  <2>3. CASE l \in DOMAIN s.lease /\ s.lease[l].task = t
    <3>1. r.lease[l] = s.lease[l] /\ r.lease[l].attempt < task.attempt
      BY <2>3, <1>5, <1>9, <1>13
    <3>2. r.task[r.lease[l].task] = task /\ task.state = "leased"
      BY <2>3, <3>1, <1>5, <1>10
    <3> QED BY <2>3, <3>1, <3>2, <1>2, <1>5, <1>11 DEF Past
  <2> QED BY <2>1, <2>2, <2>3, <1>9
<1>20. Increasing(r)
  <2> SUFFICES ASSUME NEW l \in DOMAIN r.lease, NEW m \in DOMAIN r.lease,
                      r.lease[l].task = r.lease[m].task, l < m
               PROVE  r.lease[l].attempt < r.lease[m].attempt
    BY DEF Increasing
  <2>1. l \in DOMAIN s.lease
    BY <1>1, <1>9, <1>11 DEF n
  <2>2. CASE m = n
    BY <2>1, <2>2, <1>4, <1>9, <1>13
  <2>3. CASE m \in DOMAIN s.lease
    BY <2>1, <2>3, <1>9 DEF TableInv, Increasing
  <2> QED BY <2>2, <2>3, <1>9
<1>18. \A u \in Task : s.task[u].state \in {"complete", "failed"} => r.task[u] = s.task[u]
  BY <1>1, <1>10
<1>21. Capacity(r)
  <2>1. n \notin DOMAIN s.lease
    BY <1>1 DEF n
  <2>2. CanRun(s, w, t) /\ ~(Cardinality(LeasesOf(s, w)) >= Slots(s.worker[w].cap))
    BY <1>1, SelectedFacts
  <2> QED BY <2>1, <2>2, <1>1, <1>4, <1>8, <1>9, GrantFits
<1>19. Step(s, r)
  BY <1>1, <1>8, <1>9, <1>14, <1>15, <1>16, <1>17, <1>18, <1>20, <1>21 DEF Step, TableInv, n
<1> QED BY <1>1, <1>5, <1>9, <1>10, <1>19 DEF r, n

-----------------------------------------------------------------------------
(* The tables together with the programs of the workers. *)

RunRow == [lease : Nat, beat : Nat, at :
  {"idle", "registered", "claimed", "started", "running", "stopping",
   "succeeded", "reporting"}]

(* A worker past its claim presents a lease that was granted. *)
RunInv ==
  /\ run \in [Worker -> RunRow]
  /\ \A w \in Worker : run[w].at \notin {"idle", "registered"} =>
                         run[w].lease \in DOMAIN db.lease

PlacementInv == TableInv(db) /\ clock \in Nat /\ RunInv

-----------------------------------------------------------------------------
(* The properties follow from the invariant. *)

LEMMA TypesFollow == PlacementInv => TypeOK
<1> SUFFICES ASSUME PlacementInv PROVE TypeOK
  OBVIOUS
<1>1. db \in Tables /\ run \in [Worker -> RunRow]
  BY DEF PlacementInv, TableInv, RunInv
<1>2. db.worker \in [Worker -> [status : WorkerStatus, expires : Nat,
                                cap : Capability \cup {NoCapability}]]
  BY <1>1, TablesFacts DEF WorkerRow
<1>3. db.owner \in [Device -> Worker \cup {NoWorker}]
  BY <1>1, TablesFacts
<1>4. db.task \in [Task -> [state : TaskState, attempt : Nat, lease : Nat,
                            worker : Worker \cup {NoWorker}, completed : Nat]]
  BY <1>1, TablesFacts DEF TaskRow
<1>5. \A l \in DOMAIN db.lease :
        db.lease[l] \in [task : Task, worker : Worker, attempt : Nat \ {0},
                         device : Device \cup {NoDevice}, state : LeaseState,
                         expires : Nat]
  BY <1>1, TablesFacts DEF LeaseRow
<1> QED BY <1>1, <1>2, <1>3, <1>4, <1>5 DEF TypeOK, RunRow

LEMMA LeasesFollow == PlacementInv => LeasesBackTasks
<1> SUFFICES ASSUME TableInv(db) PROVE LeasesBackTasks
  BY DEF PlacementInv
<1>1. ASSUME NEW t \in Task
      PROVE  IF db.task[t].state \in {"leased", "running"}
               THEN /\ db.task[t].lease \in ActiveLeases(db)
                    /\ db.lease[db.task[t].lease].worker = db.task[t].worker
               ELSE db.task[t].lease = 0
  BY DEF TableInv, TaskShape, Holding, ActiveLeases
<1>2. ASSUME NEW l \in ActiveLeases(db)
      PROVE  /\ db.task[db.lease[l].task].lease = l
             /\ db.lease[l].attempt = db.task[db.lease[l].task].attempt
             /\ db.worker[db.lease[l].worker].status = "active"
             /\ db.lease[l].device # NoDevice =>
                  db.owner[db.lease[l].device] = db.lease[l].worker
  <2>1. l \in DOMAIN db.lease /\ db.lease[l].state = "active"
    BY DEF ActiveLeases
  <2>2. LET row == db.lease[l] IN Held(l, row, db.task[row.task], db.worker[row.worker])
    BY <2>1 DEF TableInv, LeaseShape
  <2>3. db.lease[l].worker \in Worker
    BY <2>1, TablesFacts DEF TableInv, LeaseRow
  <2>4. WorkerShape(db)!(db.lease[l].worker)!2
    BY <2>2, <2>3 DEF TableInv, WorkerShape, Held
  <2> QED BY <2>2, <2>4 DEF Held
<1> QED BY <1>1, <1>2 DEF LeasesBackTasks

(* The lease that completed a task is the last one granted for it. *)
LEMMA CompletedIsNewest ==
  ASSUME NEW s, TableInv(s), NEW t \in Task, s.task[t].state = "complete"
  PROVE  /\ s.lease[s.task[t].completed].state = "completed"
         /\ \A l \in DOMAIN s.lease :
              s.lease[l].task = t /\ l # s.task[t].completed =>
                /\ l < s.task[t].completed
                /\ s.lease[l].attempt < s.task[t].attempt
<1> DEFINE c == s.task[t].completed
<1>1. /\ c \in DOMAIN s.lease /\ s.lease[c].state = "completed" /\ s.lease[c].task = t
      /\ s.lease[c].attempt = s.task[t].attempt
  BY DEF TableInv, TaskShape
<1>2. \A l \in DOMAIN s.lease : l \in Nat /\ s.lease[l].attempt \in Nat
  BY TablesFacts DEF TableInv, LeaseRow
<1> HIDE DEF c
<1>3. ASSUME NEW l \in DOMAIN s.lease, s.lease[l].task = t, l # c
      PROVE  l < c /\ s.lease[l].attempt < s.task[t].attempt
  <2>1. s.lease[l].state # "active"
    BY <1>3 DEF TableInv, LeaseShape, Held, Holding
  <2>2. s.lease[l].attempt <= s.task[t].attempt /\ s.lease[l].attempt # s.task[t].attempt
    BY <1>3, <2>1 DEF TableInv, History, Past, c
  <2>3. s.lease[l].attempt < s.lease[c].attempt
    BY <1>1, <1>2, <2>2
  <2>4. ~(c < l)
    BY <1>1, <1>2, <1>3, <2>3 DEF TableInv, Increasing
  <2> QED BY <1>1, <1>2, <1>3, <2>3, <2>4
<1> QED BY <1>1, <1>3 DEF c

-----------------------------------------------------------------------------
(* The invariant is inductive. *)

LEMMA NowFacts == clock \in Nat => Now \subseteq Nat
BY LagAssumption DEF Now

LEMMA ReapedStep ==
  ASSUME PlacementInv, NEW now \in Nat
  PROVE  /\ Step(db, Reaped(now)) /\ TableInv(Reaped(now))
         /\ DOMAIN db.lease \subseteq DOMAIN Reaped(now).lease
<1>1. Step(db, Reaped(now)) /\ TableInv(Reaped(now))
  BY ReapStep DEF PlacementInv, Reaped, Step
<1> QED BY <1>1, TablesFacts DEF PlacementInv, Step, TableInv

(* A transaction reaps first and steps from there. *)
LEMMA Transaction ==
  ASSUME PlacementInv, NEW now \in Nat, NEW r, Step(Reaped(now), r)
  PROVE  Step(db, r)
BY ReapedStep, StepsCompose DEF PlacementInv

LEMMA LeasesRemain ==
  ASSUME PlacementInv, NEW r, Step(db, r)
  PROVE  DOMAIN db.lease \subseteq DOMAIN r.lease
BY TablesFacts DEF PlacementInv, Step, TableInv

LEMMA InitHolds == Init => PlacementInv
BY EmptyIsSound DEF Init, PlacementInv, RunInv, RunRow, Idle

(* Where the program of a worker may go without a new lease. *)
LEMMA GotoKeeps ==
  ASSUME PlacementInv, Step(db, db'), NEW w \in Worker,
         \/ Return(w)
         \/ \E where \in {"claimed", "started", "running", "stopping", "succeeded",
                          "reporting"} :
              Goto(w, where) /\ run[w].at \notin {"idle", "registered"}
         \/ run' = run
  PROVE  RunInv'
<1>1. run \in [Worker -> RunRow] /\ DOMAIN db.lease \subseteq DOMAIN db'.lease
  BY LeasesRemain DEF PlacementInv, RunInv
<1>2. \A v \in Worker : run[v].at \notin {"idle", "registered"} =>
                          run[v].lease \in DOMAIN db'.lease
  BY <1>1 DEF PlacementInv, RunInv
<1>3. CASE run' = run
  BY <1>1, <1>2, <1>3 DEF RunInv
<1>4. CASE Return(w)
  <2>1. Idle \in RunRow /\ Idle.at = "idle"
    BY DEF Idle, RunRow
  <2> QED BY <1>1, <1>2, <1>4, <2>1 DEF Return, RunInv
<1>5. ASSUME NEW where \in {"claimed", "started", "running", "stopping", "succeeded",
                            "reporting"},
             Goto(w, where), run[w].at \notin {"idle", "registered"}
      PROVE  RunInv'
  <2>1. run[w] \in RunRow
    BY <1>1
  <2>2. /\ run' \in [Worker -> RunRow] /\ run'[w].lease = run[w].lease
        /\ \A v \in Worker \ {w} : run'[v] = run[v]
    BY <1>1, <1>5, <2>1 DEF Goto, RunRow
  <2> QED BY <1>2, <1>5, <2>2 DEF RunInv
<1> QED BY <1>3, <1>4, <1>5

(* Every step of the system makes at most a Step of the tables and keeps the  *)
(* leases the workers present.                                                *)
LEMMA ClientSteps ==
  ASSUME PlacementInv,
         \/ \E t \in Task : SubmitTask(t)
         \/ ReapExpired
         \/ \E w \in Worker : RetireWorker(w) \/ HeartbeatWorker(w) \/ GiveUp(w)
  PROVE  Step(db, db') /\ RunInv' /\ clock' = clock
<1>1. clock \in Nat /\ Now \subseteq Nat /\ TableInv(db)
  BY NowFacts DEF PlacementInv
<1>2. ASSUME NEW t \in Task, SubmitTask(t)
      PROVE  Step(db, db') /\ run' = run /\ clock' = clock
  BY <1>1, <1>2, SubmitStep DEF SubmitTask
<1>3. ASSUME ReapExpired
      PROVE  Step(db, db') /\ run' = run /\ clock' = clock
  BY <1>1, <1>3, ReapedStep DEF ReapExpired
<1>4. ASSUME NEW w \in Worker, RetireWorker(w)
      PROVE  Step(db, db') /\ run' = run /\ clock' = clock
  BY <1>1, <1>4, RetireStep DEF RetireWorker
<1>5. ASSUME NEW w \in Worker, HeartbeatWorker(w)
      PROVE  Step(db, db') /\ run' = run /\ clock' = clock
  <2>1. PICK now \in Now : db' = BeatWorker(Reaped(now), w, now)
    BY <1>5 DEF HeartbeatWorker
  <2>2. Step(Reaped(now), db')
    BY <1>1, <2>1, ReapedStep, BeatWorkerStep
  <2> QED BY <1>1, <1>5, <2>2, Transaction DEF HeartbeatWorker
<1>6. ASSUME NEW w \in Worker, GiveUp(w)
      PROVE  Step(db, db') /\ Return(w) /\ clock' = clock
  <2>1. PICK now \in Now : /\ IsActive(Reaped(now), run[w].lease)
                           /\ db' = Fail(Reaped(now), run[w].lease, FALSE)
    BY <1>6 DEF GiveUp
  <2>2. run[w].lease \in DOMAIN Reaped(now).lease
    BY <1>1, <1>6, ReapedStep DEF GiveUp, PlacementInv, RunInv
  <2>3. Step(Reaped(now), db')
    BY <1>1, <2>1, <2>2, ReapedStep, FailStep
  <2> QED BY <1>1, <1>6, <2>3, Transaction DEF GiveUp
<1>7. ASSUME NEW w \in Worker, Step(db, db'), Return(w) \/ run' = run
      PROVE  RunInv'
  BY <1>7, GotoKeeps
<1>8. ASSUME Step(db, db'), run' = run
      PROVE  RunInv'
  BY <1>8, LeasesRemain DEF PlacementInv, RunInv
<1> QED BY <1>2, <1>3, <1>4, <1>5, <1>6, <1>7, <1>8

LEMMA RegisterWorkerStep ==
  ASSUME PlacementInv, NEW w \in Worker, RegisterWorker(w)
  PROVE  Step(db, db') /\ RunInv' /\ clock' = clock
<1>1. PICK now \in Now, cap \in Capability :
        /\ MayRegister(Reaped(now), w, cap)
        /\ db' = Register(Reaped(now), w, cap, now)
        /\ run' = [run EXCEPT ![w] = [at |-> "registered", lease |-> 0, beat |-> now]]
  BY DEF RegisterWorker
<1>2. now \in Nat
  BY NowFacts DEF PlacementInv
<1>3. Step(Reaped(now), db')
  BY <1>1, <1>2, ReapedStep, RegisterStep
<1>4. Step(db, db')
  BY <1>2, <1>3, Transaction
<1>5. run \in [Worker -> RunRow] /\ [at |-> "registered", lease |-> 0, beat |-> now] \in RunRow
  BY <1>2 DEF PlacementInv, RunInv, RunRow
<1>6. RunInv'
  BY <1>1, <1>4, <1>5, LeasesRemain DEF PlacementInv, RunInv
<1> QED BY <1>4, <1>6 DEF RegisterWorker

LEMMA ClaimTaskStep ==
  ASSUME PlacementInv, NEW w \in Worker, ClaimTask(w)
  PROVE  Step(db, db') /\ RunInv' /\ clock' = clock
<1> DEFINE now == run[w].beat
           s == Reaped(now)
<1>1. run \in [Worker -> RunRow] /\ run[w] \in RunRow /\ now \in Nat
  BY DEF PlacementInv, RunInv, RunRow
<1>2. TableInv(s) /\ Step(db, s) /\ s.worker[w].status = "active"
  BY <1>1, ReapedStep DEF ClaimTask, MayClaim
<1>3. CASE db' = s /\ Return(w)
  <2>1. Step(db, db')
    BY <1>2, <1>3
  <2> QED BY <1>3, <2>1, GotoKeeps DEF ClaimTask
<1>4. ASSUME NEW t \in Selected(s, w), db' = Claim(s, w, t, now),
             run' = [run EXCEPT ![w] = [@ EXCEPT !.at = "claimed",
                                                 !.lease = Len(db.lease) + 1]]
      PROVE  Step(db, db') /\ RunInv'
  <2>1. Step(s, db') /\ Len(db'.lease) = Len(s.lease) + 1
    BY <1>1, <1>2, <1>4, ClaimStep
  <2>2. Step(db, db')
    BY <1>1, <2>1, Transaction
  <2>3. /\ Len(db.lease) \in Nat /\ Len(s.lease) \in Nat /\ Len(db.lease) <= Len(s.lease)
        /\ DOMAIN db'.lease = 1 .. Len(db'.lease)
    BY <1>2, <2>2, TablesFacts DEF PlacementInv, Step, TableInv
  <2>4. Len(db.lease) + 1 \in DOMAIN db'.lease
    BY <2>1, <2>3
  <2>5. /\ run' \in [Worker -> RunRow] /\ run'[w].lease = Len(db.lease) + 1
        /\ \A v \in Worker \ {w} : run'[v] = run[v]
    <3> DEFINE n == Len(db.lease) + 1
               row == [run[w] EXCEPT !.at = "claimed", !.lease = n]
    <3>1. n \in Nat
      BY <2>3
    <3>2. run' = [run EXCEPT ![w] = row]
      BY <1>4
    <3> HIDE DEF n
    <3>3. row \in RunRow /\ row.lease = n
      BY <1>1, <3>1 DEF RunRow
    <3> HIDE DEF row
    <3>4. /\ run' \in [Worker -> RunRow] /\ run'[w].lease = n
          /\ \A v \in Worker \ {w} : run'[v] = run[v]
      BY <1>1, <3>2, <3>3
    <3> QED BY <3>4 DEF n
  <2>6. RunInv'
    BY <2>2, <2>4, <2>5, LeasesRemain DEF PlacementInv, RunInv
  <2> QED BY <2>2, <2>6
<1> QED BY <1>3, <1>4 DEF ClaimTask

(* The steps that touch no table. *)
LEMMA SilentSteps ==
  ASSUME PlacementInv, NEW w \in Worker,
         \/ ClaimRefused(w) \/ BuildFails(w) \/ Spawn(w) \/ Abandon(w)
         \/ Terminated(w) \/ ProcessExits(w) \/ Crash(w)
  PROVE  Step(db, db') /\ RunInv' /\ clock' = clock
<1>1. db' = db /\ clock' = clock
  BY DEF ClaimRefused, BuildFails, Spawn, Abandon, Terminated, ProcessExits, Crash
<1>2. Step(db, db')
  BY <1>1, StepToItself DEF PlacementInv
<1>3. \/ Return(w)
      \/ \E where \in {"claimed", "started", "running", "stopping", "succeeded",
                       "reporting"} :
           Goto(w, where) /\ run[w].at \notin {"idle", "registered"}
  BY DEF ClaimRefused, BuildFails, Spawn, Abandon, Terminated, ProcessExits, Crash
<1> QED BY <1>1, <1>2, <1>3, GotoKeeps

(* The calls that present the worker's lease. *)
LEMMA LeaseCalls ==
  ASSUME PlacementInv, NEW w \in Worker,
         StartTask(w) \/ Heartbeat(w) \/ CompleteTask(w) \/ FailTask(w)
  PROVE  Step(db, db') /\ RunInv' /\ clock' = clock
<1> DEFINE l == run[w].lease
<1>1. /\ run \in [Worker -> RunRow] /\ run[w] \in RunRow
      /\ run[w].at \notin {"idle", "registered"} /\ l \in DOMAIN db.lease
      /\ TableInv(db) /\ Now \subseteq Nat /\ clock' = clock
  BY NowFacts DEF PlacementInv, RunInv, StartTask, Heartbeat, CompleteTask, FailTask
<1>2. \A now \in Now : TableInv(Reaped(now)) /\ l \in DOMAIN Reaped(now).lease
  BY <1>1, ReapedStep
<1>3. Step(db, db)
  BY <1>1, StepToItself
<1> HIDE DEF l
<1>4. ASSUME StartTask(w)
      PROVE  Step(db, db') /\ (Goto(w, "started") \/ Return(w))
  <2>1. PICK now \in Now :
          IF IsActive(Reaped(now), l)
            THEN db' = Start(Reaped(now), l) /\ Goto(w, "started")
            ELSE UNCHANGED db /\ Return(w)
    BY <1>4 DEF StartTask, l
  <2>2. IsActive(Reaped(now), l) => Step(Reaped(now), Start(Reaped(now), l))
    BY <1>2, StartStep
  <2>3. IsActive(Reaped(now), l) => Step(db, Start(Reaped(now), l))
    BY <1>1, <2>2, Transaction
  <2> QED BY <1>3, <2>1, <2>3
<1>5. ASSUME Heartbeat(w)
      PROVE  /\ Step(db, db')
             /\ \/ Goto(w, "stopping")
                \/ \E now \in Nat : run' = [run EXCEPT ![w].beat = now]
  <2>1. PICK now \in Now :
          IF IsActive(Reaped(now), l)
            THEN /\ db' = BeatLease(Reaped(now), l, now)
                 /\ run' = [run EXCEPT ![w].beat = now]
            ELSE UNCHANGED db /\ Goto(w, "stopping")
    BY <1>5 DEF Heartbeat, l
  <2>2. Step(Reaped(now), BeatLease(Reaped(now), l, now))
    BY <1>1, <1>2, BeatLeaseStep
  <2>3. Step(db, BeatLease(Reaped(now), l, now))
    BY <1>1, <2>2, Transaction
  <2> QED BY <1>1, <1>3, <2>1, <2>3
<1>6. ASSUME CompleteTask(w)
      PROVE  Step(db, db') /\ Return(w)
  <2>1. PICK now \in Now :
          db' = IF MayComplete(Reaped(now), l) THEN Complete(Reaped(now), l) ELSE db
    BY <1>6 DEF CompleteTask, l
  <2>2. MayComplete(Reaped(now), l) => Step(Reaped(now), Complete(Reaped(now), l))
    BY <1>2, CompleteStep
  <2>3. MayComplete(Reaped(now), l) => Step(db, Complete(Reaped(now), l))
    BY <1>1, <2>2, Transaction
  <2> QED BY <1>3, <1>6, <2>1, <2>3 DEF CompleteTask
<1>7. ASSUME FailTask(w)
      PROVE  Step(db, db') /\ Return(w)
  <2>1. PICK now \in Now :
          db' = IF IsActive(Reaped(now), l) THEN Fail(Reaped(now), l, TRUE) ELSE db
    BY <1>7 DEF FailTask, l
  <2>2. IsActive(Reaped(now), l) => Step(Reaped(now), Fail(Reaped(now), l, TRUE))
    BY <1>2, FailStep
  <2>3. IsActive(Reaped(now), l) => Step(db, Fail(Reaped(now), l, TRUE))
    BY <1>1, <2>2, Transaction
  <2> QED BY <1>3, <1>7, <2>1, <2>3 DEF FailTask
<1>8. ASSUME NEW now \in Nat, Step(db, db'), run' = [run EXCEPT ![w].beat = now]
      PROVE  RunInv'
  <2>1. run' \in [Worker -> RunRow] /\ \A v \in Worker : /\ run'[v].at = run[v].at
                                                        /\ run'[v].lease = run[v].lease
    BY <1>1, <1>8 DEF RunRow
  <2> QED BY <1>8, <2>1, LeasesRemain DEF PlacementInv, RunInv
<1>9. ASSUME Step(db, db'), Return(w) \/ Goto(w, "started") \/ Goto(w, "stopping")
      PROVE  RunInv'
  BY <1>1, <1>9, GotoKeeps
<1> QED BY <1>1, <1>4, <1>5, <1>6, <1>7, <1>8, <1>9

LEMMA NextKeeps ==
  ASSUME PlacementInv, [Next]_vars
  PROVE  PlacementInv' /\ Step(db, db')
<1>1. CASE Tick
  <2>1. db' = db /\ run' = run /\ clock' \in Nat
    BY <1>1 DEF Tick, PlacementInv
  <2> QED BY <2>1, StepToItself DEF PlacementInv, RunInv
<1>2. CASE UNCHANGED vars
  BY <1>2, StepToItself DEF vars, PlacementInv, RunInv
<1>3. ASSUME NEW w \in Worker, RunOnce(w)
      PROVE  Step(db, db') /\ RunInv' /\ clock' = clock
  BY <1>3, RegisterWorkerStep, ClaimTaskStep, SilentSteps, LeaseCalls DEF RunOnce
<1>4. ASSUME Step(db, db'), RunInv', clock' = clock
      PROVE  PlacementInv'
  BY <1>4 DEF PlacementInv, Step
<1> QED BY <1>1, <1>2, <1>3, <1>4, ClientSteps DEF Next

-----------------------------------------------------------------------------
(* Time.  A worker that is neither retired nor late is as the scheduler knows *)
(* it: active, and with the lease it presents, for longer than its next call  *)
(* can take; whatever the others do, and however old the times of the calls.  *)

SilenceEnough == Silence + MaxLag < WorkerTimeout

(* Worker w, which renewed last at time beat and then held lease l, is known  *)
(* to s at time now; unless it was retired or is late.                        *)
InTouch(s, w, leased, l, beat, now) ==
  \/ s.worker[w].status = "retired"
  \/ now > beat + Silence
  \/ /\ s.worker[w].status = "active"
     /\ s.worker[w].expires + MaxLag >= beat + WorkerTimeout
     /\ leased => s.lease[l].state = "active" /\ s.lease[l].expires >= beat + LeaseTerm

Present == {"registered", "claimed", "started", "running", "stopping"}

OnTime(w) ==
  /\ run[w].at \notin {"idle", "registered"} => db.lease[run[w].lease].worker = w
  /\ run[w].at \in Present =>
       /\ run[w].beat <= clock
       /\ InTouch(db, w, run[w].at # "registered", run[w].lease, run[w].beat, clock)

TimeInv == \A w \in Worker : OnTime(w)

(* r leaves the row of worker w and its leases as they are in s. *)
Spares(s, r, w) ==
  /\ r.worker[w] = s.worker[w]
  /\ \A l \in DOMAIN s.lease : s.lease[l].worker = w => r.lease[l] = s.lease[l]

LEMMA SubmitSpares == \A s, t, w : Spares(s, Submit(s, t), w)
BY DEF Submit, Spares

LEMMA StartSpares == \A s \in Tables : \A l, w : Spares(s, Start(s, l), w)
BY DEF Start, Spares, Tables

LEMMA RegisterSpares ==
  ASSUME NEW s \in Tables, NEW v \in Worker, NEW cap, NEW now
  PROVE  LET r == Register(s, v, cap, now)
         IN  /\ r.worker[v].status = "active" /\ r.worker[v].expires = now + WorkerTimeout
             /\ \A w \in Worker \ {v} : Spares(s, r, w)
<1> DEFINE own == FreeDevices(s, {v})
           row == [status |-> "active", cap |-> cap, expires |-> now + WorkerTimeout]
           r == Register(s, v, cap, now)
<1>1. own \in Tables /\ own.worker = s.worker /\ own.lease = s.lease
  BY FreeDevicesColumns
<1>2. r.worker = [own.worker EXCEPT ![v] = row] /\ r.lease = own.lease
  <2>1. r = [own EXCEPT !.worker = [own.worker EXCEPT ![v] = row],
                        !.owner = IF cap.gpu THEN [own.owner EXCEPT ![cap.device] = v]
                                  ELSE own.owner]
    BY DEF Register
  <2> HIDE DEF own, row, r
  <2> QED BY <1>1, <2>1 DEF Tables
<1>3. row.status = "active" /\ row.expires = now + WorkerTimeout
  OBVIOUS
<1> HIDE DEF own, row, r
<1>4. r.worker[v] = row /\ \A w \in Worker \ {v} : r.worker[w] = s.worker[w]
  BY <1>1, <1>2, TablesFacts
<1>5. \A w \in Worker \ {v} : Spares(s, r, w)
  BY <1>1, <1>2, <1>4 DEF Spares
<1> QED BY <1>3, <1>4, <1>5 DEF r

LEMMA RetireSpares ==
  ASSUME NEW s \in Tables, NEW v \in Worker
  PROVE  LET r == Retire(s, v)
         IN  r.worker[v].status = "retired" /\ \A w \in Worker \ {v} : Spares(s, r, w)
<1> DEFINE ended == LeasesOf(s, v)
           closed == EndLeases(s, ended)
           marked == MarkWorkers(closed, {v}, "retired")
           r == FreeDevices(marked, {v})
<1>1. ended \in SUBSET DOMAIN s.lease /\ \A l \in ended : s.lease[l].worker = v
  BY DEF LeasesOf, ActiveLeases
<1>2. Retire(s, v) = r /\ "retired" \in WorkerStatus \ {"active"}
  BY DEF Retire, WorkerStatus
<1> HIDE DEF ended, closed, marked, r
<1>3. /\ closed \in Tables /\ closed.worker = s.worker
      /\ \A l \in DOMAIN s.lease \ ended : closed.lease[l] = s.lease[l]
  BY <1>1, EndLeasesColumns DEF closed
<1>4. /\ marked \in Tables /\ marked.lease = closed.lease
      /\ \A w \in Worker : IF w \in {v} THEN marked.worker[w].status = "retired"
                           ELSE marked.worker[w] = closed.worker[w]
  BY <1>2, <1>3, MarkWorkersColumns DEF marked
<1>5. r.worker = marked.worker /\ r.lease = marked.lease
  BY <1>4, FreeDevicesColumns DEF r
<1> QED BY <1>1, <1>2, <1>3, <1>4, <1>5 DEF Spares

LEMMA BeatWorkerSpares ==
  ASSUME NEW s \in Tables, NEW v \in Worker, NEW now
  PROVE  LET r == BeatWorker(s, v, now)
         IN  /\ r.worker[v].status = s.worker[v].status
             /\ r.worker[v].expires = now + WorkerTimeout
             /\ r.lease = s.lease
             /\ \A w \in Worker \ {v} : Spares(s, r, w)
<1> DEFINE row == [s.worker[v] EXCEPT !.expires = now + WorkerTimeout]
           r == BeatWorker(s, v, now)
<1>1. s.worker \in [Worker -> WorkerRow] /\ s.worker[v] \in WorkerRow
  BY TablesFacts
<1>2. row.status = s.worker[v].status /\ row.expires = now + WorkerTimeout
  BY <1>1 DEF WorkerRow
<1>3. r.worker = [s.worker EXCEPT ![v] = row] /\ r.lease = s.lease
  BY <1>1 DEF BeatWorker, Tables
<1> HIDE DEF row, r
<1>4. r.worker[v] = row /\ \A w \in Worker \ {v} : r.worker[w] = s.worker[w]
  BY <1>1, <1>3
<1>5. \A w \in Worker \ {v} : Spares(s, r, w)
  BY <1>3, <1>4 DEF Spares
<1> QED BY <1>2, <1>3, <1>4, <1>5 DEF r

LEMMA BeatLeaseSpares ==
  ASSUME NEW s \in Tables, NEW l \in DOMAIN s.lease, NEW v \in Worker,
         s.lease[l].worker = v, s.worker[v].status = "active", NEW now
  PROVE  LET r == BeatLease(s, l, now)
         IN  /\ r.worker[v].status = "active"
             /\ r.worker[v].expires = now + WorkerTimeout
             /\ r.lease[l].state = s.lease[l].state
             /\ r.lease[l].expires = now + LeaseTerm
             /\ \A w \in Worker \ {v} : Spares(s, r, w)
<1> DEFINE row == [s.lease[l] EXCEPT !.expires = now + LeaseTerm]
           beat == [s.worker[v] EXCEPT !.expires = now + WorkerTimeout]
           r == BeatLease(s, l, now)
<1>1. /\ s.worker \in [Worker -> WorkerRow] /\ s.worker[v] \in WorkerRow
      /\ s.lease[l] \in LeaseRow
  BY TablesFacts
<1>2. beat.status = "active" /\ beat.expires = now + WorkerTimeout
  BY <1>1 DEF WorkerRow
<1>3. row.state = s.lease[l].state /\ row.expires = now + LeaseTerm
  BY <1>1 DEF LeaseRow
<1>4. /\ r.worker = [s.worker EXCEPT ![v] = beat]
      /\ r.lease = [s.lease EXCEPT ![l] = row]
  BY <1>1 DEF BeatLease, Tables
<1> HIDE DEF row, beat, r
<1>5. r.worker[v] = beat /\ \A w \in Worker \ {v} : r.worker[w] = s.worker[w]
  BY <1>1, <1>4
<1>6. r.lease[l] = row /\ \A m \in DOMAIN s.lease \ {l} : r.lease[m] = s.lease[m]
  BY <1>4
<1>7. \A w \in Worker \ {v} : Spares(s, r, w)
  BY <1>5, <1>6 DEF Spares
<1> QED BY <1>2, <1>3, <1>5, <1>6, <1>7 DEF r

LEMMA CompleteSpares ==
  ASSUME NEW s \in Tables, NEW l \in DOMAIN s.lease, NEW w, s.lease[l].worker # w
  PROVE  Spares(s, Complete(s, l), w)
<1>1. /\ Complete(s, l).worker = s.worker
      /\ \A m \in DOMAIN s.lease \ {l} : Complete(s, l).lease[m] = s.lease[m]
  BY DEF Complete, Tables
<1> QED BY <1>1 DEF Spares

LEMMA FailSpares ==
  ASSUME NEW s \in Tables, NEW l \in DOMAIN s.lease, NEW retry, NEW w, s.lease[l].worker # w
  PROVE  Spares(s, Fail(s, l, retry), w)
<1>1. /\ Fail(s, l, retry).worker = s.worker
      /\ \A m \in DOMAIN s.lease \ {l} : Fail(s, l, retry).lease[m] = s.lease[m]
  BY DEF Fail, Tables
<1> QED BY <1>1 DEF Spares

LEMMA ClaimSpares ==
  ASSUME NEW s \in Tables, NEW v \in Worker, NEW t \in Task, NEW now \in Nat,
         s.task[t].attempt # 0, s.worker[v].cap \in Capability
  PROVE  LET r == Claim(s, v, t, now)
             n == Len(s.lease) + 1
         IN  /\ r.lease[n].worker = v /\ r.lease[n].state = "active"
             /\ r.lease[n].expires = now + LeaseTerm
             /\ \A w \in Worker : Spares(s, r, w)
<1> DEFINE cap == s.worker[v].cap
           lease == [task |-> t, worker |-> v, attempt |-> s.task[t].attempt,
                     device |-> IF cap.gpu THEN cap.device ELSE NoDevice,
                     state |-> "active", expires |-> now + LeaseTerm]
           r == Claim(s, v, t, now)
<1>1. s.lease \in Seq(LeaseRow) /\ s.task[t] \in TaskRow /\ Len(s.lease) \in Nat
      /\ DOMAIN s.lease = 1 .. Len(s.lease)
  BY TablesFacts
<1>2. lease \in LeaseRow
  <2>1. now + LeaseTerm \in Nat /\ "active" \in LeaseState
    BY TermsAssumption DEF LeaseState
  <2>2. (IF cap.gpu THEN cap.device ELSE NoDevice) \in Device \cup {NoDevice}
    BY CapabilityAssumption
  <2> QED BY <1>1, <2>1, <2>2 DEF LeaseRow, TaskRow
<1>3. lease.worker = v /\ lease.state = "active" /\ lease.expires = now + LeaseTerm
  OBVIOUS
<1>4. r.worker = s.worker /\ r.lease = Append(s.lease, lease)
  BY DEF Claim, Tables
<1> HIDE DEF lease, r
<1>5. /\ r.lease[Len(s.lease) + 1] = lease
      /\ \A l \in DOMAIN s.lease : r.lease[l] = s.lease[l]
  BY <1>1, <1>2, <1>4, AppendProperties
<1>6. \A w \in Worker : Spares(s, r, w)
  BY <1>4, <1>5 DEF Spares
<1> QED BY <1>3, <1>5, <1>6 DEF r

(* Reaping spares the workers and leases that have not expired. *)
LEMMA ReapSpares ==
  ASSUME NEW s \in Tables, NEW now \in Nat, NEW w \in Worker
  PROVE  LET r == Reap(s, now)
         IN  /\ Len(r.lease) = Len(s.lease)
             /\ s.worker[w].status # "active" => r.worker[w] = s.worker[w]
             /\ s.worker[w].expires > now => r.worker[w] = s.worker[w]
             /\ \A l \in DOMAIN s.lease :
                  /\ s.lease[l].worker = w
                  /\ s.worker[w].status = "active" /\ s.worker[w].expires > now
                  /\ s.lease[l].expires > now
                  => r.lease[l] = s.lease[l]
<1> DEFINE lost == LostWorkers(s, now)
           ended == {l \in ActiveLeases(s) : \/ s.lease[l].worker \in lost
                                             \/ s.lease[l].expires <= now}
           marked == MarkWorkers(s, lost, "lost")
           freed == FreeDevices(marked, lost)
           r == EndLeases(freed, ended)
<1>1. "lost" \in WorkerStatus \ {"active"} /\ s.worker[w] \in WorkerRow
      /\ \A l \in DOMAIN s.lease : s.lease[l] \in LeaseRow
  BY TablesFacts DEF WorkerStatus
<1>2. ended \in SUBSET DOMAIN s.lease /\ Reap(s, now) = r
  BY DEF ActiveLeases, Reap
<1>3. /\ s.worker[w].status # "active" => w \notin lost
      /\ s.worker[w].expires > now => w \notin lost
  BY <1>1 DEF LostWorkers, WorkerRow
<1>4. \A l \in DOMAIN s.lease :
        s.lease[l].worker = w /\ w \notin lost /\ s.lease[l].expires > now => l \notin ended
  BY <1>1 DEF LeaseRow
<1> HIDE DEF lost, ended, marked, freed, r
<1>5. /\ marked \in Tables /\ marked.lease = s.lease
      /\ w \notin lost => marked.worker[w] = s.worker[w]
  BY <1>1, MarkWorkersColumns DEF marked
<1>6. freed \in Tables /\ freed.worker = marked.worker /\ freed.lease = s.lease
  BY <1>5, FreeDevicesColumns DEF freed
<1>7. /\ r.worker = freed.worker /\ Len(r.lease) = Len(s.lease)
      /\ \A l \in DOMAIN s.lease \ ended : r.lease[l] = s.lease[l]
  BY <1>2, <1>6, EndLeasesColumns DEF r
<1> QED BY <1>2, <1>3, <1>4, <1>5, <1>6, <1>7


(* What the steps do to InTouch. *)

LEMMA SparedInTouch ==
  ASSUME NEW s, NEW r, NEW w, Spares(s, r, w), NEW leased, NEW l, NEW beat, NEW now,
         leased => l \in DOMAIN s.lease /\ s.lease[l].worker = w,
         InTouch(s, w, leased, l, beat, now)
  PROVE  InTouch(r, w, leased, l, beat, now)
BY DEF Spares, InTouch

LEMMA ReapInTouch ==
  ASSUME SilenceEnough, NEW s \in Tables, NEW now \in Nat, NEW w \in Worker,
         NEW leased, NEW l, NEW beat \in Nat, NEW time \in Nat, now <= time,
         leased => l \in DOMAIN s.lease /\ s.lease[l].worker = w,
         InTouch(s, w, leased, l, beat, time)
  PROVE  InTouch(Reap(s, now), w, leased, l, beat, time)
<1> DEFINE r == Reap(s, now)
<1>1. CASE s.worker[w].status = "retired" \/ time > beat + Silence
  BY <1>1, ReapSpares DEF InTouch
<1>2. CASE /\ ~(time > beat + Silence)
           /\ s.worker[w].status = "active"
           /\ s.worker[w].expires + MaxLag >= beat + WorkerTimeout
           /\ leased => s.lease[l].state = "active" /\ s.lease[l].expires >= beat + LeaseTerm
  <2>1. /\ Silence \in Nat /\ MaxLag \in Nat /\ WorkerTimeout \in Nat /\ LeaseTerm \in Nat
        /\ Silence < LeaseTerm /\ Silence + MaxLag < WorkerTimeout
        /\ s.worker[w].expires \in Nat
        /\ leased => s.lease[l].expires \in Nat
    BY SilenceAssumption, LagAssumption, TermsAssumption, TablesFacts
       DEF SilenceEnough, WorkerRow, LeaseRow
  <2>2. s.worker[w].expires > now
    BY <1>2, <2>1
  <2>3. leased => s.lease[l].expires > now
    BY <1>2, <2>1
  <2>4. r.worker[w] = s.worker[w] /\ (leased => r.lease[l] = s.lease[l])
    BY <1>2, <2>2, <2>3, ReapSpares
  <2> HIDE DEF r
  <2>5. InTouch(r, w, leased, l, beat, time)
    BY <1>2, <2>4 DEF InTouch
  <2> QED BY <2>5 DEF r
<1> QED BY <1>1, <1>2 DEF InTouch

(* Worker w, which is between its registration and the end of its process, is *)
(* as much in touch with the tables r as it was. *)
StaysInTouch(w, r) ==
  InTouch(r, w, run[w].at # "registered", run[w].lease, run[w].beat, clock)

LEMMA PresentFacts ==
  ASSUME PlacementInv, TimeInv, NEW w \in Worker, run[w].at \in Present
  PROVE  /\ run[w].beat \in Nat /\ run[w].beat <= clock
         /\ StaysInTouch(w, db)
         /\ run[w].at # "registered" =>
              run[w].lease \in DOMAIN db.lease /\ db.lease[run[w].lease].worker = w
BY DEF PlacementInv, RunInv, RunRow, TimeInv, OnTime, Present, StaysInTouch

(* The times a call may carry lie in the past. *)
Until == 0 .. clock

LEMMA NowIsPast ==
  clock \in Nat => /\ Now \subseteq Until
                   /\ \A now \in Now : clock <= now + MaxLag
                   /\ \A now \in Until : now \in Nat /\ now <= clock
BY LagAssumption DEF Now, Until

(* The lease a worker presents is its own, in whatever tables come next. *)
LEMMA OwnLease ==
  ASSUME PlacementInv, TimeInv, NEW w \in Worker, run[w].at \notin {"idle", "registered"},
         NEW r, Step(db, r)
  PROVE  run[w].lease \in DOMAIN r.lease /\ r.lease[run[w].lease].worker = w
BY LeasesRemain DEF PlacementInv, RunInv, TimeInv, OnTime, Step

LEMMA ReapStays ==
  ASSUME SilenceEnough, PlacementInv, TimeInv, NEW w \in Worker, run[w].at \in Present,
         NEW now \in Until
  PROVE  StaysInTouch(w, Reaped(now))
<1>1. now \in Nat /\ now <= clock /\ clock \in Nat /\ db \in Tables
  BY NowIsPast DEF PlacementInv, TableInv
<1> QED BY <1>1, PresentFacts, ReapInTouch DEF StaysInTouch, Reaped

(* A transaction that spares the worker. *)
LEMMA SparingStays ==
  ASSUME SilenceEnough, PlacementInv, TimeInv, NEW w \in Worker, run[w].at \in Present,
         NEW now \in Until, NEW r, Spares(Reaped(now), r, w)
  PROVE  StaysInTouch(w, r)
<1>1. Step(db, Reaped(now))
  BY ReapedStep, NowIsPast DEF PlacementInv
<1>2. run[w].at # "registered" =>
        /\ run[w].lease \in DOMAIN Reaped(now).lease
        /\ Reaped(now).lease[run[w].lease].worker = w
  BY <1>1, OwnLease DEF Present
<1> QED BY <1>2, ReapStays, SparedInTouch DEF StaysInTouch

LEMMA SparingStaysUnreaped ==
  ASSUME PlacementInv, TimeInv, NEW w \in Worker, run[w].at \in Present,
         NEW r, Spares(db, r, w)
  PROVE  StaysInTouch(w, r)
BY PresentFacts, SparedInTouch DEF StaysInTouch

LEMMA ClientsStay ==
  ASSUME SilenceEnough, PlacementInv, TimeInv, NEW w \in Worker, run[w].at \in Present,
         \/ \E t \in Task : SubmitTask(t)
         \/ ReapExpired
         \/ \E v \in Worker : RetireWorker(v) \/ HeartbeatWorker(v) \/ GiveUp(v)
  PROVE  StaysInTouch(w, db')
<1>1. /\ db \in Tables /\ clock \in Nat
      /\ \A now \in Now : /\ TableInv(Reaped(now)) /\ Reaped(now) \in Tables
                          /\ Step(db, Reaped(now)) /\ now \in Nat
                          /\ now \in Until /\ clock <= now + MaxLag
  BY ReapedStep, NowIsPast DEF PlacementInv, TableInv
<1>2. CASE \E t \in Task : SubmitTask(t)
  BY <1>2, SubmitSpares, SparingStaysUnreaped DEF SubmitTask
<1>3. CASE ReapExpired
  BY <1>1, <1>3, ReapStays DEF ReapExpired
<1>4. ASSUME NEW v \in Worker, RetireWorker(v)
      PROVE  StaysInTouch(w, db')
  <2>1. db' = Retire(db, v)
    BY <1>4 DEF RetireWorker
  <2>2. CASE v = w
    BY <1>1, <2>1, <2>2, RetireSpares DEF StaysInTouch, InTouch
  <2>3. CASE v # w
    BY <1>1, <2>1, <2>3, RetireSpares, SparingStaysUnreaped
  <2> QED BY <2>2, <2>3
<1>5. ASSUME NEW v \in Worker, HeartbeatWorker(v)
      PROVE  StaysInTouch(w, db')
  <2>1. PICK now \in Now : /\ Reaped(now).worker[v].status = "active"
                           /\ db' = BeatWorker(Reaped(now), v, now)
    BY <1>5 DEF HeartbeatWorker
  <2> DEFINE s == Reaped(now)
  <2>2. /\ db'.worker[v].status = s.worker[v].status
        /\ db'.worker[v].expires = now + WorkerTimeout
        /\ db'.lease = s.lease
        /\ \A u \in Worker \ {v} : Spares(s, db', u)
    BY <1>1, <2>1, BeatWorkerSpares
  <2>3. CASE v # w
    BY <1>1, <2>2, <2>3, SparingStays
  <2>4. CASE v = w
    <3>1. StaysInTouch(w, s)
      BY <1>1, ReapStays
    <3>2. db'.worker[w].expires + MaxLag >= run[w].beat + WorkerTimeout
      <4>1. /\ now \in Nat /\ clock <= now + MaxLag /\ run[w].beat <= clock
            /\ run[w].beat \in Nat /\ clock \in Nat
        BY <1>1, PresentFacts
      <4>2. MaxLag \in Nat /\ WorkerTimeout \in Nat
        BY LagAssumption, TermsAssumption
      <4> QED BY <2>2, <2>4, <4>1, <4>2
    <3> HIDE DEF s
    <3> QED BY <2>1, <2>2, <2>4, <3>1, <3>2 DEF StaysInTouch, InTouch, s
  <2> QED BY <2>3, <2>4
<1>6. ASSUME NEW v \in Worker, GiveUp(v)
      PROVE  StaysInTouch(w, db')
  <2>1. PICK now \in Now : db' = Fail(Reaped(now), run[v].lease, FALSE)
    BY <1>6 DEF GiveUp
  <2>2. run[v].at = "reporting" /\ v # w
    BY <1>6 DEF GiveUp, Present
  <2>3. /\ run[v].lease \in DOMAIN Reaped(now).lease
        /\ Reaped(now).lease[run[v].lease].worker = v
    BY <1>1, <2>2, OwnLease
  <2> QED BY <1>1, <2>1, <2>2, <2>3, FailSpares, SparingStays
<1> QED BY <1>2, <1>3, <1>4, <1>5, <1>6

(* A claim spares every worker, the claimant included. *)
LEMMA ClaimStays ==
  ASSUME SilenceEnough, PlacementInv, TimeInv, NEW w \in Worker, run[w].at \in Present,
         NEW v \in Worker, ClaimTask(v)
  PROVE  StaysInTouch(w, db')
<1> DEFINE now == run[v].beat
           s == Reaped(now)
<1>1. now \in Until /\ now \in Nat
  BY PresentFacts, NowIsPast DEF ClaimTask, Present, PlacementInv, Until
<1>2. TableInv(s) /\ s \in Tables /\ s.worker[v].status = "active"
  BY <1>1, ReapedStep DEF ClaimTask, MayClaim, TableInv
<1>3. CASE db' = s
  BY <1>1, <1>3, ReapStays
<1>4. ASSUME NEW t \in Selected(s, v), db' = Claim(s, v, t, now)
      PROVE  StaysInTouch(w, db')
  <2>1. t \in Task /\ s.task[t].attempt # 0 /\ s.worker[v].cap \in Capability
    BY <1>2, SelectedFacts DEF TableInv, TaskShape, WorkerShape
  <2>2. Spares(s, db', w)
    BY <1>1, <1>2, <1>4, <2>1, ClaimSpares
  <2> QED BY <1>1, <2>2, SparingStays
<1> QED BY <1>3, <1>4 DEF ClaimTask

(* What the program of worker v does to another worker.                       *)
LEMMA OthersStay ==
  ASSUME SilenceEnough, PlacementInv, TimeInv, NEW w \in Worker, run[w].at \in Present,
         NEW v \in Worker, v # w, RunOnce(v)
  PROVE  StaysInTouch(w, db')
<1>1. /\ db \in Tables /\ clock \in Nat
      /\ \A now \in Nat : /\ TableInv(Reaped(now)) /\ Reaped(now) \in Tables
                          /\ Step(db, Reaped(now))
      /\ Now \subseteq Nat /\ Now \subseteq Until
  BY ReapedStep, NowFacts, NowIsPast DEF PlacementInv, TableInv
<1>2. ASSUME NEW now \in Now, run[v].at \notin {"idle", "registered"}
      PROVE  /\ run[v].lease \in DOMAIN Reaped(now).lease
             /\ Reaped(now).lease[run[v].lease].worker = v
  BY <1>1, <1>2, OwnLease
<1>3. CASE db' = db
  BY <1>3, PresentFacts
<1>4. CASE RegisterWorker(v)
  <2>1. PICK now \in Now, cap \in Capability : db' = Register(Reaped(now), v, cap, now)
    BY <1>4 DEF RegisterWorker
  <2> QED BY <1>1, <2>1, RegisterSpares, SparingStays
<1>5. CASE ClaimTask(v)
  BY <1>1, <1>5, ClaimStays
<1>6. CASE StartTask(v)
  <2>1. db' = db \/ \E now \in Now : db' = Start(Reaped(now), run[v].lease)
    BY <1>6 DEF StartTask
  <2> QED BY <1>1, <1>3, <2>1, StartSpares, SparingStays
<1>7. CASE Heartbeat(v)
  <2>1. \/ db' = db
        \/ \E now \in Now : /\ IsActive(Reaped(now), run[v].lease)
                            /\ db' = BeatLease(Reaped(now), run[v].lease, now)
    BY <1>7 DEF Heartbeat
  <2>2. ASSUME NEW now \in Now, IsActive(Reaped(now), run[v].lease),
               db' = BeatLease(Reaped(now), run[v].lease, now)
        PROVE  StaysInTouch(w, db')
    <3>1. /\ run[v].lease \in DOMAIN Reaped(now).lease
          /\ Reaped(now).lease[run[v].lease].worker = v
      BY <1>2, <1>7 DEF Heartbeat
    <3>2. Reaped(now).worker[v].status = "active"
      BY <1>1, <2>2, <3>1 DEF TableInv, LeaseShape, Held, IsActive
    <3> DEFINE s == Reaped(now)
    <3>3. s \in Tables /\ now \in Until
      BY <1>1
    <3> HIDE DEF s
    <3>4. Spares(s, db', w)
      BY <2>2, <3>1, <3>2, <3>3, BeatLeaseSpares DEF s
    <3> QED BY <3>3, <3>4, SparingStays DEF s
  <2> QED BY <1>3, <2>1, <2>2
<1>8. CASE CompleteTask(v)
  <2>1. db' = db \/ \E now \in Now : db' = Complete(Reaped(now), run[v].lease)
    BY <1>8 DEF CompleteTask
  <2>2. run[v].at \notin {"idle", "registered"}
    BY <1>8 DEF CompleteTask
  <2> QED BY <1>1, <1>2, <1>3, <2>1, <2>2, CompleteSpares, SparingStays
<1>9. CASE FailTask(v)
  <2>1. db' = db \/ \E now \in Now : db' = Fail(Reaped(now), run[v].lease, TRUE)
    BY <1>9 DEF FailTask
  <2>2. run[v].at \notin {"idle", "registered"}
    BY <1>9 DEF FailTask
  <2> QED BY <1>1, <1>2, <1>3, <2>1, <2>2, FailSpares, SparingStays
<1>10. CASE \/ ClaimRefused(v) \/ BuildFails(v) \/ Spawn(v) \/ Abandon(v)
            \/ Terminated(v) \/ ProcessExits(v) \/ Crash(v)
  BY <1>3, <1>10 DEF ClaimRefused, BuildFails, Spawn, Abandon, Terminated, ProcessExits, Crash
<1> QED BY <1>4, <1>5, <1>6, <1>7, <1>8, <1>9, <1>10 DEF RunOnce


(* A worker of which the step changes nothing that OnTime looks at, and whose *)
(* tables leave it in touch.                                                  *)
LEMMA UnmovedOnTime ==
  ASSUME PlacementInv, TimeInv, Step(db, db'), clock' = clock, NEW w \in Worker,
         run'[w].at \notin {"idle", "registered"} =>
           run[w].at \notin {"idle", "registered"} /\ run'[w].lease = run[w].lease,
         run'[w].at \in Present =>
           /\ run[w].at \in Present /\ StaysInTouch(w, db')
           /\ run'[w].lease = run[w].lease /\ run'[w].beat = run[w].beat
           /\ run'[w].at = "registered" <=> run[w].at = "registered"
  PROVE  OnTime(w)'
<1>1. run'[w].at \notin {"idle", "registered"} => db'.lease[run'[w].lease].worker = w
  BY OwnLease
<1>2. run'[w].at \in Present =>
        /\ run'[w].beat <= clock'
        /\ InTouch(db', w, run'[w].at # "registered", run'[w].lease, run'[w].beat, clock')
  BY PresentFacts DEF StaysInTouch
<1> QED BY <1>1, <1>2 DEF OnTime

LEMMA TickOnTime ==
  ASSUME PlacementInv, TimeInv, Tick, NEW w \in Worker
  PROVE  OnTime(w)'
<1>1. db' = db /\ run' = run /\ clock' = clock + 1 /\ clock \in Nat /\ OnTime(w)
  BY DEF Tick, PlacementInv, TimeInv
<1>2. run[w].at \in Present => run[w].beat \in Nat /\ Silence \in Nat
  BY SilenceAssumption, PresentFacts
<1>3. run[w].at \in Present /\ clock > run[w].beat + Silence => clock' > run[w].beat + Silence
  BY <1>1, <1>2
<1>4. run[w].at \in Present /\ run[w].beat <= clock => run[w].beat <= clock'
  BY <1>1, <1>2
<1> QED BY <1>1, <1>3, <1>4 DEF OnTime, InTouch

LEMMA IdleOnTime ==
  ASSUME NEW w \in Worker, Return(w), run \in [Worker -> RunRow]
  PROVE  OnTime(w)'
<1>1. run'[w].at = "idle"
  BY DEF Return, Idle
<1> QED BY <1>1 DEF OnTime, Present

(* The calls that set the time of the last renewal. *)
LEMMA RegisterOnTime ==
  ASSUME PlacementInv, NEW w \in Worker, RegisterWorker(w)
  PROVE  OnTime(w)'
<1>1. PICK now \in Now, cap \in Capability :
        /\ db' = Register(Reaped(now), w, cap, now)
        /\ run' = [run EXCEPT ![w] = [at |-> "registered", lease |-> 0, beat |-> now]]
  BY DEF RegisterWorker
<1>2. clock \in Nat /\ clock' = clock /\ now \in Nat /\ now <= clock
  BY NowIsPast DEF PlacementInv, RegisterWorker
<1>3. Reaped(now) \in Tables
  BY <1>2, ReapedStep DEF TableInv
<1>4. db'.worker[w].status = "active" /\ db'.worker[w].expires = now + WorkerTimeout
  BY <1>1, <1>3, RegisterSpares
<1>5. run'[w].at = "registered" /\ run'[w].beat = now
  BY <1>1 DEF PlacementInv, RunInv
<1>6. db'.worker[w].expires + MaxLag >= now + WorkerTimeout
  BY <1>2, <1>4, LagAssumption, TermsAssumption
<1> QED BY <1>2, <1>4, <1>5, <1>6 DEF OnTime, InTouch

LEMMA ClaimOnTime ==
  ASSUME SilenceEnough, PlacementInv, TimeInv, NEW w \in Worker, ClaimTask(w)
  PROVE  OnTime(w)'
<1> DEFINE now == run[w].beat
           s == Reaped(now)
           n == Len(db.lease) + 1
<1>1. /\ run[w].at = "registered" /\ run[w].at \in Present /\ clock' = clock
      /\ run \in [Worker -> RunRow] /\ run[w] \in RunRow
  BY DEF ClaimTask, Present, PlacementInv, RunInv
<1>2. now \in Nat /\ now <= clock
  BY <1>1, PresentFacts
<1>3. /\ TableInv(s) /\ s \in Tables /\ s.worker[w].status = "active"
      /\ Len(s.lease) = Len(db.lease)
  BY <1>2, ReapedStep, ReapSpares DEF ClaimTask, MayClaim, PlacementInv, TableInv, Reaped
<1>4. StaysInTouch(w, db')
  BY <1>1, ClaimStays
<1>5. CASE Return(w)
  BY <1>1, <1>5, IdleOnTime
<1>6. ASSUME NEW t \in Selected(s, w), db' = Claim(s, w, t, now),
             run' = [run EXCEPT ![w] = [@ EXCEPT !.at = "claimed",
                                                 !.lease = Len(db.lease) + 1]]
      PROVE  OnTime(w)'
  <2>1. t \in Task /\ s.task[t].attempt # 0 /\ s.worker[w].cap \in Capability
    BY <1>3, SelectedFacts DEF TableInv, TaskShape, WorkerShape
  <2> HIDE DEF s
  <2>2. /\ db'.lease[n].worker = w /\ db'.lease[n].state = "active"
        /\ db'.lease[n].expires = now + LeaseTerm
    BY <1>2, <1>3, <1>6, <2>1, ClaimSpares
  <2>3. run'[w].at = "claimed" /\ run'[w].lease = n /\ run'[w].beat = now
    BY <1>1, <1>6 DEF RunRow
  <2>4. now + LeaseTerm >= now + LeaseTerm
    BY <1>2, TermsAssumption
  <2>5. InTouch(db', w, TRUE, n, now, clock)
    BY <1>4, <2>2, <2>4 DEF StaysInTouch, InTouch
  <2> QED BY <1>1, <1>2, <2>2, <2>3, <2>5 DEF OnTime
<1> QED BY <1>5, <1>6 DEF ClaimTask

LEMMA HeartbeatOnTime ==
  ASSUME PlacementInv, TimeInv, NEW w \in Worker, Heartbeat(w), NEW now \in Now,
         IsActive(Reaped(now), run[w].lease),
         db' = BeatLease(Reaped(now), run[w].lease, now),
         run' = [run EXCEPT ![w].beat = now]
  PROVE  OnTime(w)'
<1> DEFINE s == Reaped(now)
           l == run[w].lease
<1>1. clock \in Nat /\ clock' = clock /\ now \in Nat /\ now <= clock
  BY NowIsPast DEF PlacementInv, Heartbeat
<1>2. TableInv(s) /\ s \in Tables /\ Step(db, s)
  BY <1>1, ReapedStep DEF TableInv
<1>3. run[w].at = "running" /\ run[w] \in RunRow /\ run \in [Worker -> RunRow]
  BY DEF Heartbeat, PlacementInv, RunInv
<1>4. l \in DOMAIN s.lease /\ s.lease[l].worker = w /\ s.lease[l].state = "active"
  BY <1>2, <1>3, OwnLease DEF IsActive
<1>5. s.worker[w].status = "active"
  BY <1>2, <1>4 DEF TableInv, LeaseShape, Held
<1>6. db' = BeatLease(s, l, now) /\ Step(s, db')
  BY <1>1, <1>2, <1>4, BeatLeaseStep
<1> HIDE DEF s
<1>7. /\ db'.worker[w].status = "active" /\ db'.worker[w].expires = now + WorkerTimeout
      /\ db'.lease[l].state = "active" /\ db'.lease[l].expires = now + LeaseTerm
  BY <1>2, <1>4, <1>5, <1>6, BeatLeaseSpares
<1>8. db'.lease[l].worker = w
  BY <1>4, <1>6 DEF Step
<1>9. run'[w].at = "running" /\ run'[w].lease = l /\ run'[w].beat = now
  BY <1>3 DEF RunRow
<1>10. /\ db'.worker[w].expires + MaxLag >= now + WorkerTimeout
       /\ db'.lease[l].expires >= now + LeaseTerm
  BY <1>1, <1>7, LagAssumption, TermsAssumption
<1>11. InTouch(db', w, TRUE, l, now, clock)
  BY <1>7, <1>10 DEF InTouch
<1> QED BY <1>1, <1>8, <1>9, <1>11 DEF OnTime

(* What the program of a worker does to the worker itself. *)
LEMMA OwnStepOnTime ==
  ASSUME SilenceEnough, PlacementInv, TimeInv, Step(db, db'), NEW w \in Worker, RunOnce(w)
  PROVE  OnTime(w)'
<1>1. run \in [Worker -> RunRow] /\ run[w] \in RunRow
  BY DEF PlacementInv, RunInv
<1>2. CASE Return(w)
  BY <1>1, <1>2, IdleOnTime
<1>3. ASSUME NEW where \in {"started", "running", "stopping", "succeeded", "reporting"},
             Goto(w, where), run[w].at \in Present \ {"registered"}, clock' = clock,
             where \in Present => StaysInTouch(w, db')
      PROVE  OnTime(w)'
  <2>1. /\ run'[w].at = where /\ run'[w].lease = run[w].lease
        /\ where \in Present => run'[w].beat = run[w].beat
    BY <1>1, <1>3 DEF Goto, RunRow, Present
  <2> QED BY <1>3, <2>1, UnmovedOnTime DEF Present
<1>4. ASSUME db' = db, run[w].at \in Present
      PROVE  StaysInTouch(w, db')
  BY <1>4, PresentFacts
<1>5. CASE StartTask(w)
  <2>1. PICK now \in Now :
          IF IsActive(Reaped(now), run[w].lease)
            THEN db' = Start(Reaped(now), run[w].lease) /\ Goto(w, "started")
            ELSE UNCHANGED db /\ Return(w)
    BY <1>5 DEF StartTask
  <2>2. CASE db' = Start(Reaped(now), run[w].lease) /\ Goto(w, "started")
    <3>1. run[w].at \in Present \ {"registered"} /\ clock' = clock
      BY <1>5 DEF StartTask, Present
    <3>2. now \in Until /\ Reaped(now) \in Tables
      BY ReapedStep, NowIsPast DEF PlacementInv, TableInv
    <3>3. StaysInTouch(w, db')
      BY <2>2, <3>1, <3>2, StartSpares, SparingStays
    <3> QED BY <1>3, <2>2, <3>1, <3>3
  <2> QED BY <1>2, <2>1, <2>2
<1>6. CASE Heartbeat(w)
  <2>1. /\ run[w].at \in Present \ {"registered"} /\ clock' = clock
        /\ \/ db' = db /\ Goto(w, "stopping")
           \/ \E now \in Now :
                /\ IsActive(Reaped(now), run[w].lease)
                /\ db' = BeatLease(Reaped(now), run[w].lease, now)
                /\ run' = [run EXCEPT ![w].beat = now]
    BY <1>6 DEF Heartbeat, Present
  <2> QED BY <1>3, <1>4, <1>6, <2>1, HeartbeatOnTime
<1>7. CASE BuildFails(w) \/ Spawn(w) \/ Abandon(w) \/ Terminated(w) \/ ProcessExits(w)
  <2>1. /\ run[w].at \in Present \ {"registered"} /\ clock' = clock /\ db' = db
        /\ \E where \in {"started", "running", "stopping", "succeeded", "reporting"} :
             Goto(w, where)
    BY <1>7 DEF BuildFails, Spawn, Abandon, Terminated, ProcessExits, Present
  <2> QED BY <1>3, <1>4, <2>1
<1>8. CASE RegisterWorker(w)
  BY <1>8, RegisterOnTime
<1>9. CASE ClaimTask(w)
  BY <1>9, ClaimOnTime
<1>10. CASE ClaimRefused(w) \/ CompleteTask(w) \/ FailTask(w) \/ Crash(w)
  BY <1>2, <1>10 DEF ClaimRefused, CompleteTask, FailTask, Crash
<1> QED BY <1>5, <1>6, <1>7, <1>8, <1>9, <1>10 DEF RunOnce

LEMMA NextKeepsTime ==
  ASSUME SilenceEnough, PlacementInv, TimeInv, [Next]_vars
  PROVE  TimeInv'
<1> SUFFICES ASSUME NEW w \in Worker
             PROVE  OnTime(w)'
  BY DEF TimeInv
<1>1. Step(db, db') /\ run \in [Worker -> RunRow]
  BY NextKeeps DEF PlacementInv, RunInv
<1>2. ASSUME run'[w] = run[w], clock' = clock, run[w].at \in Present => StaysInTouch(w, db')
      PROVE  OnTime(w)'
  BY <1>1, <1>2, UnmovedOnTime
<1>3. CASE Tick
  BY <1>3, TickOnTime
<1>4. CASE UNCHANGED vars
  BY <1>2, <1>4, PresentFacts DEF vars
<1>5. CASE \/ \E t \in Task : SubmitTask(t)
           \/ ReapExpired
           \/ \E v \in Worker : RetireWorker(v) \/ HeartbeatWorker(v) \/ GiveUp(v)
  <2>1. clock' = clock /\ (run' = run \/ \E v \in Worker : Return(v))
    BY <1>5 DEF SubmitTask, ReapExpired, RetireWorker, HeartbeatWorker, GiveUp
  <2>2. ASSUME NEW v \in Worker, Return(v)
        PROVE  OnTime(w)'
    <3>1. CASE v = w
      BY <1>1, <2>2, <3>1, IdleOnTime
    <3>2. CASE v # w
      <4>1. run'[w] = run[w]
        BY <1>1, <2>2, <3>2 DEF Return
      <4> QED BY <1>2, <1>5, <2>1, <4>1, ClientsStay
    <3> QED BY <3>1, <3>2
  <2> QED BY <1>2, <1>5, <2>1, <2>2, ClientsStay
<1>6. ASSUME NEW v \in Worker, RunOnce(v)
      PROVE  OnTime(w)'
  <2>1. CASE v = w
    BY <1>1, <1>6, <2>1, OwnStepOnTime
  <2>2. CASE v # w
    <3>1. run'[w] = run[w] /\ clock' = clock
      BY <1>1, <1>6, <2>2 DEF RunOnce, RegisterWorker, ClaimTask, ClaimRefused, BuildFails,
         StartTask, Spawn, Heartbeat, Abandon, Terminated, ProcessExits, CompleteTask,
         FailTask, Crash, Goto, Return
    <3>2. run[w].at \in Present => StaysInTouch(w, db')
      BY <1>6, <2>2, OthersStay
    <3> QED BY <1>2, <3>1, <3>2
  <2> QED BY <2>1, <2>2
<1> QED BY <1>3, <1>4, <1>5, <1>6 DEF Next

LEMMA InitOnTime == Init => TimeInv
BY DEF Init, TimeInv, OnTime, Present, Idle

(* Two workers in touch hold two leases, so two tasks and two devices. *)
LEMMA InTouchAreAlone ==
  ASSUME PlacementInv, TimeInv
  PROVE  OneProcessUnlessLate
<1> SUFFICES ASSUME NEW v \in Worker, NEW w \in Worker, v # w, Rendering(v), Rendering(w),
                    ~Late(v), ~Late(w)
             PROVE  LET a == db.lease[run[v].lease]
                        b == db.lease[run[w].lease]
                    IN  a.task # b.task /\ (a.device # b.device \/ a.device = NoDevice)
  BY DEF OneProcessUnlessLate
<1>1. ASSUME NEW u \in Worker, Rendering(u), ~Late(u)
      PROVE  /\ run[u].lease \in ActiveLeases(db)
             /\ db.lease[run[u].lease].worker = u
  <2>1. run[u].at \in Present /\ run[u].at # "registered"
    BY <1>1 DEF Rendering, Present
  <2>2. /\ run[u].lease \in DOMAIN db.lease /\ db.lease[run[u].lease].worker = u
        /\ StaysInTouch(u, db)
    BY <2>1, PresentFacts
  <2>3. db.lease[run[u].lease].state = "active"
    BY <1>1, <2>1, <2>2 DEF StaysInTouch, InTouch, Late
  <2> QED BY <2>2, <2>3 DEF ActiveLeases
<1>2. LeasesBackTasks
  BY LeasesFollow
<1> QED BY <1>1, <1>2 DEF LeasesBackTasks

-----------------------------------------------------------------------------
(* The promise of TaskDelivery.  The tables are read as its rows; a call      *)
(* makes some rows lapse when it reaps or retires, and then serves one.       *)

(* The rows of TaskDelivery as plain values, and that of task t in s. *)
RowOf(phase, round, by) == [phase |-> phase, round |-> round, by |-> by]

WaitingRow(n) == RowOf("waiting", n, NoWorker)

RowAt(s, t) == View(s)[t]

(* From s to r some held tasks are withdrawn. *)
Lapses(s, r) ==
  \A t \in Task : RowAt(r, t) = RowAt(s, t) \/ Delivery!Withdraw(RowAt(s, t), RowAt(r, t))

(* From s to r one task is served, or none. *)
Serves(s, r) ==
  \/ View(r) = View(s)
  \/ \E t \in Task : /\ Delivery!Serve(RowAt(s, t), RowAt(r, t))
                     /\ \A u \in Task \ {t} : RowAt(r, u) = RowAt(s, u)

LEMMA ViewFacts ==
  ASSUME NEW s
  PROVE  /\ View(s) = [t \in Task |-> RowAt(s, t)]
         /\ \A t \in Task :
              RowAt(s, t) = RowOf(Phase(s.task[t].state), s.task[t].attempt, By(s, t))
BY DEF View, RowAt, RowOf

LEMMA RowFacts ==
  ASSUME NEW s, NEW t \in Task
  PROVE  /\ s.task[t].state = "absent" => RowAt(s, t).phase = "absent"
         /\ s.task[t].state = "pending" =>
              RowAt(s, t) = WaitingRow(s.task[t].attempt)
         /\ s.task[t].state \in Holding =>
              RowAt(s, t) = RowOf("held", s.task[t].attempt, s.task[t].worker)
         /\ s.task[t].state = "complete" =>
              RowAt(s, t) = RowOf("delivered", s.task[t].attempt,
                                        s.lease[s.task[t].completed].worker)
         /\ s.task[t].state = "failed" =>
              RowAt(s, t) = RowOf("given up", s.task[t].attempt, NoWorker)
BY DEF View, RowAt, Phase, By, Holding, RowOf, WaitingRow

LEMMA RowKept ==
  ASSUME NEW s, TableInv(s), NEW r, Step(s, r), NEW t \in Task, r.task[t] = s.task[t]
  PROVE  RowAt(r, t) = RowAt(s, t)
<1>1. s.task[t].state = "complete" =>
        r.lease[s.task[t].completed].worker = s.lease[s.task[t].completed].worker
  BY DEF TableInv, TaskShape, Step
<1>2. By(r, t) = By(s, t)
  BY <1>1 DEF By, Phase
<1> QED BY <1>2, ViewFacts

LEMMA ReleasedLapses ==
  ASSUME NEW s, TableInv(s), NEW r, Step(s, r), NEW gone,
         NEW ended \in SUBSET ActiveLeases(s), Released(s, r, gone, ended)
  PROVE  Lapses(s, r)
<1> SUFFICES ASSUME NEW t \in Task
             PROVE  RowAt(r, t) = RowAt(s, t) \/ Delivery!Withdraw(RowAt(s, t), RowAt(r, t))
  BY DEF Lapses
<1>1. CASE s.task[t].lease \in ended
  <2>1. \A l \in ended : l # 0
    BY TablesFacts DEF TableInv, ActiveLeases
  <2>2. s.task[t].state \in Holding
    BY <1>1, <2>1 DEF TableInv, TaskShape
  <2>3. r.task[t].state = "pending" /\ r.task[t].attempt = s.task[t].attempt + 1
    BY <1>1 DEF Released
  <2>4. RowAt(s, t) = RowOf("held", s.task[t].attempt, s.task[t].worker)
    BY <2>2, RowFacts
  <2>5. RowAt(r, t) = WaitingRow(s.task[t].attempt + 1)
    BY <2>3, RowFacts
  <2> QED BY <2>4, <2>5 DEF Delivery!Withdraw, Delivery!Waiting, Delivery!Row, RowOf,
                            WaitingRow
<1>2. CASE s.task[t].lease \notin ended
  <2>1. r.task[t] = s.task[t]
    BY <1>2 DEF Released
  <2> QED BY <2>1, RowKept
<1> QED BY <1>1, <1>2

LEMMA SameTasksServe ==
  ASSUME NEW s, TableInv(s), NEW r, Step(s, r), \A t \in Task : RowAt(r, t) = RowAt(s, t)
  PROVE  Serves(s, r)
BY ViewFacts DEF Serves

LEMMA RenewedServes ==
  ASSUME NEW s, TableInv(s), NEW r, Step(s, r), Renewed(s, r)
  PROVE  Serves(s, r)
<1>1. ASSUME NEW t \in Task
      PROVE  RowAt(r, t) = RowAt(s, t)
  <2>1. CASE r.task[t] = s.task[t]
    BY <2>1, RowKept
  <2>2. CASE /\ r.task[t].state \in Holding /\ s.task[t].state \in Holding
             /\ r.task[t].worker = s.task[t].worker /\ r.task[t].attempt = s.task[t].attempt
    BY <2>2, RowFacts
  <2> QED BY <2>1, <2>2 DEF Renewed
<1> QED BY <1>1, SameTasksServe

LEMMA RoundEnds ==
  ASSUME NEW n, NEW w
  PROVE  /\ Delivery!Serve(RowOf("held", n, w), WaitingRow(n + 1))
         /\ Delivery!Serve(RowOf("held", n, w), RowOf("given up", n, NoWorker))
         /\ Delivery!Serve(RowOf("held", n, w), RowOf("delivered", n, w))
BY DEF Delivery!Serve, Delivery!Withdraw, Delivery!GiveUp, Delivery!Deliver,
       Delivery!Waiting, Delivery!Row, RowOf, WaitingRow

LEMMA FinishedServes ==
  ASSUME NEW s, TableInv(s), NEW l \in DOMAIN s.lease, IsActive(s, l),
         NEW r, Step(s, r), Finished(s, r, l)
  PROVE  Serves(s, r)
<1> DEFINE t == s.lease[l].task
           n == s.task[t].attempt
           w == s.task[t].worker
<1>1. t \in Task /\ s.task[t].state \in Holding /\ s.task[t].lease = l
  BY TablesFacts DEF TableInv, LeaseShape, LeaseRow, Held, IsActive
<1>2. s.lease[l].worker = w /\ r.lease[l].worker = w
  BY <1>1 DEF TableInv, TaskShape, Step
<1>3. \A u \in Task \ {t} : RowAt(r, u) = RowAt(s, u)
  BY RowKept DEF Finished
<1>4. RowAt(s, t) = RowOf("held", n, w)
  BY <1>1, RowFacts
<1>5. \/ r.task[t].state = "pending" /\ r.task[t].attempt = n + 1
      \/ r.task[t].state = "failed" /\ r.task[t].attempt = n
      \/ r.task[t].state = "complete" /\ r.task[t].attempt = n /\ r.task[t].completed = l
  BY DEF Finished
<1> HIDE DEF t, n, w
<1>6. \/ RowAt(r, t) = WaitingRow(n + 1)
      \/ RowAt(r, t) = RowOf("given up", n, NoWorker)
      \/ RowAt(r, t) = RowOf("delivered", n, w)
  BY <1>1, <1>2, <1>5, RowFacts
<1>7. Delivery!Serve(RowAt(s, t), RowAt(r, t))
  BY <1>4, <1>6, RoundEnds
<1> QED BY <1>1, <1>3, <1>7 DEF Serves

LEMMA SubmitServes ==
  ASSUME NEW s, TableInv(s), NEW t \in Task
  PROVE  Serves(s, Submit(s, t))
<1> DEFINE r == Submit(s, t)
<1>1. /\ Step(s, r)
      /\ \/ r = s
         \/ /\ s.task[t].state = "absent" /\ r.task[t].state = "pending"
            /\ r.task[t].attempt = 1
            /\ \A u \in Task \ {t} : r.task[u] = s.task[u]
  BY SubmitStep
<1> HIDE DEF r
<1>2. CASE r = s
  BY <1>2 DEF Serves, r
<1>3. CASE /\ s.task[t].state = "absent" /\ r.task[t].state = "pending"
           /\ r.task[t].attempt = 1
           /\ \A u \in Task \ {t} : r.task[u] = s.task[u]
  <2>1. \A u \in Task \ {t} : RowAt(r, u) = RowAt(s, u)
    BY <1>1, <1>3, RowKept
  <2>2. RowAt(s, t).phase = "absent" /\ RowAt(r, t) = WaitingRow(1)
    BY <1>3, RowFacts
  <2>3. Delivery!Serve(RowAt(s, t), RowAt(r, t))
    BY <2>2 DEF Delivery!Serve, Delivery!Enter, Delivery!Waiting, Delivery!Row,
                   RowOf, WaitingRow
  <2> QED BY <2>1, <2>3 DEF Serves, r
<1> QED BY <1>1, <1>2, <1>3

LEMMA ClaimServes ==
  ASSUME NEW s, TableInv(s), NEW w \in Worker, NEW t \in Selected(s, w),
         NEW now \in Nat, s.worker[w].status = "active"
  PROVE  Serves(s, Claim(s, w, t, now))
<1> DEFINE r == Claim(s, w, t, now)
<1>1. /\ Step(s, r) /\ t \in Task /\ s.task[t].state = "pending"
      /\ r.task[t].state = "leased" /\ r.task[t].worker = w
      /\ r.task[t].attempt = s.task[t].attempt
      /\ \A u \in Task \ {t} : r.task[u] = s.task[u]
  BY ClaimStep
<1> HIDE DEF r
<1>2. \A u \in Task \ {t} : RowAt(r, u) = RowAt(s, u)
  BY <1>1, RowKept
<1>3. /\ RowAt(s, t) = WaitingRow(s.task[t].attempt)
      /\ RowAt(r, t) = RowOf("held", s.task[t].attempt, w)
  BY <1>1, RowFacts DEF Holding
<1>4. Delivery!Serve(RowAt(s, t), RowAt(r, t))
  BY <1>3 DEF Delivery!Serve, Delivery!Take, Delivery!Row, RowOf, WaitingRow
<1> QED BY <1>1, <1>2, <1>4 DEF Serves, r

LEMMA RegisterServes ==
  ASSUME NEW s, TableInv(s), NEW w \in Worker, NEW cap \in Capability,
         NEW now \in Nat, MayRegister(s, w, cap)
  PROVE  Serves(s, Register(s, w, cap, now))
<1>1. Step(s, Register(s, w, cap, now)) /\ Register(s, w, cap, now).task = s.task
  BY RegisterStep
<1> QED BY <1>1, RowKept, SameTasksServe

(* From a to b by a step of TaskDelivery. *)
IsCall(a, b) ==
  \E gone \in SUBSET {t \in Task : a[t].phase = "held"} :
    LET mid == [t \in Task |-> IF t \in gone THEN WaitingRow(a[t].round + 1) ELSE a[t]]
    IN  \/ b = mid
        \/ \E t \in Task : Delivery!Serve(mid[t], b[t]) /\ b = [mid EXCEPT ![t] = b[t]]

(* Lapsing and then serving is a step of TaskDelivery. *)
LEMMA LapseThenServe ==
  ASSUME NEW a, NEW v, NEW b,
         a = [t \in Task |-> a[t]], v = [t \in Task |-> v[t]], b = [t \in Task |-> b[t]],
         \A t \in Task : v[t] # a[t] =>
           a[t].phase = "held" /\ v[t] = WaitingRow(a[t].round + 1),
         \/ b = v
         \/ \E t \in Task : Delivery!Serve(v[t], b[t]) /\ \A u \in Task \ {t} : b[u] = v[u]
  PROVE  IsCall(a, b)
<1> DEFINE gone == {t \in Task : v[t] # a[t]}
           mid == [t \in Task |-> IF t \in gone THEN WaitingRow(a[t].round + 1) ELSE a[t]]
<1>1. gone \in SUBSET {t \in Task : a[t].phase = "held"}
  OBVIOUS
<1>2. mid = v
  <2>1. \A t \in Task : mid[t] = v[t]
    OBVIOUS
  <2>2. mid = [t \in Task |-> mid[t]]
    OBVIOUS
  <2> HIDE DEF mid
  <2> QED BY <2>1, <2>2
<1>3. ASSUME NEW t \in Task, \A u \in Task \ {t} : b[u] = v[u]
      PROVE  b = [v EXCEPT ![t] = b[t]]
  <2> DEFINE c == [v EXCEPT ![t] = b[t]]
  <2>1. c = [u \in Task |-> c[u]] /\ \A u \in Task : c[u] = b[u]
    BY <1>3
  <2> HIDE DEF c
  <2>2. b = c
    BY <2>1
  <2> QED BY <2>2 DEF c
<1>4. \/ b = v
      \/ \E t \in Task : Delivery!Serve(v[t], b[t]) /\ b = [v EXCEPT ![t] = b[t]]
  <2>1. CASE b = v
    BY <2>1
  <2>2. ASSUME NEW t \in Task, Delivery!Serve(v[t], b[t]), \A u \in Task \ {t} : b[u] = v[u]
        PROVE  Delivery!Serve(v[t], b[t]) /\ b = [v EXCEPT ![t] = b[t]]
    BY <1>3, <2>2
  <2> QED BY <2>1, <2>2
<1> HIDE DEF gone
<1>5. \/ b = mid
      \/ \E t \in Task : Delivery!Serve(mid[t], b[t]) /\ b = [mid EXCEPT ![t] = b[t]]
  <2> HIDE DEF mid
  <2> QED BY <1>2, <1>4
<1> QED BY <1>1, <1>5 DEF IsCall

LEMMA CallKeepsPromise ==
  ASSUME NEW m, Lapses(db, m), Serves(m, db')
  PROVE  Delivery!Next
<1> DEFINE a == View(db)
           v == View(m)
           b == View(db')
<1>1. /\ a = [t \in Task |-> a[t]] /\ v = [t \in Task |-> v[t]]
      /\ b = [t \in Task |-> b[t]]
  BY DEF View
<1>2. \A t \in Task : v[t] # a[t] => a[t].phase = "held" /\ v[t] = WaitingRow(a[t].round + 1)
  BY DEF Lapses, RowAt, Delivery!Withdraw, Delivery!Waiting, Delivery!Row, WaitingRow, RowOf
<1>3. \/ b = v
      \/ \E t \in Task : Delivery!Serve(v[t], b[t]) /\ \A u \in Task \ {t} : b[u] = v[u]
  <2>1. /\ \A t \in Task : RowAt(m, t) = v[t] /\ RowAt(db', t) = b[t]
        /\ View(m) = v /\ View(db') = b
    BY DEF RowAt
  <2> HIDE DEF v, b
  <2>2. CASE View(db') = View(m)
    BY <2>1, <2>2
  <2>3. ASSUME NEW t \in Task, Delivery!Serve(RowAt(m, t), RowAt(db', t)),
               \A u \in Task \ {t} : RowAt(db', u) = RowAt(m, u)
        PROVE  Delivery!Serve(v[t], b[t]) /\ \A u \in Task \ {t} : b[u] = v[u]
    BY <2>1, <2>3
  <2> QED BY <2>2, <2>3 DEF Serves
<1> HIDE DEF a, v, b
<1>4. IsCall(a, b)
  BY <1>1, <1>2, <1>3, LapseThenServe
<1> QED BY <1>4 DEF IsCall, Delivery!Next, Delivery!Waiting, Delivery!Row, WaitingRow, RowOf,
              a, b

LEMMA SameKeepsPromise == ASSUME NEW s PROVE Lapses(s, s) /\ Serves(s, s)
BY DEF Lapses, Serves

LEMMA ReapedLapses ==
  ASSUME PlacementInv, NEW now \in Nat
  PROVE  /\ Lapses(db, Reaped(now))
         /\ TableInv(Reaped(now)) /\ DOMAIN db.lease \subseteq DOMAIN Reaped(now).lease
<1>1. TableInv(db)
  BY DEF PlacementInv
<1>2. Step(db, Reaped(now))
  BY ReapedStep
<1>3. PICK gone : \E ended \in SUBSET ActiveLeases(db) :
                    Released(db, Reaped(now), gone, ended)
  BY <1>1, ReapStep DEF Reaped
<1>4. PICK ended \in SUBSET ActiveLeases(db) : Released(db, Reaped(now), gone, ended)
  BY <1>3
<1> QED BY <1>1, <1>2, <1>4, ReleasedLapses, ReapedStep

LEMMA RetireLapses ==
  ASSUME NEW s, TableInv(s), NEW w \in Worker
  PROVE  Lapses(s, Retire(s, w))
<1>1. PICK gone : \E ended \in SUBSET ActiveLeases(s) :
                    Released(s, Retire(s, w), gone, ended)
  BY RetireStep
<1>2. PICK ended \in SUBSET ActiveLeases(s) : Released(s, Retire(s, w), gone, ended)
  BY <1>1
<1> QED BY <1>2, RetireStep, ReleasedLapses

(* What the calls of the other clients do to the tasks. *)
LEMMA ClientsServe ==
  ASSUME PlacementInv,
         \/ \E t \in Task : SubmitTask(t)
         \/ ReapExpired
         \/ \E w \in Worker : RetireWorker(w) \/ HeartbeatWorker(w) \/ GiveUp(w)
  PROVE  \E m : Lapses(db, m) /\ Serves(m, db')
<1>1. TableInv(db) /\ Now \subseteq Nat
  BY NowFacts DEF PlacementInv
<1>2. ASSUME NEW t \in Task, SubmitTask(t)
      PROVE  Serves(db, db')
  BY <1>1, <1>2, SubmitServes DEF SubmitTask
<1>3. ASSUME ReapExpired
      PROVE  Lapses(db, db')
  BY <1>1, <1>3, ReapedLapses DEF ReapExpired
<1>4. ASSUME NEW w \in Worker, RetireWorker(w)
      PROVE  Lapses(db, db')
  BY <1>1, <1>4, RetireLapses DEF RetireWorker
<1>5. ASSUME NEW w \in Worker, HeartbeatWorker(w)
      PROVE  \E now \in Nat : Lapses(db, Reaped(now)) /\ Serves(Reaped(now), db')
  <2>1. PICK now \in Now : db' = BeatWorker(Reaped(now), w, now)
    BY <1>5 DEF HeartbeatWorker
  <2>2. now \in Nat /\ Lapses(db, Reaped(now)) /\ TableInv(Reaped(now))
    BY <1>1, ReapedLapses
  <2>3. Serves(Reaped(now), db')
    BY <2>1, <2>2, BeatWorkerStep, RenewedServes
  <2> QED BY <2>2, <2>3
<1>6. ASSUME NEW w \in Worker, GiveUp(w)
      PROVE  \E now \in Nat : Lapses(db, Reaped(now)) /\ Serves(Reaped(now), db')
  <2>1. PICK now \in Now : /\ IsActive(Reaped(now), run[w].lease)
                           /\ db' = Fail(Reaped(now), run[w].lease, FALSE)
    BY <1>6 DEF GiveUp
  <2>2. /\ now \in Nat /\ Lapses(db, Reaped(now)) /\ TableInv(Reaped(now))
        /\ run[w].lease \in DOMAIN Reaped(now).lease
    BY <1>1, <1>6, ReapedLapses DEF GiveUp, PlacementInv, RunInv
  <2>3. Serves(Reaped(now), db')
    BY <2>1, <2>2, FailStep, FinishedServes
  <2> QED BY <2>2, <2>3
<1> QED BY <1>2, <1>3, <1>4, <1>5, <1>6, SameKeepsPromise

(* What run_once does to the tasks. *)
LEMMA RunOnceServes ==
  ASSUME PlacementInv, NEW w \in Worker, RunOnce(w)
  PROVE  \E m : Lapses(db, m) /\ Serves(m, db')
<1> DEFINE l == run[w].lease
<1>1. TableInv(db) /\ Now \subseteq Nat
  BY NowFacts DEF PlacementInv
<1>2. \A now \in Nat : /\ Lapses(db, Reaped(now)) /\ TableInv(Reaped(now))
                       /\ run[w].at \notin {"idle", "registered"} =>
                            l \in DOMAIN Reaped(now).lease
  BY ReapedLapses DEF PlacementInv, RunInv
<1>3. run[w].beat \in Nat
  BY DEF PlacementInv, RunInv, RunRow
<1> HIDE DEF l
<1>4. ASSUME db' = db
      PROVE  \E m : Lapses(db, m) /\ Serves(m, db')
  BY <1>4, SameKeepsPromise
<1>5. ASSUME NEW now \in Nat, Serves(Reaped(now), db')
      PROVE  \E m : Lapses(db, m) /\ Serves(m, db')
  BY <1>2, <1>5
<1>6. CASE RegisterWorker(w)
  <2>1. PICK now \in Now, cap \in Capability :
          /\ MayRegister(Reaped(now), w, cap)
          /\ db' = Register(Reaped(now), w, cap, now)
    BY <1>6 DEF RegisterWorker
  <2>2. Serves(Reaped(now), db')
    BY <1>1, <1>2, <2>1, RegisterServes
  <2> QED BY <1>1, <1>5, <2>2
<1>7. CASE ClaimTask(w)
  <2> DEFINE now == run[w].beat
  <2>1. Reaped(now).worker[w].status = "active"
    BY <1>7 DEF ClaimTask, MayClaim
  <2>2. \/ db' = Reaped(now)
        \/ \E t \in Selected(Reaped(now), w) : db' = Claim(Reaped(now), w, t, now)
    BY <1>7 DEF ClaimTask
  <2>3. Serves(Reaped(now), db')
    BY <1>2, <1>3, <2>1, <2>2, ClaimServes, SameKeepsPromise
  <2> QED BY <1>3, <1>5, <2>3
<1>8. CASE StartTask(w)
  <2>1. PICK now \in Now :
          \/ db' = db
          \/ IsActive(Reaped(now), l) /\ db' = Start(Reaped(now), l)
    BY <1>8 DEF StartTask, l
  <2>2. CASE db' = db
    BY <1>4, <2>2
  <2>3. CASE IsActive(Reaped(now), l) /\ db' = Start(Reaped(now), l)
    <3>1. Serves(Reaped(now), db')
      BY <1>1, <1>2, <1>8, <2>3, StartStep, RenewedServes DEF StartTask
    <3> QED BY <1>1, <1>5, <3>1
  <2> QED BY <2>1, <2>2, <2>3
<1>9. CASE Heartbeat(w)
  <2>1. PICK now \in Now :
          db' = db \/ db' = BeatLease(Reaped(now), l, now)
    BY <1>9 DEF Heartbeat, l
  <2>2. CASE db' = db
    BY <1>4, <2>2
  <2>3. CASE db' = BeatLease(Reaped(now), l, now)
    <3>1. Serves(Reaped(now), db')
      BY <1>1, <1>2, <1>9, <2>3, BeatLeaseStep, RenewedServes DEF Heartbeat
    <3> QED BY <1>1, <1>5, <3>1
  <2> QED BY <2>1, <2>2, <2>3
<1>10. CASE CompleteTask(w)
  <2>1. PICK now \in Now :
          \/ db' = db
          \/ MayComplete(Reaped(now), l) /\ db' = Complete(Reaped(now), l)
    BY <1>10 DEF CompleteTask, l
  <2>2. CASE db' = db
    BY <1>4, <2>2
  <2>3. CASE MayComplete(Reaped(now), l) /\ db' = Complete(Reaped(now), l)
    <3>1. l \in DOMAIN Reaped(now).lease
      BY <1>1, <1>2, <1>10 DEF CompleteTask
    <3>2. /\ Step(Reaped(now), db')
          /\ \/ db' = Reaped(now)
             \/ IsActive(Reaped(now), l) /\ Finished(Reaped(now), db', l)
      BY <1>1, <1>2, <2>3, <3>1, CompleteStep
    <3>3. Serves(Reaped(now), db')
      BY <1>1, <1>2, <3>1, <3>2, FinishedServes, SameKeepsPromise
    <3> QED BY <1>1, <1>5, <3>3
  <2> QED BY <2>1, <2>2, <2>3
<1>11. CASE FailTask(w)
  <2>1. PICK now \in Now :
          \/ db' = db
          \/ IsActive(Reaped(now), l) /\ db' = Fail(Reaped(now), l, TRUE)
    BY <1>11 DEF FailTask, l
  <2>2. CASE db' = db
    BY <1>4, <2>2
  <2>3. CASE IsActive(Reaped(now), l) /\ db' = Fail(Reaped(now), l, TRUE)
    <3>1. Serves(Reaped(now), db')
      BY <1>1, <1>2, <1>11, <2>3, FailStep, FinishedServes DEF FailTask
    <3> QED BY <1>1, <1>5, <3>1
  <2> QED BY <2>1, <2>2, <2>3
<1>12. CASE \/ ClaimRefused(w) \/ BuildFails(w) \/ Spawn(w) \/ Abandon(w)
            \/ Terminated(w) \/ ProcessExits(w) \/ Crash(w)
  BY <1>4, <1>12 DEF ClaimRefused, BuildFails, Spawn, Abandon, Terminated, ProcessExits, Crash
<1> QED BY <1>6, <1>7, <1>8, <1>9, <1>10, <1>11, <1>12 DEF RunOnce

LEMMA InitKeepsPromise == Init => Delivery!Init
<1> SUFFICES ASSUME Init PROVE Delivery!Init
  OBVIOUS
<1>1. db = EmptyTables
  BY DEF Init
<1>2. View(db) = [t \in Task |-> Delivery!Absent]
  BY <1>1 DEF View, Phase, By, EmptyTables, Delivery!Absent, Delivery!Row
<1> QED BY <1>2 DEF Delivery!Init

LEMMA NextKeepsPromise ==
  ASSUME PlacementInv, [Next]_vars
  PROVE  Delivery!Next
<1>1. \E m : Lapses(db, m) /\ Serves(m, db')
  <2>1. ASSUME db' = db
        PROVE  \E m : Lapses(db, m) /\ Serves(m, db')
    BY <2>1, SameKeepsPromise
  <2> QED BY <2>1, ClientsServe, RunOnceServes DEF Next, Tick, vars
<1> QED BY <1>1, CallKeepsPromise

-----------------------------------------------------------------------------
(* Theorems. *)

(* Every reachable state has sound tables, and workers that present leases    *)
(* that were granted.                                                         *)
THEOREM PlacementInvariant == Spec => []PlacementInv
BY InitHolds, NextKeeps, PTL DEF Spec

(* The leases of a worker fit what it declared, whatever it declared before.  *)
THEOREM CapacityIsHeld == Spec => []CapacityHeld
<1>1. PlacementInv => CapacityHeld
  BY DEF PlacementInv, TableInv, Capacity, Fits, CapacityHeld
<1> QED BY <1>1, PlacementInvariant, PTL

(* Every column, and every worker's program, stays within its type. *)
THEOREM PlacementTypeCorrect == Spec => []TypeOK
BY PlacementInvariant, TypesFollow, PTL

(* A task is held exactly by the one active lease that names it, of its       *)
(* current attempt, of an active worker that owns the device it was granted.  *)
THEOREM LeasesAlwaysBackTasks == Spec => []LeasesBackTasks
BY PlacementInvariant, LeasesFollow, PTL

(* A late worker never moves a task that is complete or failed, and a task is *)
(* only ever completed by the newest of its leases.                           *)
THEOREM OnlyNewestLeaseDelivers == Spec => NewestLeaseDelivers
<1>1. ASSUME PlacementInv, [Next]_vars
      PROVE  [/\ \A t \in Task :
                   db.task[t].state \in {"complete", "failed"} => db'.task[t] = db.task[t]
              /\ \A t \in Task :
                   db'.task[t].state = "complete" =>
                     /\ db'.lease[db'.task[t].completed].state = "completed"
                     /\ \A l \in DOMAIN db'.lease :
                          db'.lease[l].task = t /\ l # db'.task[t].completed =>
                            /\ l < db'.task[t].completed
                            /\ db'.lease[l].attempt < db'.task[t].attempt]_vars
  <2>1. Step(db, db') /\ TableInv(db')
    BY <1>1, NextKeeps DEF Step
  <2>2. \A t \in Task :
          db.task[t].state \in {"complete", "failed"} => db'.task[t] = db.task[t]
    BY <2>1 DEF Step
  <2>3. \A t \in Task :
          db'.task[t].state = "complete" =>
            /\ db'.lease[db'.task[t].completed].state = "completed"
            /\ \A l \in DOMAIN db'.lease :
                 db'.lease[l].task = t /\ l # db'.task[t].completed =>
                   /\ l < db'.task[t].completed
                   /\ db'.lease[l].attempt < db'.task[t].attempt
    BY <2>1, CompletedIsNewest
  <2> QED BY <2>2, <2>3
<1> QED BY <1>1, PlacementInvariant, PTL DEF Spec, NewestLeaseDelivers

(* Of two render processes on one device, or of one task, a worker of one was *)
(* retired or is late: for as long as the silence between two renewals, and   *)
(* the age of the times the calls carry, stay below the worker's timeout.     *)
THEOREM OneProcessPerLease == ASSUME SilenceEnough PROVE Spec => []OneProcessUnlessLate
<1>1. Init => PlacementInv /\ TimeInv
  BY InitHolds, InitOnTime
<1>2. PlacementInv /\ TimeInv /\ [Next]_vars => PlacementInv' /\ TimeInv'
  BY NextKeeps, NextKeepsTime
<1>3. PlacementInv /\ TimeInv => OneProcessUnlessLate
  BY InTouchAreAlone
<1> QED BY <1>1, <1>2, <1>3, PTL DEF Spec

(* The scheduler keeps the promise of TaskDelivery: whatever is lost, retired *)
(* or registered again, a task is held by one worker in each round, delivered *)
(* by the holder of its last round only, and settled once.                    *)
THEOREM TasksKeepPromise == Spec => DeliveryPromise
<1>1. Init => Delivery!Init
  BY InitKeepsPromise
<1>2. PlacementInv /\ [Next]_vars => [Delivery!Next]_(View(db))
  BY NextKeepsPromise
<1> QED BY <1>1, <1>2, PlacementInvariant, PTL DEF Spec, DeliveryPromise, Delivery!Spec
=============================================================================
