--------------------------- MODULE ReturnImportProofs ---------------------------
(* Imports of returned chunks: run one at a time they overwrite nothing and   *)
(* report what the directory holds; even side by side, and next to the local  *)
(* renderer, they sort every frame of their chunk into one list.  For every   *)
(* number of imports, frames and contents.                                    *)
EXTENDS ReturnImport, TLAPS

Files == Sha \cup {Absent, Torn}

Clashing(c) == {r.frame : r \in c.conflicts}
Copying(c) == c.pc \in {"copied", "publish"}
Begins(c) == c.pc \notin {"idle", "failed"}

(* The frames of a chunk are handed from todo, over the one being imported,   *)
(* into one of the three lists.                                               *)
Sorted(c, current) ==
  /\ c.content \in Returned
  /\ DOMAIN c.content =
       c.published \cup c.identical \cup Clashing(c) \cup c.todo \cup current
  /\ c.published \cap c.identical = {}
  /\ Clashing(c) \cap (c.published \cup c.identical) = {}
  /\ (c.todo \cup current) \cap (c.published \cup c.identical \cup Clashing(c)) = {}
  /\ current \cap c.todo = {}

InOrder(c) ==
  /\ Copying(c) => c.frame \in Frame /\ Sorted(c, {c.frame})
  /\ c.pc \in {"look", "done"} => Sorted(c, {})
  /\ c.pc = "done" => c.todo = {}

SortedInv ==
  /\ file \in [Frame -> Files] /\ call \in [Import -> Call]
  /\ \A i \in Import : InOrder(call[i])

(* What a call has recorded is true of the files, and a frame it found absent *)
(* is absent until it puts it there.                                          *)
Truthful(c, files) ==
  /\ Begins(c) =>
       /\ \A f \in c.published \cup c.identical : files[f] = c.content[f]
       /\ \A r \in c.conflicts : /\ r.local = files[r.frame] /\ r.local \in Sha
                                 /\ r.returned = c.content[r.frame]
                                 /\ r.local # r.returned
  /\ Copying(c) => files[c.frame] = Absent

SerialInv ==
  /\ SortedInv
  /\ \A i \in Import : Truthful(call[i], file)
  /\ \A i, j \in Import : Running(i) /\ Running(j) => i = j

-----------------------------------------------------------------------------
(* Records and contents. *)

LEMMA ContentFacts ==
  ASSUME NEW x \in Returned
  PROVE  DOMAIN x \subseteq Frame /\ \A f \in DOMAIN x : x[f] \in Sha
BY DEF Returned

(* An existing file is recorded in one of two lists, truly so if it is valid. *)
LEMMA RecordedIsSorted ==
  ASSUME NEW c \in Call, NEW f \in Frame, Sorted(c, {f}), file[f] \in Sha \cup {Torn}
  PROVE  /\ Recorded(c, f) \in Call /\ InOrder(Recorded(c, f))
         /\ Recorded(c, f).pc = "look"
<1> DEFINE r == Recorded(c, f)
           row == [frame |-> f, local |-> file[f], returned |-> c.content[f]]
<1>1. c.content[f] \in Sha /\ f \in DOMAIN c.content
  BY ContentFacts DEF Sorted
<1>2. row \in Conflict /\ row.frame = f
  BY <1>1 DEF Conflict
<1>3. CASE file[f] = c.content[f]
  <2>1. r = [pc |-> "look", content |-> c.content, frame |-> Absent, todo |-> c.todo,
             published |-> c.published, identical |-> c.identical \cup {f},
             conflicts |-> c.conflicts]
    BY <1>3 DEF Recorded, Call
  <2>2. r \in Call
    BY <2>1 DEF Call
  <2>3. Sorted(r, {})
    BY <2>1 DEF Sorted, Clashing
  <2> QED BY <2>1, <2>2, <2>3 DEF InOrder, Copying
<1>4. CASE file[f] # c.content[f]
  <2>1. r = [pc |-> "look", content |-> c.content, frame |-> Absent, todo |-> c.todo,
             published |-> c.published, identical |-> c.identical,
             conflicts |-> c.conflicts \cup {row}]
    BY <1>4 DEF Recorded, Call
  <2>2. r \in Call
    BY <1>2, <2>1 DEF Call
  <2>3. Clashing(r) = Clashing(c) \cup {f}
    BY <1>2, <2>1 DEF Clashing
  <2>4. Sorted(r, {})
    BY <2>1, <2>3 DEF Sorted
  <2> QED BY <2>1, <2>2, <2>4 DEF InOrder, Copying
<1> QED BY <1>3, <1>4

-----------------------------------------------------------------------------
(* Sorting: whoever else writes into the directory. *)

LEMMA NotBegunFacts == NotBegun \in Call /\ NotBegun.pc = "idle"
<1>1. DOMAIN <<>> = {}
  OBVIOUS
<1>2. Begun(<<>>) \in Call
  BY <1>1 DEF Begun, Call
<1>3. \A c \in Call : LET d == [c EXCEPT !.pc = "idle", !.todo = {}]
                     IN  d \in Call /\ d.pc = "idle"
  BY DEF Call
<1> QED BY <1>2, <1>3 DEF NotBegun

LEMMA SortedInit == ImportInit => SortedInv
BY NotBegunFacts DEF ImportInit, SortedInv, Files, InOrder, Copying

LEMMA BeginSorted ==
  ASSUME SortedInv, NEW i \in Import, NEW content \in Returned, Begin(i, content)
  PROVE  SortedInv'
<1>1. Begun(content) \in Call
  BY ContentFacts DEF Begun, Call
<1>2. InOrder(Begun(content))
  BY DEF Begun, InOrder, Sorted, Copying, Clashing
<1> QED BY <1>1, <1>2 DEF Begin, SortedInv

(* A call moves on: what it becomes is enough. *)
LEMMA CallMoves ==
  ASSUME SortedInv, NEW i \in Import, NEW c \in Call, InOrder(c),
         call' = [call EXCEPT ![i] = c], file' \in [Frame -> Files]
  PROVE  SortedInv'
BY DEF SortedInv

LEMMA LookSorted ==
  ASSUME SortedInv, NEW i \in Import, NEW f \in Frame, Look(i, f)
  PROVE  SortedInv'
<1> DEFINE c == [call[i] EXCEPT !.todo = @ \ {f}]
           looked == [c EXCEPT !.pc = "copied", !.frame = f]
           refused == [c EXCEPT !.pc = "failed"]
<1>1. call[i] \in Call /\ call[i].pc = "look" /\ f \in call[i].todo /\ Sorted(call[i], {})
      /\ file[f] \in Files /\ file' = file /\ file \in [Frame -> Files]
  BY DEF Look, SortedInv, InOrder
<1>2. c \in Call /\ Sorted(c, {f}) /\ c.pc = "look"
  BY <1>1 DEF Sorted, Clashing, Call
<1>3. CASE file[f] = Absent
  <2>1. call' = [call EXCEPT ![i] = looked]
    BY <1>3, ImportAssumption DEF Look
  <2>2. looked \in Call /\ looked.pc = "copied" /\ looked.frame = f
    BY <1>2 DEF Call
  <2>3. Sorted(looked, {f})
    BY <1>2 DEF Sorted, Clashing, Call
  <2> QED BY <1>1, <2>1, <2>2, <2>3, CallMoves DEF InOrder, Copying
<1>4. CASE file[f] = Torn
  <2>1. call' = [call EXCEPT ![i] = refused]
    BY <1>4, ImportAssumption DEF Look
  <2>2. refused \in Call /\ refused.pc = "failed"
    BY <1>2 DEF Call
  <2> QED BY <1>1, <2>1, <2>2, CallMoves DEF InOrder, Copying
<1>5. CASE file[f] \notin {Absent, Torn}
  <2>1. call' = [call EXCEPT ![i] = Recorded(c, f)]
    BY <1>5 DEF Look
  <2>2. file[f] \in Sha
    BY <1>1, <1>5 DEF Files
  <2> QED BY <1>1, <1>2, <2>1, <2>2, RecordedIsSorted, CallMoves
<1> QED BY <1>3, <1>4, <1>5

LEMMA LookAgainSorted ==
  ASSUME SortedInv, NEW i \in Import, LookAgain(i)
  PROVE  SortedInv'
<1> DEFINE c == call[i]
           cleared == [c EXCEPT !.pc = "publish"]
<1>1. c \in Call /\ c.pc = "copied" /\ c.frame \in Frame /\ Sorted(c, {c.frame})
      /\ file[c.frame] \in Files /\ file' = file /\ file \in [Frame -> Files]
  BY DEF LookAgain, SortedInv, InOrder, Copying
<1>2. CASE file[c.frame] = Absent
  <2>1. call' = [call EXCEPT ![i] = cleared]
    BY <1>2 DEF LookAgain
  <2>2. cleared \in Call /\ cleared.pc = "publish" /\ cleared.frame = c.frame
    BY <1>1 DEF Call
  <2>3. Sorted(cleared, {c.frame})
    BY <1>1 DEF Sorted, Clashing, Call
  <2> QED BY <1>1, <2>1, <2>2, <2>3, CallMoves DEF InOrder, Copying
<1>3. CASE file[c.frame] # Absent
  <2>1. call' = [call EXCEPT ![i] = Recorded(c, c.frame)]
    BY <1>3 DEF LookAgain
  <2>2. file[c.frame] \in Sha \cup {Torn}
    BY <1>1, <1>3 DEF Files
  <2> QED BY <1>1, <2>1, <2>2, RecordedIsSorted, CallMoves
<1> QED BY <1>2, <1>3

LEMMA ReplaceSorted ==
  ASSUME SortedInv, NEW i \in Import, Replace(i)
  PROVE  SortedInv'
<1> DEFINE c == call[i]
           put == [c EXCEPT !.pc = "look", !.frame = Absent,
                            !.published = @ \cup {c.frame}]
<1>1. c \in Call /\ c.pc = "publish" /\ c.frame \in Frame /\ Sorted(c, {c.frame})
      /\ file \in [Frame -> Files]
  BY DEF Replace, SortedInv, InOrder, Copying
<1>2. c.content[c.frame] \in Sha
  BY <1>1, ContentFacts DEF Sorted
<1>3. file' \in [Frame -> Files]
  BY <1>1, <1>2 DEF Replace, Files
<1>4. call' = [call EXCEPT ![i] = put]
  BY DEF Replace, SortedInv
<1>5. put \in Call /\ put.pc = "look"
  BY <1>1 DEF Call
<1>6. Sorted(put, {})
  BY <1>1 DEF Sorted, Clashing, Call
<1> QED BY <1>3, <1>4, <1>5, <1>6, CallMoves DEF InOrder, Copying

LEMMA EndSorted ==
  ASSUME SortedInv, NEW i \in Import, Return(i) \/ Raise(i)
  PROVE  SortedInv'
<1> DEFINE c == call[i]
           returned == [c EXCEPT !.pc = "done"]
           raised == [c EXCEPT !.pc = "failed"]
<1>1. c \in Call /\ InOrder(c) /\ file' = file /\ file \in [Frame -> Files]
  BY DEF Return, Raise, SortedInv
<1>2. CASE Return(i)
  <2>1. call' = [call EXCEPT ![i] = returned]
    BY <1>2 DEF Return, SortedInv
  <2>2. returned \in Call /\ returned.pc = "done" /\ returned.todo = {}
    BY <1>1, <1>2 DEF Return, Call
  <2>3. Sorted(returned, {})
    BY <1>1, <1>2 DEF Return, InOrder, Sorted, Clashing, Call
  <2> QED BY <1>1, <2>1, <2>2, <2>3, CallMoves DEF InOrder, Copying
<1>3. CASE Raise(i)
  <2>1. call' = [call EXCEPT ![i] = raised]
    BY <1>3 DEF Raise, SortedInv
  <2>2. raised \in Call /\ raised.pc = "failed"
    BY <1>1 DEF Call
  <2> QED BY <1>1, <2>1, <2>2, CallMoves DEF InOrder, Copying
<1> QED BY <1>2, <1>3

LEMMA LocalRenderSorted ==
  ASSUME SortedInv, NEW f \in Frame, NEW s \in Sha, LocalRender(f, s)
  PROVE  SortedInv'
BY DEF SortedInv, LocalRender, Files

LEMMA SharedStep == SortedInv /\ [SharedNext]_importVars => SortedInv'
<1> SUFFICES ASSUME SortedInv, [SharedNext]_importVars PROVE SortedInv'
  OBVIOUS
<1>1. ASSUME NEW i \in Import, CallStep(i) PROVE SortedInv'
  BY <1>1, LookSorted, LookAgainSorted, ReplaceSorted, EndSorted DEF CallStep
<1>2. CASE UNCHANGED importVars
  BY <1>2 DEF importVars, SortedInv
<1> QED BY <1>1, <1>2, BeginSorted, LocalRenderSorted DEF SharedNext

LEMMA SerialIsShared == SerialNext => SharedNext
BY DEF SerialNext, SharedNext

(* However many imports run side by side and next to the local renderer, a    *)
(* finished one has put every frame of its chunk into exactly one of its      *)
(* three lists, and none of another chunk.                                    *)
EachFrameOnce ==
  \A i \in Import : call[i].pc = "done" =>
    LET c == call[i]
    IN  /\ c.published \cup c.identical \cup Clashing(c) = DOMAIN c.content
        /\ c.published \cap c.identical = {}
        /\ Clashing(c) \cap (c.published \cup c.identical) = {}

THEOREM ReportsNameEachFrameOnce == SharedSpec => []EachFrameOnce
<1>1. SortedInv => EachFrameOnce
  BY DEF SortedInv, InOrder, Sorted, EachFrameOnce
<1> QED BY <1>1, SortedInit, SharedStep, PTL DEF SharedSpec

-----------------------------------------------------------------------------
(* Truth: imports one at a time and nobody else meanwhile.  A valid file is   *)
(* never touched, so what a call has recorded of it stays true.               *)

Kept == \A f \in Frame : file[f] \in Sha => file'[f] = file[f]

LEMMA TruthIsKept ==
  ASSUME NEW c \in Call, InOrder(c), Truthful(c, file), ~Copying(c), Kept
  PROVE  Truthful(c, file')
<1> SUFFICES ASSUME Begins(c)
             PROVE  /\ \A f \in c.published \cup c.identical : file'[f] = c.content[f]
                    /\ \A r \in c.conflicts : r.local = file'[r.frame]
  BY DEF Truthful
<1>1. c.pc \in {"look", "done"} /\ Sorted(c, {})
  BY DEF Begins, Copying, InOrder, Call
<1>2. c.content \in Returned /\ c.published \cup c.identical \subseteq DOMAIN c.content
      /\ \A r \in c.conflicts : r.frame \in DOMAIN c.content
  BY <1>1 DEF Sorted, Clashing
<1>3. DOMAIN c.content \subseteq Frame /\ \A f \in DOMAIN c.content : c.content[f] \in Sha
  BY <1>2, ContentFacts
<1> QED BY <1>2, <1>3 DEF Truthful, Kept

(* A call that does not run is not copying, so what it recorded stays true    *)
(* while the running one keeps valid files as they are.                       *)
LEMMA OthersStayTrue ==
  ASSUME SerialInv, Kept, NEW i \in Import, NEW j \in Import, i # j, Running(i)
  PROVE  Truthful(call[j], file')
<1>1. ~Copying(call[j])
  BY DEF SerialInv, Running, Copying
<1> QED BY <1>1, TruthIsKept DEF SerialInv, SortedInv

LEMMA RecordedIsTrue ==
  ASSUME NEW c \in Call, NEW f \in Frame, Sorted(c, {f}), file[f] \in Sha,
         \A g \in c.published \cup c.identical : file[g] = c.content[g],
         \A r \in c.conflicts : /\ r.local = file[r.frame] /\ r.local \in Sha
                                /\ r.returned = c.content[r.frame]
                                /\ r.local # r.returned
  PROVE  Truthful(Recorded(c, f), file)
<1> DEFINE r == Recorded(c, f)
           row == [frame |-> f, local |-> file[f], returned |-> c.content[f]]
<1>1. /\ r.pc = "look" /\ r.content = c.content /\ r.published = c.published
      /\ file[f] = c.content[f] => r.identical = c.identical \cup {f}
                                   /\ r.conflicts = c.conflicts
      /\ file[f] # c.content[f] => r.identical = c.identical
                                   /\ r.conflicts = c.conflicts \cup {row}
  BY DEF Recorded, Call
<1>2. row.frame = f /\ row.local = file[f] /\ row.returned = c.content[f]
  OBVIOUS
<1> HIDE DEF r, row
<1>3. \A g \in r.published \cup r.identical : file[g] = r.content[g]
  BY <1>1
<1>4. \A x \in r.conflicts : /\ x.local = file[x.frame] /\ x.local \in Sha
                              /\ x.returned = r.content[x.frame] /\ x.local # x.returned
  BY <1>1, <1>2
<1>5. Truthful(r, file)
  BY <1>1, <1>3, <1>4 DEF Truthful, Copying
<1> QED BY <1>5 DEF r

(* What one step of the running call makes of it. *)
Advances(i) ==
  /\ Kept
  /\ Truthful(call'[i], file')
  /\ \A j \in Import \ {i} : call'[j] = call[j]

LEMMA LookIsTrue ==
  ASSUME SerialInv, NEW i \in Import, NEW f \in Frame, Look(i, f)
  PROVE  Advances(i)
<1> DEFINE c == [call[i] EXCEPT !.todo = @ \ {f}]
<1>1. /\ call[i] \in Call /\ call[i].pc = "look" /\ f \in call[i].todo
      /\ Sorted(call[i], {}) /\ Truthful(call[i], file)
      /\ file[f] \in Files /\ file' = file
      /\ \A j \in Import \ {i} : call'[j] = call[j]
  BY DEF Look, SerialInv, SortedInv, InOrder
<1>2. /\ c \in Call /\ Sorted(c, {f}) /\ c.content = call[i].content
      /\ c.published = call[i].published /\ c.identical = call[i].identical
      /\ c.conflicts = call[i].conflicts
  BY <1>1 DEF Sorted, Clashing, Call
<1>3. /\ \A g \in c.published \cup c.identical : file[g] = c.content[g]
      /\ \A r \in c.conflicts : /\ r.local = file[r.frame] /\ r.local \in Sha
                                 /\ r.returned = c.content[r.frame] /\ r.local # r.returned
  BY <1>1, <1>2 DEF Truthful, Begins
<1>4. Truthful(call'[i], file)
  <2>1. CASE file[f] = Absent
    <3>1. call'[i] = [c EXCEPT !.pc = "copied", !.frame = f]
      BY <2>1, ImportAssumption DEF Look, SerialInv, SortedInv
    <3>2. call'[i].frame = f /\ call'[i].content = c.content
          /\ call'[i].published = c.published /\ call'[i].identical = c.identical
          /\ call'[i].conflicts = c.conflicts
      BY <1>2, <3>1 DEF Call
    <3> QED BY <1>3, <2>1, <3>2 DEF Truthful
  <2>2. CASE file[f] = Torn
    <3>1. call'[i] = [c EXCEPT !.pc = "failed"]
      BY <2>2, ImportAssumption DEF Look, SerialInv, SortedInv
    <3>2. call'[i].pc = "failed"
      BY <1>2, <3>1 DEF Call
    <3> QED BY <3>2 DEF Truthful, Begins, Copying
  <2>3. CASE file[f] \notin {Absent, Torn}
    <3>1. call'[i] = Recorded(c, f)
      BY <2>3 DEF Look, SerialInv, SortedInv
    <3>2. file[f] \in Sha
      BY <1>1, <2>3 DEF Files
    <3> QED BY <1>2, <1>3, <3>1, <3>2, RecordedIsTrue
  <2> QED BY <2>1, <2>2, <2>3
<1> QED BY <1>1, <1>4 DEF Advances, Kept

(* Nobody else writes, so the second look finds what the first one found.     *)
LEMMA LookAgainIsTrue ==
  ASSUME SerialInv, NEW i \in Import, LookAgain(i)
  PROVE  Advances(i)
<1> DEFINE c == call[i]
<1>1. c \in Call /\ c.pc = "copied" /\ Truthful(c, file) /\ file' = file
      /\ \A j \in Import \ {i} : call'[j] = call[j]
  BY DEF LookAgain, SerialInv, SortedInv
<1>2. file[c.frame] = Absent
  BY <1>1 DEF Truthful, Copying
<1>3. call'[i] = [c EXCEPT !.pc = "publish"]
  BY <1>2 DEF LookAgain, SerialInv, SortedInv
<1>4. /\ call'[i].frame = c.frame /\ call'[i].content = c.content
      /\ call'[i].published = c.published /\ call'[i].identical = c.identical
      /\ call'[i].conflicts = c.conflicts
  BY <1>1, <1>3 DEF Call
<1>5. Truthful(call'[i], file)
  BY <1>1, <1>2, <1>4 DEF Truthful, Begins
<1> QED BY <1>1, <1>5 DEF Advances, Kept

LEMMA ReplaceIsTrue ==
  ASSUME SerialInv, NEW i \in Import, Replace(i)
  PROVE  Advances(i)
<1> DEFINE c == call[i]  f == call[i].frame
<1>1. /\ c \in Call /\ c.pc = "publish" /\ f \in Frame /\ Sorted(c, {f})
      /\ Truthful(c, file) /\ file[f] = Absent /\ file \in [Frame -> Files]
  BY DEF Replace, SerialInv, SortedInv, InOrder, Copying, Truthful
<1>2. file' = [file EXCEPT ![f] = c.content[f]]
  BY DEF Replace
<1>3. /\ call'[i].pc = "look" /\ call'[i].content = c.content
      /\ call'[i].published = c.published \cup {f} /\ call'[i].identical = c.identical
      /\ call'[i].conflicts = c.conflicts
      /\ \A j \in Import \ {i} : call'[j] = call[j]
  BY <1>1 DEF Replace, SerialInv, SortedInv, Call
<1>4. Kept
  BY <1>1, <1>2, ImportAssumption DEF Kept
<1>5. /\ f \notin c.published \cup c.identical
      /\ \A r \in c.conflicts : r.frame # f /\ r.frame \in DOMAIN c.content
      /\ c.published \cup c.identical \subseteq DOMAIN c.content
      /\ DOMAIN c.content \subseteq Frame
  BY <1>1, ContentFacts DEF Sorted, Clashing
<1>6. \A g \in Frame : file'[g] = IF g = f THEN c.content[f] ELSE file[g]
  BY <1>1, <1>2
<1>7. Truthful(call'[i], file')
  BY <1>1, <1>3, <1>5, <1>6 DEF Truthful, Begins, Copying
<1> QED BY <1>3, <1>4, <1>7 DEF Advances

LEMMA EndIsTrue ==
  ASSUME SerialInv, NEW i \in Import, Return(i) \/ Raise(i)
  PROVE  Advances(i)
<1>1. /\ call[i] \in Call /\ Truthful(call[i], file) /\ file' = file
      /\ \A j \in Import \ {i} : call'[j] = call[j]
  BY DEF Return, Raise, SerialInv, SortedInv
<1>2. CASE Return(i)
  <2>1. call'[i] = [call[i] EXCEPT !.pc = "done"] /\ call[i].pc = "look"
    BY <1>2 DEF Return, SerialInv, SortedInv
  <2>2. /\ call'[i].pc = "done" /\ call'[i].content = call[i].content
        /\ call'[i].published = call[i].published
        /\ call'[i].identical = call[i].identical /\ call'[i].conflicts = call[i].conflicts
    BY <1>1, <2>1 DEF Call
  <2> QED BY <1>1, <2>1, <2>2 DEF Truthful, Begins, Copying, Advances, Kept
<1>3. CASE Raise(i)
  <2>1. call'[i].pc = "failed"
    BY <1>1, <1>3 DEF Raise, SerialInv, SortedInv, Call
  <2> QED BY <1>1, <2>1 DEF Truthful, Begins, Copying, Advances, Kept
<1> QED BY <1>2, <1>3

LEMMA CallStepKeeps ==
  ASSUME SerialInv, NEW i \in Import, CallStep(i)
  PROVE  SerialInv' /\ Kept
<1>1. Running(i)
  BY DEF CallStep, Look, LookAgain, Replace, Return, Raise, Running
<1>2. Advances(i)
  BY LookIsTrue, LookAgainIsTrue, ReplaceIsTrue, EndIsTrue DEF CallStep
<1>3. SortedInv'
  BY LookSorted, LookAgainSorted, ReplaceSorted, EndSorted DEF CallStep, SerialInv
<1>4. \A j \in Import : Truthful(call'[j], file')
  BY <1>1, <1>2, OthersStayTrue DEF Advances
<1>5. \A j \in Import \ {i} : ~Running(j)'
  BY <1>1, <1>2 DEF Advances, Running, SerialInv
<1> QED BY <1>2, <1>3, <1>4, <1>5 DEF SerialInv, Advances

LEMMA BeginKeeps ==
  ASSUME SerialInv, NobodyRuns, NEW i \in Import, NEW x \in Returned, Begin(i, x)
  PROVE  SerialInv' /\ Kept
<1>1. /\ call'[i] = Begun(x) /\ file' = file
      /\ \A j \in Import \ {i} : call'[j] = call[j] /\ ~Running(j)'
  BY DEF Begin, SerialInv, SortedInv, NobodyRuns, Running
<1>2. Truthful(Begun(x), file)
  BY DEF Begun, Truthful, Copying
<1>3. \A j \in Import : Truthful(call'[j], file')
  BY <1>1, <1>2 DEF SerialInv
<1> QED BY <1>1, <1>3, BeginSorted DEF SerialInv, Kept

LEMMA LocalRenderKeeps ==
  ASSUME SerialInv, NobodyRuns, NEW f \in Frame, NEW s \in Sha, LocalRender(f, s)
  PROVE  SerialInv' /\ Kept
<1>1. Kept
  BY ImportAssumption DEF LocalRender, Kept, SerialInv, SortedInv
<1>2. \A j \in Import : ~Copying(call[j])
  BY DEF NobodyRuns, Running, Copying
<1>3. \A j \in Import : Truthful(call[j], file')
  BY <1>1, <1>2, TruthIsKept DEF SerialInv, SortedInv
<1> QED BY <1>1, <1>3, LocalRenderSorted DEF SerialInv, LocalRender, Running

LEMMA SerialStep == SerialInv /\ [SerialNext]_importVars => SerialInv' /\ Kept
<1> SUFFICES ASSUME SerialInv, [SerialNext]_importVars PROVE SerialInv' /\ Kept
  OBVIOUS
<1>1. CASE UNCHANGED importVars
  <2>1. SortedInv'
    BY <1>1, SharedStep DEF SerialInv
  <2> QED BY <1>1, <2>1 DEF importVars, SerialInv, Running, Kept
<1> QED BY <1>1, CallStepKeeps, BeginKeeps, LocalRenderKeeps DEF SerialNext

LEMMA SerialInit == ImportInit => SerialInv
<1> SUFFICES ASSUME ImportInit PROVE SerialInv
  OBVIOUS
<1>1. SortedInv
  BY SortedInit
<1>2. \A i \in Import : call[i].pc = "idle"
  BY NotBegunFacts DEF ImportInit
<1> QED BY <1>1, <1>2 DEF SerialInv, Truthful, Begins, Copying, Running

LEMMA SerialInvariant == SerialSpec => []SerialInv
BY SerialInit, SerialStep, PTL DEF SerialSpec

(* An import that runs alone never overwrites a valid frame, whatever failed  *)
(* before it and whatever the directory held.                                 *)
THEOREM LoneImportsOverwriteNothing == SerialSpec => NeverOverwritten
<1>1. SerialInv /\ [SerialNext]_importVars =>
        [\A f \in Frame : file[f] \in Sha => file'[f] = file[f]]_importVars
  BY SerialStep DEF Kept
<1> QED BY <1>1, SerialInvariant, PTL DEF SerialSpec, NeverOverwritten

(* Its report is true when it is returned, and stays true.                    *)
THEOREM ReportsAreTrue == SerialSpec => []ReportIsTrue
<1>1. SerialInv => ReportIsTrue
  <2> SUFFICES ASSUME SerialInv, NEW i \in Import, call[i].pc = "done"
               PROVE  Sorted(call[i], {}) /\ call[i].todo = {} /\ Truthful(call[i], file)
    BY DEF ReportIsTrue, Sorted, Clashing, Truthful, Begins
  <2> QED BY DEF SerialInv, SortedInv, InOrder
<1> QED BY <1>1, SerialInvariant, PTL
=============================================================================
