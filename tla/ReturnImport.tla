------------------------------ MODULE ReturnImport ------------------------------
(* import_quarantined_return of cloud_render/imports.py: a returned cloud     *)
(* chunk is published into the directory of the local output frames, each     *)
(* frame only if it is missing there.  The file system offers no transaction: *)
(* the two exists() checks and os.replace are steps of their own, and a call  *)
(* may raise or be killed between any two.                                    *)
EXTENDS FiniteSets

CONSTANTS
  Frame,      \* frames of the job
  Sha,        \* digests of valid frames
  Import,     \* calls of import_quarantined_return (runs of import-return)
  Absent,     \* no such file
  Torn        \* a file that is not a valid frame

ASSUME ImportAssumption == Absent \notin Sha /\ Torn \notin Sha /\ Absent # Torn

VARIABLES
  file,       \* file[f]: what the output directory holds for frame f
  call        \* call[i]: the progress of an import, see Call

importVars == <<file, call>>

Returned == UNION {[S -> Sha] : S \in (SUBSET Frame) \ {{}}}   \* frames of a chunk

Conflict == [frame : Frame, local : Sha \cup {Torn}, returned : Sha]
Call == [pc : {"idle", "look", "copied", "publish", "done", "failed"},
         content : Returned \cup {<<>>},
         frame : Frame \cup {Absent},      \* the record being imported
         todo : SUBSET Frame,
         published : SUBSET Frame, identical : SUBSET Frame,
         conflicts : SUBSET Conflict]

Begun(content) ==
  [pc |-> "look", content |-> content, frame |-> Absent, todo |-> DOMAIN content,
   published |-> {}, identical |-> {}, conflicts |-> {}]

NotBegun == [Begun(<<>>) EXCEPT !.pc = "idle", !.todo = {}]

(* Whatever the local render and its crashes left there. *)
ImportInit ==
  /\ file \in [Frame -> Sha \cup {Absent, Torn}]
  /\ call = [i \in Import |-> NotBegun]

(* Quarantine copy and validation of the manifest have succeeded. *)
Begin(i, content) ==
  /\ call[i].pc = "idle"
  /\ call' = [call EXCEPT ![i] = Begun(content)]
  /\ UNCHANGED file

(* Mutants: the returned frame wins a conflict; a conflict goes unreported.   *)
MutantRecordedReturnedWins(c, f) ==
  IF file[f] = c.content[f]
    THEN [c EXCEPT !.pc = "look", !.frame = Absent, !.identical = @ \cup {f}]
    ELSE [c EXCEPT !.pc = "publish", !.frame = f]
MutantRecordedQuietly(c, f) ==
  LET next == [c EXCEPT !.pc = "look", !.frame = Absent]
  IN  IF file[f] = c.content[f] THEN [next EXCEPT !.identical = @ \cup {f}] ELSE next

(* The destination exists: identical frames and conflicts are only recorded.  *)
Recorded(c, f) ==
  LET next == [c EXCEPT !.pc = "look", !.frame = Absent]
  IN  IF file[f] = c.content[f]
        THEN [next EXCEPT !.identical = @ \cup {f}]
        ELSE [next EXCEPT !.conflicts = @ \cup
                {[frame |-> f, local |-> file[f], returned |-> c.content[f]]}]

(* First check.  An existing frame is validated, and an invalid one raises;   *)
(* a missing one is copied to a temporary file next to its destination.       *)
Look(i, f) ==
  /\ call[i].pc = "look" /\ f \in call[i].todo
  /\ LET c == [call[i] EXCEPT !.todo = @ \ {f}]
     IN  call' = [call EXCEPT ![i] =
                    CASE file[f] = Absent -> [c EXCEPT !.pc = "copied", !.frame = f]
                      [] file[f] = Torn -> [c EXCEPT !.pc = "failed"]
                      [] OTHER -> Recorded(c, f)]
  /\ UNCHANGED file

(* Second check, after the copy: nothing is validated this time. *)
LookAgain(i) ==
  /\ call[i].pc = "copied"
  /\ call' = [call EXCEPT ![i] =
                IF file[call[i].frame] = Absent
                  THEN [call[i] EXCEPT !.pc = "publish"]
                  ELSE Recorded(call[i], call[i].frame)]
  /\ UNCHANGED file

(* os.replace: atomic, and replaces whatever is there. *)
Replace(i) ==
  LET f == call[i].frame
  IN  /\ call[i].pc = "publish"
      /\ file' = [file EXCEPT ![f] = call[i].content[f]]
      /\ call' = [call EXCEPT ![i].pc = "look", ![i].frame = Absent,
                              ![i].published = @ \cup {f}]

Return(i) ==
  /\ call[i].pc = "look" /\ call[i].todo = {}
  /\ call' = [call EXCEPT ![i].pc = "done"]
  /\ UNCHANGED file

(* A returned frame turns out to be invalid, the disk is full, or the process *)
(* is killed: no result, and the frames published so far stay.                *)
Raise(i) ==
  /\ call[i].pc \in {"look", "copied", "publish"}
  /\ call' = [call EXCEPT ![i].pc = "failed"]
  /\ UNCHANGED file

(* The local renderer, which shares the directory, finishes a frame. *)
LocalRender(f, s) ==
  /\ file[f] \in {Absent, Torn}
  /\ file' = [file EXCEPT ![f] = s]
  /\ UNCHANGED call

CallStep(i) ==
  \/ \E f \in Frame : Look(i, f)
  \/ LookAgain(i)
  \/ Replace(i)
  \/ Return(i)
  \/ Raise(i)

Running(i) == call[i].pc \in {"look", "copied", "publish"}
NobodyRuns == \A i \in Import : ~Running(i)

(* One import at a time, and no renderer meanwhile. *)
SerialNext ==
  \/ NobodyRuns /\ \E i \in Import, content \in Returned : Begin(i, content)
  \/ NobodyRuns /\ \E f \in Frame, s \in Sha : LocalRender(f, s)
  \/ \E i \in Import : CallStep(i)

SerialSpec == ImportInit /\ [][SerialNext]_importVars

(* Imports and the renderer side by side: nothing in the code keeps them      *)
(* apart.                                                                     *)
SharedNext ==
  \/ \E i \in Import, content \in Returned : Begin(i, content)
  \/ \E f \in Frame, s \in Sha : LocalRender(f, s)
  \/ \E i \in Import : CallStep(i)

SharedSpec == ImportInit /\ [][SharedNext]_importVars

-----------------------------------------------------------------------------
(* Properties. *)

(* "An existing valid local frame is never silently overwritten."             *)
NeverOverwritten ==
  [][\A f \in Frame : file[f] \in Sha => file'[f] = file[f]]_importVars

(* What a finished import reports is what the directory holds: every frame of *)
(* the chunk is in exactly one of the three lists, and the lists are right    *)
(* about the files, also after an earlier import of the same frames failed    *)
(* half way.                                                                  *)
ReportIsTrue ==
  \A i \in Import : call[i].pc = "done" =>
    LET c == call[i]
        clashing == {r.frame : r \in c.conflicts}
    IN  /\ c.published \cup c.identical \cup clashing = DOMAIN c.content
        /\ c.published \cap c.identical = {}
        /\ clashing \cap (c.published \cup c.identical) = {}
        /\ \A f \in c.published \cup c.identical : file[f] = c.content[f]
        /\ \A r \in c.conflicts :
             r.local = file[r.frame] /\ r.returned = c.content[r.frame] /\ r.local # r.returned
=============================================================================
