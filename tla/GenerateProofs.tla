--------------------------- MODULE GenerateProofs ---------------------------
(***************************************************************************)
(* Proofs about Generate, for every number of invocations, classes,        *)
(* versions and faults.                                                    *)
(***************************************************************************)
EXTENDS Generate, TLAPS

(* The labels of an invocation that has loaded the input. *)
Loaded == Working \ {"stat", "load"}

(* Inside the loop over the classes, cls is one of them. *)
ClassInv == \A r \in Runs : pc[r] \in Loaded => cls[r] \in Classes

(* Nothing carries a time that has not come yet. *)
ClockInv == inMTime <= now /\ \A f \in Files : mtime[f] <= now

(* Versions are loaded, and written, after they exist. *)
VersionInv ==
  /\ \A r \in Runs : cfgVer[r] <= inVer
  /\ \A f \in Files : content[f] <= seen[f] /\ seen[f] <= inVer

(* An undisturbed invocation knows the input as it is. *)
LoadedOf(r) ==
  /\ Active(r) => inVer \in Versions
  /\ pc[r] \in Loaded => cfgVer[r] \in Versions \ Unparsable
  /\ calm[r] /\ pc[r] \in Working \ {"stat"} => cfgMTime[r] = inMTime
  /\ calm[r] /\ pc[r] \in Loaded => cfgVer[r] = inVer

LoadedInv == \A r \in Runs : LoadedOf(r)

(* The kinds whose dirty test is behind the invocation. *)
Checked(r) ==
  CASE pc[r] \in {"exists", "mtime"} /\ kind[r] = "cpp" -> {"h"}
    [] pc[r] = "decide" -> Kinds
    [] OTHER -> {}

(* A file found clean stays clean while nobody edits or deletes. *)
CheckedOf(r) ==
  calm[r] => \A k \in Checked(r) \ dirty[r] : ~Outdated(<<k, cls[r]>>)

CheckedInv == \A r \in Runs : CheckedOf(r)

(* The kinds an undisturbed invocation has written, or at least opened. *)
Written(r) ==
  CASE pc[r] = "open" /\ kind[r] = "cpp" -> {"h"}
    [] pc[r] = "flush" /\ kind[r] = "cpp" -> Kinds
    [] pc[r] = "flush" /\ kind[r] = "h" -> {"h"}
    [] OTHER -> {}

(* A file just opened is clean. *)
WrittenOf(r) ==
  calm[r] => \A k \in Written(r) : ~Outdated(<<k, cls[r]>>)

WrittenInv == \A r \in Runs : WrittenOf(r)

(* A file written before the last edit is not younger than the input. *)
EditInv ==
  "backdate" \notin Faults =>
    \A f \in Files : seen[f] < inVer => mtime[f] <= inMTime

(* The texts are composed, and the writing begins, with the header. *)
KindInv == \A r \in Runs : pc[r] = "render" => kind[r] = "h"

(* An invocation that opens files has composed their text. *)
ComposedInv ==
  \A r \in Runs :
    pc[r] \in {"open", "flush"} => cls[r] \notin Rejected[cfgVer[r]]

(* What exists() found is there until somebody deletes it. *)
FoundInv ==
  \A r \in Runs : calm[r] /\ pc[r] = "mtime" => content[File(r)] # Absent

(* Nobody else makes the directory that a single invocation is to make. *)
AloneInv == \A r \in Runs : Runs = {r} /\ pc[r] = "mkdir" => ~dir[kind[r]]

IInv ==
  /\ TypeOK
  /\ ClassInv
  /\ ClockInv
  /\ VersionInv
  /\ LoadedInv
  /\ CheckedInv
  /\ WrittenInv
  /\ PassedClassesClean
  /\ EditInv
  /\ KindInv
  /\ ComposedInv
  /\ RejectedNeverWritten
  /\ FoundInv
  /\ AloneInv
  /\ StopsForCause

-----------------------------------------------------------------------------
(* Type correctness. *)

(* The paths an invocation in the loop works on are outputs of the package. *)
LEMMA FileInFiles ==
  ASSUME TypeOK, ClassInv, NEW r \in Runs, pc[r] \in Loaded
  PROVE  File(r) \in Files
BY DEF TypeOK, ClassInv, File, Files

(* The types of the variables that only move an invocation about. *)
ControlOK ==
  /\ pc \in [Runs -> AtRest \union Working]
  /\ kind \in [Runs -> Kinds]
  /\ cls \in [Runs -> 1..(NumClasses + 1)]
  /\ dirty \in [Runs -> SUBSET Kinds]
  /\ ClassInv

(* The types of all the others. *)
DataOK ==
  /\ now \in 0..MaxTime
  /\ inVer \in Versions \union {Absent}
  /\ inMTime \in 0..MaxTime
  /\ content \in [Files -> Contents]
  /\ mtime \in [Files -> 0..MaxTime]
  /\ dir \in [Kinds -> BOOLEAN]
  /\ cfgMTime \in [Runs -> 0..MaxTime]
  /\ cfgVer \in [Runs -> Versions \union {Absent}]
  /\ fd \in [Runs -> BOOLEAN]
  /\ seen \in [Files -> Versions \union {Absent}]
  /\ calm \in [Runs -> BOOLEAN]

LEMMA TypeParts == TypeOK /\ ClassInv <=> ControlOK /\ DataOK
BY DEF TypeOK, ControlOK, DataOK

LEMMA EnterClassControl ==
  ASSUME ControlOK, NEW r \in Runs, NEW c \in 1..(NumClasses + 1),
         EnterClass(r, c)
  PROVE  ControlOK'
BY DEF ControlOK, EnterClass, Goto, ClassInv, Loaded, AtRest, Working, Kinds

LEMMA ForBothKindsControl ==
  ASSUME ControlOK, NEW r \in Runs, cls[r] \in Classes,
         NEW again \in Working, NEW after \in Working,
         ForBothKinds(r, again, after), UNCHANGED cls,
         dirty' \in [Runs -> SUBSET Kinds]
  PROVE  ControlOK'
<1> DEFINE label == IF kind[r] = "h" THEN again ELSE after
<1>1. label \in Working
  OBVIOUS
<1>2. pc' = [pc EXCEPT ![r] = label]
  BY DEF ForBothKinds, Goto
<1> HIDE DEF label
<1>3. pc' \in [Runs -> AtRest \union Working] /\ ClassInv'
  BY <1>1, <1>2 DEF ControlOK, ClassInv
<1>4. kind' \in [Runs -> Kinds]
  BY DEF ControlOK, ForBothKinds, Kinds
<1>5. QED
  BY <1>3, <1>4 DEF ControlOK

LEMMA ThrowControl ==
  ASSUME ControlOK, NEW r \in Runs, Throw(r)
  PROVE  ControlOK'
BY DEF ControlOK, Throw, Goto, ClassInv, Loaded, AtRest, Working

(* The actions keep the types; that cls stays among the classes inside the  *)
(* loop is what the types of the later steps rest on.                       *)
LEMMA TypeStep ==
  ASSUME ControlOK, DataOK, NEW r \in Runs, ParseCL(r) \/ Step(r) \/ Crash(r)
  PROVE  ControlOK' /\ DataOK'
<1> USE BoundsAssumption, InputAssumption DEF envVars, fsVars
<1>1. CASE ParseCL(r)
  <2>1. ControlOK'
    BY <1>1 DEF ControlOK, ParseCL, Goto, ClassInv, Loaded, AtRest, Working, Kinds
  <2>2. DataOK'
    BY <1>1 DEF DataOK, ParseCL, Absent
  <2>3. QED
    BY <2>1, <2>2
<1>2. CASE ReadMTime(r)
  BY <1>2 DEF ReadMTime, ControlOK, DataOK, Goto, ClassInv, Loaded, AtRest, Working
<1>3. CASE LoadFile(r)
  <2>1. ControlOK'
    BY <1>3, EnterClassControl, ThrowControl DEF LoadFile
  <2>2. DataOK'
    BY <1>3 DEF LoadFile, DataOK
  <2>3. QED
    BY <2>1, <2>2
<1>4. CASE CheckExists(r)
  <2>1. DataOK'
    BY <1>4 DEF CheckExists, DataOK
  <2>2. cls[r] \in Classes
    BY <1>4 DEF CheckExists, ControlOK, ClassInv, Loaded, Working
  <2>3. CASE content[File(r)] = Absent
    <3>1. dirty[r] \union {kind[r]} \in SUBSET Kinds
      BY DEF ControlOK
    <3>2. dirty' = [dirty EXCEPT ![r] = dirty[r] \union {kind[r]}]
      BY <1>4, <2>3 DEF CheckExists
    <3>3. dirty' \in [Runs -> SUBSET Kinds]
      BY <3>1, <3>2 DEF ControlOK
    <3>4. QED
      BY <1>4, <2>1, <2>2, <2>3, <3>3, ForBothKindsControl
         DEF CheckExists, Working
  <2>4. CASE content[File(r)] # Absent
    BY <1>4, <2>1, <2>2, <2>4
       DEF CheckExists, ControlOK, Goto, AtRest, Working, ClassInv, Loaded
  <2>5. QED
    BY <2>3, <2>4
<1>5. CASE CheckMTime(r)
  <2>1. DataOK'
    BY <1>5 DEF CheckMTime, DataOK
  <2>2. cls[r] \in Classes
    BY <1>5 DEF CheckMTime, ControlOK, ClassInv, Loaded, Working
  <2>3. CASE content[File(r)] = Absent
    BY <1>5, <2>1, <2>3, ThrowControl DEF CheckMTime
  <2>4. CASE content[File(r)] # Absent
    <3>1. dirty' \in [Runs -> SUBSET Kinds]
      BY <1>5, <2>4 DEF CheckMTime, ControlOK
    <3>2. QED
      BY <1>5, <2>1, <2>2, <2>4, <3>1, ForBothKindsControl
         DEF CheckMTime, Working
  <2>5. QED
    BY <2>3, <2>4
<1>6. CASE Decide(r)
  <2>1. DataOK'
    BY <1>6 DEF Decide, DataOK
  <2>2. cls[r] \in Classes
    BY <1>6 DEF Decide, ControlOK, ClassInv, Loaded, Working
  <2>3. CASE UpToDate(r)
    <3>1. cls[r] + 1 \in 1..(NumClasses + 1)
      BY <2>2 DEF Classes
    <3>2. QED
      BY <1>6, <2>1, <2>3, <3>1, EnterClassControl DEF Decide
  <2>4. CASE ~UpToDate(r)
    BY <1>6, <2>1, <2>2, <2>4
       DEF Decide, ControlOK, Goto, AtRest, Working, ClassInv, Loaded
  <2>5. QED
    BY <2>3, <2>4
<1>7. CASE CheckParent(r) \/ Mkdir(r)
  <2>1. DataOK'
    BY <1>7 DEF CheckParent, Mkdir, DataOK
  <2>2. cls[r] \in Classes
    BY <1>7 DEF CheckParent, Mkdir, ControlOK, ClassInv, Loaded, Working
  <2>3. dirty' = dirty /\ cls' = cls
    BY <1>7 DEF CheckParent, Mkdir, Throw
  <2>4. CASE ForBothKinds(r, "parent", "render")
    BY <2>1, <2>2, <2>3, <2>4, ForBothKindsControl DEF ControlOK, Working
  <2>5. CASE Throw(r)
    BY <2>1, <2>5, ThrowControl
  <2>6. CASE Goto(r, "mkdir") /\ kind' = kind
    BY <2>1, <2>2, <2>3, <2>6
       DEF ControlOK, Goto, AtRest, Working, ClassInv, Loaded
  <2>7. QED
    BY <1>7, <2>4, <2>5, <2>6 DEF CheckParent, Mkdir
<1>8. CASE Render(r)
  <2>1. DataOK'
    BY <1>8 DEF Render, DataOK
  <2>2. CASE Throw(r)
    BY <2>1, <2>2, ThrowControl
  <2>3. CASE Goto(r, "open") /\ UNCHANGED <<kind, cls, dirty>>
    BY <1>8, <2>1, <2>3
       DEF Render, ControlOK, Goto, AtRest, Working, ClassInv, Loaded
  <2>4. QED
    BY <1>8, <2>2, <2>3 DEF Render
<1>9. CASE Open(r) \/ OpenFails(r)
  <2>1. DataOK'
    BY <1>9 DEF Open, OpenFails, DataOK, Contents, Empty
  <2>2. ControlOK'
    BY <1>9 DEF Open, OpenFails, ControlOK, Goto, AtRest, Working, ClassInv, Loaded
  <2>3. QED
    BY <2>1, <2>2
<1>10. CASE Flush(r) \/ FlushFails(r)
  <2>1. DataOK'
    BY <1>10, ZenonT(40) DEF Flush, FlushFails, DataOK, Overlay, Contents, Torn
  <2>2. cls[r] \in Classes
    BY <1>10 DEF Flush, FlushFails, ControlOK, ClassInv, Loaded, Working
  <2>3. cls[r] + 1 \in 1..(NumClasses + 1)
    BY <2>2 DEF Classes
  <2>4. CASE kind[r] = "h"
    BY <1>10, <2>1, <2>2, <2>4, ForBothKindsControl
       DEF Flush, FlushFails, Closed, ControlOK, Working
  <2>5. CASE kind[r] # "h"
    BY <1>10, <2>1, <2>3, <2>5, EnterClassControl DEF Flush, FlushFails, Closed
  <2>6. QED
    BY <2>4, <2>5
<1>11. CASE Crash(r)
  BY <1>11 DEF Crash, ControlOK, DataOK, Goto, AtRest, Working, ClassInv, Loaded
<1>12. QED
  BY <1>1, <1>2, <1>3, <1>4, <1>5, <1>6, <1>7, <1>8, <1>9, <1>10, <1>11 DEF Step

LEMMA TypeInductive ==
  ASSUME TypeOK, ClassInv, [Next]_vars
  PROVE  TypeOK' /\ ClassInv'
<1>1. ControlOK /\ DataOK
  BY TypeParts
<1>2. SUFFICES ControlOK' /\ DataOK'
  BY DEF TypeOK, ControlOK, DataOK
<1>3. CASE \E r \in Runs : ParseCL(r) \/ Step(r) \/ Crash(r)
  BY <1>1, <1>3, TypeStep
<1>4. CASE \E f \in Files : Clean(f)
  <2>1. PICK f \in Files : Clean(f)
    BY <1>4
  <2>2. ControlOK'
    BY <1>1, <2>1 DEF Clean, envVars, ControlOK, ClassInv
  <2>3. fd' \in [Runs -> BOOLEAN] /\ calm' \in [Runs -> BOOLEAN]
    BY <1>1, <2>1 DEF Clean, DataOK
  <2>4. /\ content' \in [Files -> Contents]
        /\ mtime' \in [Files -> 0..MaxTime]
        /\ seen' \in [Files -> Versions \union {Absent}]
    BY <1>1, <2>1, BoundsAssumption DEF Clean, DataOK, Contents, Absent
  <2>5. QED
    BY <1>1, <2>1, <2>2, <2>3, <2>4 DEF Clean, envVars, DataOK
<1>5. CASE Tick
  BY <1>1, <1>5, BoundsAssumption
     DEF Tick, fsVars, runVars, ControlOK, DataOK, ClassInv
<1>6. CASE Edit
  BY <1>1, <1>6, BoundsAssumption
     DEF Edit, fsVars, runVars, ControlOK, DataOK, ClassInv, Versions, Absent
<1>7. CASE UNCHANGED vars
  BY <1>1, <1>7
     DEF vars, envVars, fsVars, runVars, ControlOK, DataOK, ClassInv
<1>8. QED
  BY <1>3, <1>4, <1>5, <1>6, <1>7 DEF Next

(* The type invariant of Generate holds in every reachable state. *)
THEOREM TypeCorrect == Spec => []TypeOK
<1>1. Init => TypeOK /\ ClassInv
  BY BoundsAssumption
     DEF Init, TypeOK, ClassInv, Versions, Contents, Absent, Kinds, AtRest,
         Loaded, Working
<1>2. TypeOK /\ ClassInv /\ [Next]_vars => (TypeOK /\ ClassInv)'
  BY TypeInductive
<1>3. QED
  BY <1>1, <1>2, PTL DEF Spec

-----------------------------------------------------------------------------
(* What a step can do to the files, and to the invocations. *)

(* Invocation q does not move. *)
Still(q) ==
  /\ pc'[q] = pc[q] /\ kind'[q] = kind[q] /\ cls'[q] = cls[q]
  /\ cfgMTime'[q] = cfgMTime[q] /\ cfgVer'[q] = cfgVer[q]
  /\ dirty'[q] = dirty[q]

RunStep(r) == ParseCL(r) \/ Step(r) \/ Crash(r)

LEMMA FrameRun ==
  ASSUME TypeOK, NEW r \in Runs, RunStep(r)
  PROVE  /\ UNCHANGED envVars
         /\ \A q \in Runs \ {r} :
              Still(q) /\ calm'[q] = calm[q] /\ fd'[q] = fd[q]
<1> USE DEF TypeOK, Still, envVars, Goto
<1>1. CASE ParseCL(r)
  BY <1>1 DEF ParseCL
<1>2. CASE ReadMTime(r)
  BY <1>2 DEF ReadMTime
<1>3. CASE LoadFile(r)
  BY <1>3 DEF LoadFile, EnterClass, Throw
<1>4. CASE CheckExists(r)
  BY <1>4 DEF CheckExists, ForBothKinds
<1>5. CASE CheckMTime(r)
  BY <1>5 DEF CheckMTime, ForBothKinds, Throw
<1>6. CASE Decide(r)
  BY <1>6 DEF Decide, EnterClass
<1>7. CASE CheckParent(r)
  BY <1>7 DEF CheckParent, ForBothKinds
<1>8. CASE Mkdir(r)
  BY <1>8 DEF Mkdir, ForBothKinds, Throw
<1>9. CASE Render(r)
  BY <1>9 DEF Render, Throw
<1>10. CASE Open(r) \/ OpenFails(r)
  BY <1>10 DEF Open, OpenFails
<1>11. CASE Flush(r) \/ FlushFails(r)
  <2>1. CASE kind[r] = "h"
    BY <1>11, <2>1 DEF Flush, FlushFails, Closed, ForBothKinds
  <2>2. CASE kind[r] # "h"
    BY <1>11, <2>2 DEF Flush, FlushFails, Closed, EnterClass
  <2>3. QED
    BY <2>1, <2>2
<1>12. CASE Crash(r)
  BY <1>12 DEF Crash
<1>13. QED
  BY <1>1, <1>2, <1>3, <1>4, <1>5, <1>6, <1>7, <1>8, <1>9, <1>10, <1>11,
     <1>12 DEF RunStep, Step

(* The steps of the world move no invocation. *)
LEMMA FrameWorld ==
  ASSUME (\E f \in Files : Clean(f)) \/ Tick \/ Edit \/ UNCHANGED vars,
         NEW q \in Runs
  PROVE  Still(q)
BY DEF Clean, Tick, Edit, vars, runVars, Still

(* r writes the file it is about. *)
Write(r, text) ==
  /\ pc[r] \in {"open", "flush"}
  /\ content' = [content EXCEPT ![File(r)] = text]
  /\ mtime' = [mtime EXCEPT ![File(r)] = now]
  /\ seen' = [seen EXCEPT ![File(r)] = inVer]

LEMMA FilesStep ==
  ASSUME NEW r \in Runs, RunStep(r)
  PROVE  \/ UNCHANGED <<content, mtime, seen>>
         \/ \E text \in {Empty, Torn, cfgVer[r]} : Write(r, text)
<1> USE DEF fsVars
<1>1. CASE Open(r)
  BY <1>1 DEF Open, Write
<1>2. CASE Flush(r)
  BY <1>2 DEF Flush, Overlay, Write
<1>3. CASE ParseCL(r) \/ ReadMTime(r) \/ LoadFile(r) \/ CheckExists(r)
           \/ CheckMTime(r) \/ Decide(r) \/ CheckParent(r)
  BY <1>3 DEF ParseCL, ReadMTime, LoadFile, CheckExists, CheckMTime, Decide,
              CheckParent
<1>4. CASE Mkdir(r) \/ Render(r) \/ OpenFails(r) \/ FlushFails(r) \/ Crash(r)
  BY <1>4 DEF Mkdir, Render, OpenFails, FlushFails, Crash
<1>5. QED
  BY <1>1, <1>2, <1>3, <1>4 DEF RunStep, Step

(* Inside the loop an invocation keeps what it loaded, and stays in it or   *)
(* returns.                                                                 *)
LEMMA LoopStep ==
  ASSUME TypeOK, NEW r \in Runs, Step(r), pc[r] \notin {"stat", "load"}
  PROVE  /\ pc[r] \in Loaded
         /\ pc'[r] \in Loaded \union {"done", "failed"}
         /\ UNCHANGED <<cfgMTime, cfgVer>>
         /\ calm'[r] => calm[r]
<1> USE DEF TypeOK, Loaded, Working, Goto
<1>1. CASE CheckExists(r) \/ CheckMTime(r)
  BY <1>1 DEF CheckExists, CheckMTime, ForBothKinds, Throw
<1>2. CASE Decide(r) \/ CheckParent(r) \/ Mkdir(r)
  BY <1>2 DEF Decide, CheckParent, Mkdir, EnterClass, ForBothKinds, Throw
<1>3. CASE Render(r) \/ Open(r) \/ OpenFails(r)
  BY <1>3 DEF Render, Open, OpenFails, Throw
<1>4. CASE Flush(r) \/ FlushFails(r)
  <2>1. CASE kind[r] = "h"
    BY <1>4, <2>1 DEF Flush, FlushFails, Closed, ForBothKinds
  <2>2. CASE kind[r] # "h"
    BY <1>4, <2>2 DEF Flush, FlushFails, Closed, EnterClass
  <2>3. QED
    BY <2>1, <2>2
<1>5. QED
  BY <1>1, <1>2, <1>3, <1>4 DEF Step, ReadMTime, LoadFile

(* A step after which some invocation is undisturbed keeps the input.       *)
LEMMA CalmStep ==
  ASSUME [Next]_vars, NEW r \in Runs, calm'[r]
  PROVE  \/ \E q \in Runs : RunStep(q)
         \/ Tick
         \/ UNCHANGED vars
BY DEF Next, RunStep, Edit, Clean

(* An undisturbed invocation that does not move was undisturbed before.     *)
LEMMA StillCalm ==
  ASSUME TypeOK, [Next]_vars, NEW q \in Runs, ~RunStep(q), calm'[q]
  PROVE  Still(q) /\ calm[q]
<1>1. ASSUME NEW r \in Runs, RunStep(r)
      PROVE  Still(q) /\ calm'[q] = calm[q]
  BY <1>1, FrameRun
<1>2. CASE Tick \/ UNCHANGED vars
  <2>1. calm' = calm
    BY <1>2 DEF Tick, vars
  <2>2. QED
    BY <1>2, <2>1, FrameWorld
<1>3. QED
  BY <1>1, <1>2, CalmStep

(* A file that needs no regeneration does not come to need one while        *)
(* nobody edits the input or deletes files: it can only be written again.   *)
LEMMA StaysClean ==
  ASSUME TypeOK, ClockInv, VersionInv, [Next]_vars,
         NEW r \in Runs, calm'[r],
         NEW f \in Files, ~Outdated(f),
         \A q \in Runs : pc[q] \in Loaded => cfgVer[q] \in Versions
  PROVE  ~Outdated(f)'
<1>1. CASE UNCHANGED <<content, mtime, inMTime>>
  BY <1>1 DEF Outdated
<1>2. CASE Tick \/ UNCHANGED vars
  BY <1>1, <1>2 DEF Tick, vars, envVars, fsVars
<1>3. ASSUME NEW q \in Runs, RunStep(q)
      PROVE  ~Outdated(f)'
  <2>1. inMTime' = inMTime
    BY <1>3, FrameRun DEF envVars
  <2>2. CASE UNCHANGED <<content, mtime, seen>>
    BY <1>1, <2>1, <2>2
  <2>3. ASSUME NEW text \in {Empty, Torn, cfgVer[q]}, Write(q, text)
        PROVE  ~Outdated(f)'
    <3>1. text # Absent
      BY <2>3 DEF Write, Loaded, Working, Empty, Torn, Absent, Versions
    <3>2. CASE f = File(q)
      <4>1. content'[f] = text /\ mtime'[f] = now
        BY <2>3, <3>2 DEF Write, TypeOK
      <4>2. inMTime <= now /\ inMTime \in Int /\ now \in Int
        BY BoundsAssumption DEF ClockInv, TypeOK
      <4>3. QED
        BY <2>1, <3>1, <4>1, <4>2 DEF Outdated
    <3>3. CASE f # File(q)
      BY <2>1, <2>3, <3>3 DEF Write, TypeOK, Outdated
    <3>4. QED
      BY <3>2, <3>3
  <2>4. QED
    BY <1>3, <2>2, <2>3, FilesStep
<1>4. QED
  BY <1>2, <1>3, CalmStep

-----------------------------------------------------------------------------
(* Preservation, one part of the invariant at a time. *)

LEMMA ClockStep ==
  ASSUME TypeOK, ClockInv, [Next]_vars
  PROVE  ClockInv'
<1> USE BoundsAssumption DEF TypeOK, ClockInv
<1>1. ASSUME NEW r \in Runs, RunStep(r)
      PROVE  ClockInv'
  <2>1. UNCHANGED <<now, inMTime>>
    BY <1>1, FrameRun DEF envVars
  <2>2. CASE UNCHANGED <<content, mtime, seen>>
    BY <2>1, <2>2
  <2>3. ASSUME NEW text, Write(r, text)
        PROVE  ClockInv'
    BY <2>1, <2>3 DEF Write
  <2>4. QED
    BY <1>1, <2>2, <2>3, FilesStep
<1>2. ASSUME NEW f \in Files, Clean(f)
      PROVE  ClockInv'
  BY <1>2 DEF Clean, envVars
<1>3. CASE Tick
  BY <1>3 DEF Tick, fsVars
<1>4. CASE Edit
  BY <1>4 DEF Edit, fsVars
<1>5. CASE UNCHANGED vars
  BY <1>5 DEF vars, envVars, fsVars
<1>6. QED
  BY <1>1, <1>2, <1>3, <1>4, <1>5 DEF Next, RunStep

LEMMA LoadedStep ==
  ASSUME TypeOK, LoadedInv, [Next]_vars
  PROVE  LoadedInv'
<1> SUFFICES ASSUME NEW q \in Runs
             PROVE  LoadedOf(q)'
  BY DEF LoadedInv
<1> USE DEF LoadedInv, LoadedOf, Active, Loaded, Working
<1>1. ASSUME NEW r \in Runs, RunStep(r), q # r
      PROVE  LoadedOf(q)'
  BY <1>1, FrameRun DEF envVars, Still
<1>2. CASE ParseCL(q)
  BY <1>2 DEF ParseCL, Goto, TypeOK, envVars, AtRest
<1>3. CASE ReadMTime(q)
  BY <1>3 DEF ReadMTime, Goto, TypeOK, envVars
<1>4. CASE LoadFile(q)
  BY <1>4 DEF LoadFile, EnterClass, Throw, Goto, TypeOK, envVars
<1>5. CASE Crash(q)
  BY <1>5 DEF Crash, Goto, TypeOK, envVars
<1>6. CASE Step(q) /\ pc[q] \notin {"stat", "load"}
  <2>1. UNCHANGED envVars
    BY <1>6, FrameRun DEF RunStep
  <2>2. QED
    BY <1>6, <2>1, LoopStep DEF envVars
<1>7. CASE Step(q) /\ pc[q] \in {"stat", "load"}
  BY <1>3, <1>4, <1>7
     DEF Step, CheckExists, CheckMTime, Decide, CheckParent, Mkdir, Render,
         Open, OpenFails, Flush, FlushFails
<1>8. CASE Tick \/ UNCHANGED vars
  BY <1>8 DEF Tick, vars, envVars, runVars
<1>9. CASE Edit
  BY <1>9, BoundsAssumption DEF Edit, runVars, Versions, TypeOK, Absent
<1>10. CASE \E f \in Files : Clean(f)
  BY <1>10 DEF Clean, envVars
<1>11. QED
  BY <1>1, <1>2, <1>5, <1>6, <1>7, <1>8, <1>9, <1>10 DEF Next, RunStep

LEMMA VersionStep ==
  ASSUME TypeOK, ClassInv, LoadedInv, VersionInv, [Next]_vars
  PROVE  VersionInv'
<1> USE BoundsAssumption DEF TypeOK, VersionInv, Versions, Absent
<1>1. ASSUME NEW r \in Runs, RunStep(r)
      PROVE  VersionInv'
  <2>1. inVer' = inVer
    BY <1>1, FrameRun DEF envVars
  <2>2. \A q \in Runs : cfgVer'[q] <= inVer
    <3>1. \A q \in Runs \ {r} : cfgVer'[q] <= inVer
      BY <1>1, FrameRun DEF Still
    <3>2. cfgVer'[r] \in {cfgVer[r], inVer, 0}
      <4>1. CASE ParseCL(r) \/ ReadMTime(r) \/ LoadFile(r) \/ Crash(r)
        BY <4>1 DEF ParseCL, ReadMTime, LoadFile, Crash
      <4>2. CASE Step(r) /\ pc[r] \notin {"stat", "load"}
        BY <4>2, LoopStep
      <4>3. CASE Step(r) /\ pc[r] \in {"stat", "load"}
        BY <4>1, <4>3
           DEF Step, CheckExists, CheckMTime, Decide, CheckParent, Mkdir,
               Render, Open, OpenFails, Flush, FlushFails
      <4>4. QED
        BY <1>1, <4>1, <4>2, <4>3 DEF RunStep
    <3>3. QED
      BY <3>1, <3>2
  <2>3. CASE UNCHANGED <<content, mtime, seen>>
    BY <2>1, <2>2, <2>3
  <2>4. ASSUME NEW text \in {Empty, Torn, cfgVer[r]}, Write(r, text)
        PROVE  VersionInv'
    <3>1. text <= inVer /\ inVer \in Int
      BY <2>4 DEF Empty, Torn
    <3>2. \A f \in Files :
            \/ content'[f] = content[f] /\ seen'[f] = seen[f]
            \/ content'[f] = text /\ seen'[f] = inVer
      BY <2>4 DEF Write
    <3>3. QED
      BY <2>1, <2>2, <3>1, <3>2
  <2>5. QED
    BY <1>1, <2>3, <2>4, FilesStep
<1>2. ASSUME NEW f \in Files, Clean(f)
      PROVE  VersionInv'
  BY <1>2 DEF Clean, envVars
<1>3. CASE Tick
  BY <1>3 DEF Tick, fsVars, runVars
<1>4. CASE Edit
  <2>1. /\ inVer \in Int /\ inVer' = inVer + 1
        /\ UNCHANGED <<cfgVer, content, seen>>
    BY <1>4 DEF Edit, fsVars, runVars
  <2>2. /\ \A r \in Runs : cfgVer[r] \in Int
        /\ \A f \in Files : seen[f] \in Int
    OBVIOUS
  <2>3. QED
    BY <2>1, <2>2
<1>5. CASE UNCHANGED vars
  BY <1>5 DEF vars, envVars, fsVars, runVars
<1>6. QED
  BY <1>1, <1>2, <1>3, <1>4, <1>5 DEF Next, RunStep

LEMMA EditStep ==
  ASSUME TypeOK, ClockInv, VersionInv, EditInv, [Next]_vars
  PROVE  EditInv'
<1> SUFFICES ASSUME "backdate" \notin Faults, NEW f \in Files,
                    seen'[f] < inVer'
             PROVE  mtime'[f] <= inMTime'
  BY DEF EditInv
<1> USE BoundsAssumption DEF TypeOK, Versions, Absent
<1>1. ASSUME NEW r \in Runs, RunStep(r)
      PROVE  mtime'[f] <= inMTime'
  <2>1. UNCHANGED <<inVer, inMTime>>
    BY <1>1, FrameRun DEF envVars
  <2>2. CASE UNCHANGED <<content, mtime, seen>>
    BY <2>1, <2>2 DEF EditInv
  <2>3. ASSUME NEW text, Write(r, text)
        PROVE  mtime'[f] <= inMTime'
    <3>1. f # File(r)
      BY <2>1, <2>3 DEF Write
    <3>2. QED
      BY <2>1, <2>3, <3>1 DEF Write, EditInv
  <2>4. QED
    BY <1>1, <2>2, <2>3, FilesStep
<1>2. ASSUME NEW g \in Files, Clean(g)
      PROVE  mtime'[f] <= inMTime'
  BY <1>2 DEF Clean, envVars, EditInv
<1>3. CASE Tick \/ UNCHANGED vars
  BY <1>3 DEF Tick, vars, envVars, fsVars, EditInv
<1>4. CASE Edit
  BY <1>4 DEF Edit, fsVars, ClockInv
<1>5. QED
  BY <1>1, <1>2, <1>3, <1>4 DEF Next, RunStep

LEMMA KindStep ==
  ASSUME TypeOK, KindInv, [Next]_vars
  PROVE  KindInv'
<1> SUFFICES ASSUME NEW q \in Runs, pc'[q] = "render"
             PROVE  kind'[q] = "h"
  BY DEF KindInv
<1>1. ASSUME NEW r \in Runs, RunStep(r), q # r
      PROVE  kind'[q] = "h"
  BY <1>1, FrameRun DEF Still, KindInv
<1>2. CASE CheckParent(q) \/ Mkdir(q)
  BY <1>2 DEF CheckParent, Mkdir, ForBothKinds, Goto, Throw, TypeOK
<1>3. CASE ~(CheckParent(q) \/ Mkdir(q)) /\ Step(q)
  BY <1>3
     DEF Step, ReadMTime, LoadFile, CheckExists, CheckMTime, Decide, Render,
         Open, OpenFails, Flush, FlushFails, Closed, EnterClass, ForBothKinds,
         Goto, Throw, TypeOK
<1>4. CASE ParseCL(q) \/ Crash(q)
  BY <1>4 DEF ParseCL, Crash, Goto, TypeOK
<1>5. CASE (\E f \in Files : Clean(f)) \/ Tick \/ Edit \/ UNCHANGED vars
  BY <1>5, FrameWorld DEF Still, KindInv
<1>6. QED
  BY <1>1, <1>2, <1>3, <1>4, <1>5 DEF Next, RunStep

LEMMA ComposedStep ==
  ASSUME TypeOK, ComposedInv, [Next]_vars
  PROVE  ComposedInv'
<1> SUFFICES ASSUME NEW q \in Runs, pc'[q] \in {"open", "flush"}
             PROVE  cls'[q] \notin Rejected[cfgVer'[q]]
  BY DEF ComposedInv
<1>1. ASSUME NEW r \in Runs, RunStep(r), q # r
      PROVE  cls'[q] \notin Rejected[cfgVer'[q]]
  BY <1>1, FrameRun DEF Still, ComposedInv
<1>2. CASE Render(q)
  BY <1>2 DEF Render, Throw, Goto, TypeOK
<1>3. CASE Open(q) \/ OpenFails(q)
  BY <1>3 DEF Open, OpenFails, ComposedInv
<1>4. CASE Flush(q) \/ FlushFails(q)
  <2>1. CASE kind[q] = "h"
    BY <1>4, <2>1 DEF Flush, FlushFails, Closed, ComposedInv
  <2>2. CASE kind[q] # "h"
    BY <1>4, <2>2 DEF Flush, FlushFails, Closed, EnterClass, Goto, TypeOK
  <2>3. QED
    BY <2>1, <2>2
<1>5. CASE ReadMTime(q) \/ LoadFile(q) \/ CheckExists(q) \/ CheckMTime(q)
             \/ Decide(q) \/ CheckParent(q) \/ Mkdir(q)
  BY <1>5
     DEF ReadMTime, LoadFile, CheckExists, CheckMTime, Decide, CheckParent,
         Mkdir, EnterClass, ForBothKinds, Goto, Throw, TypeOK
<1>6. CASE ParseCL(q) \/ Crash(q)
  BY <1>6 DEF ParseCL, Crash, Goto, TypeOK
<1>7. CASE (\E f \in Files : Clean(f)) \/ Tick \/ Edit \/ UNCHANGED vars
  BY <1>7, FrameWorld DEF Still, ComposedInv
<1>8. QED
  BY <1>1, <1>2, <1>3, <1>4, <1>5, <1>6, <1>7 DEF Next, RunStep, Step

LEMMA RejectedStep ==
  ASSUME TypeOK, ClassInv, ComposedInv, RejectedNeverWritten, [Next]_vars
  PROVE  RejectedNeverWritten'
<1> SUFFICES ASSUME NEW f \in Files, content'[f] \in Versions
             PROVE  f[2] \notin Rejected[content'[f]]
  BY DEF RejectedNeverWritten
<1>1. CASE content'[f] = content[f]
  BY <1>1 DEF RejectedNeverWritten
<1>2. ASSUME NEW r \in Runs, RunStep(r)
      PROVE  f[2] \notin Rejected[content'[f]]
  <2>1. ASSUME NEW text \in {Empty, Torn, cfgVer[r]}, Write(r, text),
               f = File(r)
        PROVE  f[2] \notin Rejected[content'[f]]
    <3>1. content'[f] = text
      BY <2>1 DEF Write, TypeOK
    <3>2. text = cfgVer[r]
      BY <2>1, <3>1, BoundsAssumption DEF Versions, Empty, Torn
    <3>3. f[2] = cls[r]
      BY <2>1 DEF File
    <3>4. QED
      BY <2>1, <3>1, <3>2, <3>3 DEF Write, ComposedInv
  <2>2. ASSUME NEW text, Write(r, text), f # File(r)
        PROVE  content'[f] = content[f]
    BY <2>2 DEF Write, TypeOK
  <2>3. QED
    BY <1>1, <1>2, <2>1, <2>2, FilesStep
<1>3. ASSUME NEW g \in Files, Clean(g)
      PROVE  f[2] \notin Rejected[content'[f]]
  <2>1. f # g
    BY <1>3, BoundsAssumption DEF Clean, TypeOK, Absent, Versions
  <2>2. QED
    BY <1>1, <1>3, <2>1 DEF Clean, TypeOK
<1>4. CASE Tick \/ Edit \/ UNCHANGED vars
  BY <1>1, <1>4 DEF Tick, Edit, vars, fsVars
<1>5. QED
  BY <1>2, <1>3, <1>4 DEF Next, RunStep

(* The parts that speak of an undisturbed invocation q hold for it after a  *)
(* step of another one, or of the clock.                                    *)
LEMMA OthersStep ==
  ASSUME TypeOK, ClassInv, ClockInv, VersionInv, LoadedInv, [Next]_vars,
         NEW q \in Runs, ~RunStep(q)
  PROVE  /\ CheckedOf(q) => CheckedOf(q)'
         /\ WrittenOf(q) => WrittenOf(q)'
<1>1. SUFFICES ASSUME calm'[q]
               PROVE  /\ CheckedOf(q) => CheckedOf(q)'
                      /\ WrittenOf(q) => WrittenOf(q)'
  BY DEF CheckedOf, WrittenOf
<1>2. Still(q) /\ calm[q]
  BY <1>1, StillCalm
<1>3. Checked(q)' = Checked(q) /\ Written(q)' = Written(q)
  BY <1>2 DEF Still, Checked, Written
<1>4. \A f \in Files : ~Outdated(f) => ~Outdated(f)'
  BY <1>1, StaysClean DEF LoadedInv, LoadedOf
<1>5. Checked(q) # {} \/ Written(q) # {} => cls[q] \in Classes
  BY DEF Checked, Written, ClassInv, Loaded, Working
<1>6. \A k \in Kinds : cls[q] \in Classes => <<k, cls[q]>> \in Files
  BY DEF Files
<1>7. Checked(q) \subseteq Kinds /\ Written(q) \subseteq Kinds
  BY DEF Checked, Written, Kinds
<1>8. \A k \in Kinds : <<k, cls'[q]>> = <<k, cls[q]>>
  BY <1>2 DEF Still
<1>9. CheckedOf(q) => CheckedOf(q)'
  BY <1>1, <1>2, <1>3, <1>4, <1>5, <1>6, <1>7 DEF CheckedOf, Still
<1>10. WrittenOf(q) => WrittenOf(q)'
  BY <1>1, <1>2, <1>3, <1>4, <1>5, <1>6, <1>7 DEF WrittenOf, Still
<1>11. QED
  BY <1>9, <1>10

LEMMA CheckedStep ==
  ASSUME TypeOK, ClassInv, ClockInv, VersionInv, LoadedInv, CheckedInv,
         [Next]_vars
  PROVE  CheckedInv'
<1> SUFFICES ASSUME NEW q \in Runs, RunStep(q), calm'[q],
                    NEW k \in Checked(q)', k \notin dirty'[q]
             PROVE  ~Outdated(<<k, cls[q]>>)'
  BY OthersStep DEF CheckedInv, CheckedOf
<1>1. \A f \in Files : ~Outdated(f) => ~Outdated(f)'
  BY StaysClean DEF LoadedInv, LoadedOf
<1>2. CASE CheckExists(q) \/ CheckMTime(q)
  <2>1. cls[q] \in Classes /\ calm[q] /\ cls'[q] = cls[q]
    BY <1>2
       DEF CheckExists, CheckMTime, ClassInv, Loaded, Working, Throw
  <2>2. <<k, cls[q]>> \in Files
    BY <2>1 DEF Files, Checked, Kinds
  <2>3. CASE k \in Checked(q)
    <3>1. k \notin dirty[q]
      BY <1>2 DEF CheckExists, CheckMTime, Throw, TypeOK
    <3>2. ~Outdated(<<k, cls[q]>>)
      BY <2>1, <2>3, <3>1 DEF CheckedInv, CheckedOf
    <3>3. QED
      BY <1>1, <2>1, <2>2, <3>2
  <2>4. CASE k \notin Checked(q)
    <3>1. k = kind[q] /\ CheckMTime(q) /\ content[File(q)] # Absent
      BY <1>2, <2>4
         DEF CheckExists, CheckMTime, Checked, ForBothKinds, Goto, Throw,
             TypeOK, Kinds
    <3>2. ~OlderThanInput(q)
      BY <3>1 DEF CheckMTime, TypeOK
    <3>3. cfgMTime[q] = inMTime
      BY <2>1, <3>1 DEF CheckMTime, LoadedInv, LoadedOf, Working
    <3>4. ~Outdated(<<k, cls[q]>>)
      BY <3>1, <3>2, <3>3 DEF Outdated, OlderThanInput, File
    <3>5. QED
      BY <1>1, <2>1, <2>2, <3>4
  <2>5. QED
    BY <2>3, <2>4
<1>3. CASE ParseCL(q) \/ Crash(q)
  BY <1>3 DEF ParseCL, Crash, Goto, Checked, TypeOK
<1>4. CASE ReadMTime(q) \/ LoadFile(q) \/ Decide(q)
  BY <1>4 DEF ReadMTime, LoadFile, Decide, EnterClass, Throw, Goto, Checked, TypeOK
<1>5. CASE CheckParent(q) \/ Mkdir(q) \/ Render(q) \/ Open(q) \/ OpenFails(q)
  BY <1>5 DEF CheckParent, Mkdir, Render, Open, OpenFails, ForBothKinds, Throw,
              Goto, Checked, TypeOK
<1>6. CASE Flush(q) \/ FlushFails(q)
  <2>1. CASE kind[q] = "h"
    BY <1>6, <2>1
       DEF Flush, FlushFails, Closed, ForBothKinds, Goto, Checked, TypeOK
  <2>2. CASE kind[q] # "h"
    BY <1>6, <2>2
       DEF Flush, FlushFails, Closed, EnterClass, Goto, Checked, TypeOK
  <2>3. QED
    BY <2>1, <2>2
<1>7. QED
  BY <1>2, <1>3, <1>4, <1>5, <1>6 DEF RunStep, Step

LEMMA WrittenStep ==
  ASSUME TypeOK, ClassInv, ClockInv, VersionInv, LoadedInv, KindInv,
         WrittenInv, [Next]_vars
  PROVE  WrittenInv'
<1> SUFFICES ASSUME NEW q \in Runs, RunStep(q), calm'[q], NEW k \in Written(q)'
             PROVE  ~Outdated(<<k, cls[q]>>)'
  BY OthersStep DEF WrittenInv, WrittenOf
<1>1. \A f \in Files : ~Outdated(f) => ~Outdated(f)'
  BY StaysClean DEF LoadedInv, LoadedOf
<1>2. k \in Kinds
  BY DEF Written, Kinds
<1>3. ASSUME k \in Written(q), calm[q], cls'[q] = cls[q]
      PROVE  ~Outdated(<<k, cls[q]>>)'
  <2>1. ~Outdated(<<k, cls[q]>>)
    BY <1>3 DEF WrittenInv, WrittenOf
  <2>2. <<k, cls[q]>> \in Files
    BY <1>2, <1>3 DEF Written, Files, ClassInv, Loaded, Working
  <2>3. QED
    BY <1>1, <1>3, <2>1, <2>2
<1>4. CASE Open(q)
  <2>1. cls'[q] = cls[q] /\ calm[q]
    BY <1>4 DEF Open
  <2>2. CASE k \in Written(q)
    BY <1>3, <2>1, <2>2
  <2>3. CASE k \notin Written(q)
    <3>1. k = kind[q]
      BY <1>4, <2>3 DEF Open, Written, Goto, TypeOK, Kinds
    <3>2. File(q) \in Files
      BY <1>4, FileInFiles DEF Open, Loaded, Working
    <3>3. content'[File(q)] # Absent
      BY <1>4, <3>2 DEF Open, TypeOK, Empty, Absent
    <3>4. mtime'[File(q)] = now /\ inMTime' = inMTime
      BY <1>4, <3>2 DEF Open, TypeOK, envVars
    <3>5. ~(now < inMTime)
      BY BoundsAssumption DEF ClockInv, TypeOK
    <3>6. QED
      BY <2>1, <3>1, <3>3, <3>4, <3>5 DEF Outdated, File
  <2>4. QED
    BY <2>2, <2>3
<1>5. CASE Flush(q) \/ FlushFails(q)
  <2>1. CASE kind[q] = "h"
    <3>1. k \in Written(q) /\ calm[q] /\ cls'[q] = cls[q]
      BY <1>5, <2>1
         DEF Flush, FlushFails, Closed, ForBothKinds, Goto, Written, TypeOK
    <3>2. QED
      BY <1>3, <3>1
  <2>2. CASE kind[q] # "h"
    BY <1>5, <2>2
       DEF Flush, FlushFails, Closed, EnterClass, Goto, Written, TypeOK
  <2>3. QED
    BY <2>1, <2>2
<1>6. CASE Render(q)
  BY <1>6 DEF Render, Throw, Goto, Written, TypeOK, KindInv
<1>7. CASE ParseCL(q) \/ Crash(q) \/ OpenFails(q)
  BY <1>7 DEF ParseCL, Crash, OpenFails, Goto, Written, TypeOK
<1>8. CASE ReadMTime(q) \/ LoadFile(q) \/ Decide(q)
  BY <1>8 DEF ReadMTime, LoadFile, Decide, EnterClass, Throw, Goto, Written, TypeOK
<1>9. CASE CheckExists(q) \/ CheckMTime(q) \/ CheckParent(q) \/ Mkdir(q)
  BY <1>9 DEF CheckExists, CheckMTime, CheckParent, Mkdir, ForBothKinds, Throw,
              Goto, Written, TypeOK
<1>10. QED
  BY <1>4, <1>5, <1>6, <1>7, <1>8, <1>9 DEF RunStep, Step

(* An invocation passes a class only by finding both files clean, or by     *)
(* writing both.                                                            *)
LEMMA PassedStep ==
  ASSUME TypeOK, ClassInv, ClockInv, VersionInv, LoadedInv, CheckedInv,
         WrittenInv, PassedClassesClean, [Next]_vars
  PROVE  PassedClassesClean'
<1> SUFFICES ASSUME NEW q \in Runs, calm'[q],
                    NEW c \in Classes, c < cls'[q],
                    NEW k \in Kinds
             PROVE  ~Outdated(<<k, c>>)'
  BY DEF PassedClassesClean, NeedsRegeneration
<1>1. <<k, c>> \in Files
  BY DEF Files
<1>2. \A f \in Files : ~Outdated(f) => ~Outdated(f)'
  BY StaysClean DEF LoadedInv, LoadedOf
<1>3. ASSUME calm[q], c < cls[q]
      PROVE  ~Outdated(<<k, c>>)'
  BY <1>1, <1>2, <1>3 DEF PassedClassesClean, NeedsRegeneration
<1>4. ASSUME calm[q], cls'[q] = cls[q] + 1,
             \A j \in Kinds : ~Outdated(<<j, cls[q]>>)
      PROVE  ~Outdated(<<k, c>>)'
  <2>1. c < cls[q] \/ c = cls[q]
    BY <1>4, BoundsAssumption DEF TypeOK, Classes
  <2>2. QED
    BY <1>1, <1>2, <1>3, <1>4, <2>1
<1>5. CASE ~RunStep(q)
  BY <1>3, <1>5, StillCalm DEF Still
<1>6. CASE Decide(q)
  <2>1. calm[q]
    BY <1>6 DEF Decide
  <2>2. CASE UpToDate(q)
    <3>1. cls'[q] = cls[q] + 1
      BY <1>6, <2>2 DEF Decide, EnterClass, TypeOK
    <3>2. Checked(q) \ dirty[q] = Kinds
      BY <1>6, <2>2 DEF Decide, Checked, UpToDate
    <3>3. \A j \in Kinds : ~Outdated(<<j, cls[q]>>)
      BY <2>1, <3>2 DEF CheckedInv, CheckedOf
    <3>4. QED
      BY <1>4, <2>1, <3>1, <3>3
  <2>3. CASE ~UpToDate(q)
    BY <1>3, <1>6, <2>1, <2>3 DEF Decide
  <2>4. QED
    BY <2>2, <2>3
<1>7. CASE Flush(q) \/ FlushFails(q)
  <2>1. calm[q]
    BY <1>7 DEF Flush, FlushFails
  <2>2. CASE kind[q] = "h"
    BY <1>3, <1>7, <2>1, <2>2 DEF Flush, FlushFails, Closed
  <2>3. CASE kind[q] # "h"
    <3>1. cls'[q] = cls[q] + 1
      BY <1>7, <2>3 DEF Flush, FlushFails, Closed, EnterClass, TypeOK
    <3>2. Written(q) = Kinds
      BY <1>7, <2>3 DEF Flush, FlushFails, Written, TypeOK, Kinds
    <3>3. \A j \in Kinds : ~Outdated(<<j, cls[q]>>)
      BY <2>1, <3>2 DEF WrittenInv, WrittenOf
    <3>4. QED
      BY <1>4, <2>1, <3>1, <3>3
  <2>4. QED
    BY <2>2, <2>3
<1>8. CASE ParseCL(q) \/ LoadFile(q)
  <2>1. CASE cls'[q] = 1
    BY <2>1, BoundsAssumption DEF Classes
  <2>2. CASE LoadFile(q) /\ Throw(q)
    BY <1>3, <2>2 DEF LoadFile, Throw
  <2>3. QED
    BY <1>8, <2>1, <2>2 DEF ParseCL, LoadFile, EnterClass, TypeOK
<1>9. CASE ReadMTime(q) \/ CheckExists(q) \/ CheckMTime(q) \/ CheckParent(q)
             \/ Mkdir(q) \/ Render(q) \/ Open(q) \/ Crash(q)
  BY <1>3, <1>9
     DEF ReadMTime, CheckExists, CheckMTime, CheckParent, Mkdir, Render, Open,
         Crash, Throw
<1>10. CASE OpenFails(q)
  BY <1>10 DEF OpenFails, TypeOK
<1>11. QED
  BY <1>5, <1>6, <1>7, <1>8, <1>9, <1>10 DEF RunStep, Step

(* Nobody takes a directory away. *)
LEMMA DirStep ==
  ASSUME TypeOK, [Next]_vars, NEW k \in Kinds, dir[k]
  PROVE  dir'[k]
<1>1. ASSUME NEW r \in Runs, Mkdir(r)
      PROVE  dir'[k]
  BY <1>1 DEF Mkdir, TypeOK
<1>2. ASSUME NEW r \in Runs, RunStep(r), ~Mkdir(r)
      PROVE  UNCHANGED dir
  BY <1>2 DEF RunStep, Step, ParseCL, ReadMTime, LoadFile, CheckExists, CheckMTime,
     Decide, CheckParent, Render, Open, OpenFails, Flush, FlushFails, Crash, fsVars
<1>3. CASE (\E f \in Files : Clean(f)) \/ Tick \/ Edit \/ UNCHANGED vars
  BY <1>3 DEF Clean, Tick, Edit, vars, fsVars
<1>4. QED
  BY <1>1, <1>2, <1>3 DEF Next, RunStep

LEMMA FoundStep ==
  ASSUME TypeOK, ClassInv, LoadedInv, FoundInv, [Next]_vars
  PROVE  FoundInv'
<1> SUFFICES ASSUME NEW q \in Runs, calm'[q], pc'[q] = "mtime"
             PROVE  content'[File(q)'] # Absent
  BY DEF FoundInv
<1>1. CASE CheckExists(q)
  BY <1>1 DEF CheckExists, ForBothKinds, Goto, TypeOK, fsVars, File
<1>2. CASE RunStep(q) /\ ~CheckExists(q)
  <2>1. ParseCL(q) \/ Crash(q) => FALSE
    BY DEF ParseCL, Crash, Goto, TypeOK
  <2>2. ReadMTime(q) \/ LoadFile(q) \/ CheckMTime(q) \/ Decide(q) => FALSE
    BY DEF ReadMTime, LoadFile, CheckMTime, Decide, EnterClass, ForBothKinds, Throw,
           Goto, TypeOK
  <2>3. CheckParent(q) \/ Mkdir(q) \/ Render(q) \/ Open(q) \/ OpenFails(q) => FALSE
    BY DEF CheckParent, Mkdir, Render, Open, OpenFails, ForBothKinds, Throw, Goto, TypeOK
  <2>4. Flush(q) \/ FlushFails(q) => FALSE
    <3>1. CASE kind[q] = "h"
      BY <3>1 DEF Flush, FlushFails, Closed, ForBothKinds, Goto, TypeOK
    <3>2. CASE kind[q] # "h"
      BY <3>2 DEF Flush, FlushFails, Closed, EnterClass, Goto, TypeOK
    <3>3. QED
      BY <3>1, <3>2
  <2>5. QED
    BY <1>2, <2>1, <2>2, <2>3, <2>4 DEF RunStep, Step
<1>3. CASE ~RunStep(q)
  <2>1. Still(q) /\ calm[q]
    BY <1>3, StillCalm
  <2>2. File(q)' = File(q) /\ pc[q] = "mtime"
    BY <2>1 DEF Still, File
  <2>3. content[File(q)] # Absent /\ File(q) \in Files
    BY <2>1, <2>2, FileInFiles DEF FoundInv, Loaded, Working
  <2>4. ASSUME NEW r \in Runs, RunStep(r)
        PROVE  content'[File(q)] # Absent
    <3>1. ASSUME NEW text \in {Empty, Torn, cfgVer[r]}, Write(r, text)
          PROVE  content'[File(q)] # Absent
      <4>1. cfgVer[r] \in Versions
        BY <3>1 DEF Write, LoadedInv, LoadedOf, Loaded, Working
      <4>2. text # Absent
        BY <4>1, BoundsAssumption DEF Empty, Torn, Absent, Versions
      <4>3. QED
        BY <2>3, <3>1, <4>2 DEF Write, TypeOK
    <3>2. QED
      BY <2>3, <2>4, <3>1, FilesStep
  <2>5. ASSUME Tick \/ UNCHANGED vars
        PROVE  content'[File(q)] # Absent
    <3>1. UNCHANGED content
      BY <2>5 DEF Tick, vars, fsVars
    <3>2. QED
      BY <2>3, <3>1
  <2>6. (\E r \in Runs : RunStep(r)) \/ Tick \/ UNCHANGED vars
    BY CalmStep
  <2>7. content'[File(q)] # Absent
    BY <2>4, <2>5, <2>6
  <2>8. QED
    BY <2>2, <2>7
<1>4. QED
  BY <1>1, <1>2, <1>3

LEMMA AloneStep ==
  ASSUME TypeOK, AloneInv, [Next]_vars
  PROVE  AloneInv'
<1> SUFFICES ASSUME NEW q \in Runs, Runs = {q}, pc'[q] = "mkdir"
             PROVE  ~dir'[kind'[q]]
  BY DEF AloneInv
<1>1. CASE CheckParent(q)
  BY <1>1 DEF CheckParent, ForBothKinds, Goto, TypeOK, fsVars
<1>2. CASE RunStep(q) /\ ~CheckParent(q)
  <2>1. ParseCL(q) \/ Crash(q) => FALSE
    BY DEF ParseCL, Crash, Goto, TypeOK
  <2>2. ReadMTime(q) \/ LoadFile(q) \/ CheckExists(q) \/ CheckMTime(q) \/ Decide(q)
          => FALSE
    BY DEF ReadMTime, LoadFile, CheckExists, CheckMTime, Decide, EnterClass,
           ForBothKinds, Throw, Goto, TypeOK
  <2>3. Mkdir(q) \/ Render(q) \/ Open(q) \/ OpenFails(q) => FALSE
    BY DEF Mkdir, Render, Open, OpenFails, ForBothKinds, Throw, Goto, TypeOK
  <2>4. Flush(q) \/ FlushFails(q) => FALSE
    <3>1. CASE kind[q] = "h"
      BY <3>1 DEF Flush, FlushFails, Closed, ForBothKinds, Goto, TypeOK
    <3>2. CASE kind[q] # "h"
      BY <3>2 DEF Flush, FlushFails, Closed, EnterClass, Goto, TypeOK
    <3>3. QED
      BY <3>1, <3>2
  <2>5. QED
    BY <1>2, <2>1, <2>2, <2>3, <2>4 DEF RunStep, Step
<1>3. CASE (\E f \in Files : Clean(f)) \/ Tick \/ Edit \/ UNCHANGED vars
  <2>1. UNCHANGED dir
    BY <1>3 DEF Clean, Tick, Edit, vars, fsVars
  <2>2. Still(q)
    BY <1>3, FrameWorld
  <2>3. QED
    BY <2>1, <2>2 DEF Still, AloneInv
<1>4. QED
  BY <1>1, <1>2, <1>3 DEF Next, RunStep

(* What an undisturbed invocation throws for is so until the next edit.     *)
LEMMA StopsStep ==
  ASSUME TypeOK, LoadedInv, FoundInv, AloneInv, StopsForCause, [Next]_vars
  PROVE  StopsForCause'
<1> DEFINE Cause(q) == \/ inVer = Absent
                       \/ inVer \in Unparsable
                       \/ inVer \in Versions /\ cls[q] \in Rejected[inVer]
                       \/ Runs # {q} /\ dir[kind[q]]
<1> SUFFICES ASSUME NEW q \in Runs, calm'[q], pc'[q] = "failed"
             PROVE  Cause(q)'
  BY DEF StopsForCause
<1>1. kind[q] \in Kinds
  BY DEF TypeOK
<1>2. CASE ParseCL(q)
  BY <1>2 DEF ParseCL, Goto, TypeOK, envVars
<1>3. CASE LoadFile(q)
  BY <1>3 DEF LoadFile, EnterClass, Throw, Goto, TypeOK, envVars
<1>4. CASE CheckMTime(q)
  <2>1. calm[q] /\ pc[q] = "mtime"
    BY <1>4 DEF CheckMTime
  <2>2. content[File(q)] # Absent
    BY <2>1 DEF FoundInv
  <2>3. QED
    BY <1>4, <2>2 DEF CheckMTime, ForBothKinds, Goto, TypeOK
<1>5. CASE Mkdir(q)
  <2>1. CASE dir[kind[q]]
    <3>1. Runs # {q}
      BY <1>5, <2>1 DEF Mkdir, AloneInv
    <3>2. UNCHANGED <<dir, kind>>
      BY <1>5, <2>1 DEF Mkdir, Throw
    <3>3. QED
      BY <2>1, <3>1, <3>2
  <2>2. CASE ~dir[kind[q]]
    BY <1>5, <2>2 DEF Mkdir, ForBothKinds, Goto, TypeOK
  <2>3. QED
    BY <2>1, <2>2
<1>6. CASE Render(q)
  <2>1. calm[q] /\ pc[q] = "render" /\ UNCHANGED inVer
    BY <1>6 DEF Render, envVars
  <2>2. cfgVer[q] = inVer /\ cfgVer[q] \in Versions
    BY <2>1 DEF LoadedInv, LoadedOf, Loaded, Working
  <2>3. cls[q] \in Rejected[cfgVer[q]] /\ cls'[q] = cls[q]
    BY <1>6 DEF Render, Throw, Goto, TypeOK
  <2>4. QED
    BY <2>1, <2>2, <2>3
<1>7. CASE ReadMTime(q) \/ CheckExists(q) \/ Decide(q) \/ CheckParent(q)
           \/ Open(q) \/ OpenFails(q) \/ Crash(q)
  BY <1>7 DEF ReadMTime, CheckExists, Decide, CheckParent, Open, OpenFails, Crash,
              EnterClass, ForBothKinds, Goto, TypeOK
<1>8. CASE Flush(q) \/ FlushFails(q)
  <2>1. CASE kind[q] = "h"
    BY <1>8, <2>1 DEF Flush, FlushFails, Closed, ForBothKinds, Goto, TypeOK
  <2>2. CASE kind[q] # "h"
    BY <1>8, <2>2 DEF Flush, FlushFails, Closed, EnterClass, Goto, TypeOK
  <2>3. QED
    BY <2>1, <2>2
<1>9. CASE ~RunStep(q)
  <2>1. Still(q) /\ calm[q]
    BY <1>9, StillCalm
  <2>2. Cause(q) /\ kind'[q] = kind[q] /\ cls'[q] = cls[q]
    BY <2>1 DEF Still, StopsForCause
  <2>3. inVer' = inVer
    <3>1. ASSUME NEW r \in Runs, RunStep(r)
          PROVE  inVer' = inVer
      BY <3>1, FrameRun DEF envVars
    <3>2. CASE Tick \/ UNCHANGED vars
      BY <3>2 DEF Tick, vars, envVars
    <3>3. QED
      BY <3>1, <3>2, CalmStep
  <2>4. dir[kind[q]] => dir'[kind[q]]
    BY <1>1, DirStep
  <2>5. QED
    BY <2>2, <2>3, <2>4
<1>10. QED
  BY <1>2, <1>3, <1>4, <1>5, <1>6, <1>7, <1>8, <1>9 DEF RunStep, Step

-----------------------------------------------------------------------------
(* The theorems. *)

LEMMA InitIInv == Init => IInv
<1>1. Init => FoundInv /\ AloneInv /\ StopsForCause
  BY DEF Init, FoundInv, AloneInv, StopsForCause
<1>2. QED
  BY <1>1, BoundsAssumption
   DEF Init, IInv, TypeOK, ClassInv, Versions, Contents, Absent, Kinds, AtRest,
       Loaded, Working, ClockInv, VersionInv, LoadedInv, LoadedOf, Active,
       CheckedInv, CheckedOf, WrittenInv, WrittenOf, PassedClassesClean,
       Classes, EditInv, KindInv, ComposedInv, RejectedNeverWritten, File

LEMMA StepIInv == IInv /\ [Next]_vars => IInv'
BY TypeInductive, ClockStep, VersionStep, LoadedStep, CheckedStep, WrittenStep,
   PassedStep, EditStep, KindStep, ComposedStep, RejectedStep, FoundStep,
   AloneStep, StopsStep DEF IInv

LEMMA Invariance == Spec => []IInv
BY InitIInv, StepIInv, PTL DEF Spec

(* An undisturbed invocation leaves the classes it has passed in need of    *)
(* nothing, and fails only for the input's sake or when another makes the   *)
(* directory it is about to make, however many others run beside it.        *)
THEOREM UndisturbedRunHolds == Spec => []UndisturbedRun
<1>1. IInv => UndisturbedRun
  BY DEF IInv, UndisturbedRun
<1>2. QED
  BY <1>1, Invariance, PTL

(* No file ever carries a class from a version that does not define it.     *)
THEOREM RejectedNeverWrittenHolds == Spec => []RejectedNeverWritten
<1>1. IInv => RejectedNeverWritten
  BY DEF IInv
<1>2. QED
  BY <1>1, Invariance, PTL

(* The early return is wrong in the three ways SkipIsSound names and in no  *)
(* other.  A file whose text is older than the version loaded and whose     *)
(* writer knew the input it saw was written before the last edit, hence is  *)
(* not younger than the input (EditInv); it is not older either, as the     *)
(* dirty test was just made (CheckedInv).                                   *)
THEOREM SkipIsSoundHolds == Spec => []SkipIsSound
<1>1. IInv => SkipIsSound
  <2> SUFFICES ASSUME IInv, "backdate" \notin Faults,
                      NEW r \in Runs, pc[r] = "decide", UpToDate(r), calm[r],
                      NEW f \in Files, f[1] \in Kinds, f[2] = cls[r],
                      content[f] \notin {cfgVer[r], Empty, Torn}
               PROVE  /\ content[f] \in Versions
                      /\ content[f] < seen[f] \/ mtime[f] = inMTime
    BY DEF SkipIsSound, IInv, ClassInv, Loaded, Working, Files
  <2>1. ~Outdated(f)
    <3>1. Checked(r) \ dirty[r] = Kinds
      BY DEF Checked, UpToDate
    <3>2. f = <<f[1], cls[r]>>
      BY DEF Files
    <3>3. QED
      BY <3>1, <3>2 DEF IInv, CheckedInv, CheckedOf
  <2>2. content[f] \in Versions
    BY <2>1 DEF Outdated, IInv, TypeOK, Contents
  <2>3. CASE content[f] # seen[f]
    BY <2>2, <2>3, BoundsAssumption
       DEF IInv, VersionInv, TypeOK, Versions, Absent
  <2>4. CASE content[f] = seen[f]
    <3>1. cfgVer[r] = inVer
      BY DEF IInv, LoadedInv, LoadedOf, Loaded, Working
    <3>2. seen[f] < inVer
      BY <2>4, <3>1, BoundsAssumption
         DEF IInv, VersionInv, TypeOK, Versions, Absent
    <3>3. mtime[f] <= inMTime
      BY <3>2 DEF IInv, EditInv
    <3>4. ~(mtime[f] < inMTime)
      BY <2>1 DEF Outdated
    <3>5. QED
      BY <2>2, <3>3, <3>4, BoundsAssumption DEF IInv, TypeOK
  <2>5. QED
    BY <2>2, <2>3, <2>4
<1>2. QED
  BY <1>1, Invariance, PTL

-----------------------------------------------------------------------------
(* Truncated files. *)

(* r holds f open, to write it. *)
Holds(r, f) == pc[r] = "flush" /\ fd[r] /\ File(r) = f

(* A truncated file is held by the invocation that truncated it, or was     *)
(* before this step.                                                        *)
LEMMA EmptiedStep ==
  ASSUME TypeOK, ClassInv, EmptiedOnlyInFlight, [Next]_vars
  PROVE  EmptiedOnlyInFlight'
<1> SUFFICES ASSUME Faults \intersect {"crash", "io"} = {},
                    NEW f \in Files, content'[f] = Empty
             PROVE  \E r \in Runs : Holds(r, f)'
  BY DEF EmptiedOnlyInFlight, Holds
<1>1. ASSUME content[f] = Empty
      PROVE  \E r \in Runs : Holds(r, f)
  BY <1>1 DEF EmptiedOnlyInFlight, Holds
<1>2. ASSUME NEW q \in Runs, RunStep(q)
      PROVE  \E r \in Runs : Holds(r, f)'
  <2>1. CASE Open(q) /\ File(q) = f
    BY <2>1 DEF Open, Goto, Holds, TypeOK, File
  <2>2. CASE ~(Open(q) /\ File(q) = f)
    <3>1. content[f] = Empty
      <4>1. CASE UNCHANGED <<content, mtime, seen>>
        BY <4>1
      <4>2. CASE Open(q)
        BY <2>2, <4>2 DEF Open, TypeOK
      <4>3. CASE Flush(q)
        BY <4>3, BoundsAssumption
           DEF Flush, Overlay, TypeOK, Empty, Torn, Absent, Versions
      <4>4. QED
        BY <1>2, <4>1, <4>2, <4>3
           DEF RunStep, Step, ParseCL, ReadMTime, LoadFile, CheckExists,
               CheckMTime, Decide, CheckParent, Mkdir, Render, OpenFails,
               FlushFails, Crash, fsVars
    <3>2. PICK r \in Runs : Holds(r, f)
      BY <1>1, <3>1
    <3>3. CASE r # q
      BY <1>2, <3>2, <3>3, FrameRun DEF Still, Holds, File
    <3>4. CASE r = q
      <4>1. pc[q] = "flush" /\ fd[q] /\ File(q) = f
        BY <3>2, <3>4 DEF Holds
      <4>2. Flush(q) \/ ParseCL(q)
        BY <1>2, <4>1
           DEF RunStep, Step, ReadMTime, LoadFile, CheckExists, CheckMTime,
               Decide, CheckParent, Mkdir, Render, Open, OpenFails,
               FlushFails, Crash
      <4>3. Flush(q)
        BY <4>1, <4>2 DEF ParseCL, AtRest
      <4>4. content'[f] \in {cfgVer[q], Torn}
        BY <4>1, <4>3 DEF Flush, Overlay, TypeOK
      <4>5. QED
        BY <4>4, BoundsAssumption DEF TypeOK, Empty, Torn, Absent, Versions
    <3>5. QED
      BY <3>3, <3>4
  <2>3. QED
    BY <2>1, <2>2
<1>3. ASSUME NEW g \in Files, Clean(g)
      PROVE  \E r \in Runs : Holds(r, f)'
  <2>1. f # g /\ content[f] = Empty
    BY <1>3 DEF Clean, TypeOK, Empty, Absent
  <2>2. PICK r \in Runs : Holds(r, f)
    BY <1>1, <2>1
  <2>3. Holds(r, f)'
    BY <1>3, <2>1, <2>2 DEF Clean, Holds, File
  <2>4. QED
    BY <2>3
<1>4. CASE Tick \/ Edit \/ UNCHANGED vars
  BY <1>1, <1>4 DEF Tick, Edit, vars, fsVars, runVars, Holds, File
<1>5. QED
  BY <1>2, <1>3, <1>4 DEF Next, RunStep

(* Without crashes and I/O errors a file is empty only in the hands of an   *)
(* invocation that is about to write it.                                    *)
THEOREM EmptiedOnlyInFlightHolds == Spec => []EmptiedOnlyInFlight
<1>1. Init => EmptiedOnlyInFlight
  BY DEF Init, EmptiedOnlyInFlight, Absent, Empty
<1>2. IInv /\ EmptiedOnlyInFlight /\ [Next]_vars => EmptiedOnlyInFlight'
  BY EmptiedStep DEF IInv
<1>3. QED
  BY <1>1, <1>2, Invariance, PTL DEF Spec

=============================================================================
