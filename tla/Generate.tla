------------------------------ MODULE Generate ------------------------------
(***************************************************************************)
(* Invocations of coderoller that regenerate C++ classes from one shared   *)
(* XML file into one output directory.  An invocation reads the mtime of   *)
(* the input, loads it, and for each class compares the mtimes of the two  *)
(* files it would write with that of the input: it skips the class when    *)
(* neither is older, and otherwise writes both files.  Around it move the  *)
(* clock, an editor of the input, a user who deletes outputs, other        *)
(* invocations, crashes and I/O errors.                                    *)
(*                                                                         *)
(* A file's content is the version of the input it was generated from.     *)
(* Times are in seconds, the unit of File::getMTime.  A step of the model  *)
(* is one system call of the program: no two of them are atomic.           *)
(***************************************************************************)
EXTENDS Integers

CONSTANTS
  Runs,        \* concurrent invocations; each slot can be started again
  NumClasses,  \* the classes of the package are 1..NumClasses, in file order
  MaxVersion,  \* bound: edits of the input
  MaxTime,     \* bound: seconds of the clock
  Unparsable,  \* versions that parseXML refuses, or that are not XML
  Rejected,    \* Rejected[v]: classes with a field whose privacy no level sets
  Faults       \* which of AllFaults may happen

AllFaults == {"crash", "io", "clean", "backdate"}

ASSUME BoundsAssumption ==
  /\ NumClasses \in Nat
  /\ MaxVersion \in Nat
  /\ MaxTime \in Nat

ASSUME InputAssumption ==
  /\ Unparsable \subseteq 1..MaxVersion
  /\ Rejected \in [1..MaxVersion -> SUBSET (1..NumClasses)]
  /\ Faults \subseteq AllFaults

Versions == 1..MaxVersion
Classes == 1..NumClasses
Kinds == {"h", "cpp"}
Files == Kinds \X Classes

(* What a path holds, beside a version of the input. *)
Absent == 0    \* no such file
Empty == -1    \* opened with truncation, nothing written yet
Torn == -2     \* the texts of two versions, one over the other
Contents == Versions \union {Absent, Empty, Torn}

VARIABLES
  now,       \* the clock that stamps files
  inVer,     \* version of the input file, Absent before it is created
  inMTime,   \* mtime of the input file
  content,   \* content[f] \in Contents
  mtime,     \* mtime[f], when the file exists
  dir,       \* dir["h"]: <out>/include exists, dir["cpp"]: <out>/src exists
  pc,        \* pc[r]: next system call of the invocation
  kind,      \* kind[r]: which of the class's two files it is about
  cls,       \* cls[r]: the class being generated
  cfgMTime,  \* cfgMTime[r]: config->_mTime
  cfgVer,    \* cfgVer[r]: the version loaded into config->_package
  dirty,     \* dirty[r]: kinds found dirty (hFileDirty, cppFileDirty)
  fd,        \* fd[r]: the open stream still refers to the file at the path
  seen,      \* history: inVer when content[f] was last written
  calm       \* history: since run r began no edit, no deletion, no failed open

envVars == <<now, inVer, inMTime>>
fsVars == <<content, mtime, dir, seen>>
runVars == <<pc, kind, cls, cfgMTime, cfgVer, dirty, fd>>
vars == <<envVars, fsVars, runVars, calm>>

AtRest == {"idle", "done", "failed", "crashed"}
Working == {"stat", "load", "exists", "mtime", "decide", "parent", "mkdir",
            "render", "open", "flush"}

Active(r) == pc[r] \in Working
File(r) == <<kind[r], cls[r]>>

(* The test of lines 46-47 against the input as it is now. *)
Outdated(f) == content[f] = Absent \/ mtime[f] < inMTime
NeedsRegeneration(c) == \E k \in Kinds : Outdated(<<k, c>>)

TypeOK ==
  /\ now \in 0..MaxTime
  /\ inVer \in Versions \union {Absent}
  /\ inMTime \in 0..MaxTime
  /\ content \in [Files -> Contents]
  /\ mtime \in [Files -> 0..MaxTime]
  /\ dir \in [Kinds -> BOOLEAN]
  /\ pc \in [Runs -> AtRest \union Working]
  /\ kind \in [Runs -> Kinds]
  /\ cls \in [Runs -> 1..(NumClasses + 1)]
  /\ cfgMTime \in [Runs -> 0..MaxTime]
  /\ cfgVer \in [Runs -> Versions \union {Absent}]
  /\ dirty \in [Runs -> SUBSET Kinds]
  /\ fd \in [Runs -> BOOLEAN]
  /\ seen \in [Files -> Versions \union {Absent}]
  /\ calm \in [Runs -> BOOLEAN]

Init ==
  /\ now = 0
  /\ inVer = Absent
  /\ inMTime = 0
  /\ content = [f \in Files |-> Absent]
  /\ mtime = [f \in Files |-> 0]
  /\ dir = [k \in Kinds |-> FALSE]
  /\ pc = [r \in Runs |-> "idle"]
  /\ kind = [r \in Runs |-> "h"]
  /\ cls = [r \in Runs |-> 1]
  /\ cfgMTime = [r \in Runs |-> 0]
  /\ cfgVer = [r \in Runs |-> Absent]
  /\ dirty = [r \in Runs |-> {}]
  /\ fd = [r \in Runs |-> FALSE]
  /\ seen = [f \in Files |-> Absent]
  /\ calm = [r \in Runs |-> FALSE]

-----------------------------------------------------------------------------
(* Control: everything is done for the header first, then for the source. *)

Goto(r, label) == pc' = [pc EXCEPT ![r] = label]

(* The rest of the loop: the same for the other kind, or the next label. *)
ForBothKinds(r, again, after) ==
  /\ Goto(r, IF kind[r] = "h" THEN again ELSE after)
  /\ kind' = [kind EXCEPT ![r] = IF @ = "h" THEN "cpp" ELSE "h"]

(* Mutant of EnterClass: the loop starts over instead of returning. *)
EnterClassForever(r, c) ==
  /\ Goto(r, "exists")
  /\ kind' = [kind EXCEPT ![r] = "h"]
  /\ cls' = [cls EXCEPT ![r] = IF c \in Classes THEN c ELSE 1]
  /\ dirty' = [dirty EXCEPT ![r] = {}]

(* Next iteration of the loop over the classes, or a normal return. *)
EnterClass(r, c) ==
  /\ Goto(r, IF c \in Classes THEN "exists" ELSE "done")
  /\ kind' = [kind EXCEPT ![r] = "h"]
  /\ cls' = [cls EXCEPT ![r] = c]
  /\ dirty' = [dirty EXCEPT ![r] = {}]

(* An exception reaches main: exit status 1. *)
Throw(r) ==
  /\ Goto(r, "failed")
  /\ UNCHANGED <<kind, cls, dirty>>

(* main and parseCL: the program starts if the input file exists. *)
ParseCL(r) ==
  /\ pc[r] \in AtRest
  /\ Goto(r, IF inVer = Absent THEN "failed" ELSE "stat")
  /\ kind' = [kind EXCEPT ![r] = "h"]
  /\ cls' = [cls EXCEPT ![r] = 1]
  /\ cfgMTime' = [cfgMTime EXCEPT ![r] = 0]
  /\ cfgVer' = [cfgVer EXCEPT ![r] = Absent]
  /\ dirty' = [dirty EXCEPT ![r] = {}]
  /\ fd' = [fd EXCEPT ![r] = FALSE]
  /\ calm' = [calm EXCEPT ![r] = TRUE]
  /\ UNCHANGED <<envVars, fsVars>>

(* Mutant of ReadMTime: the mtime is rounded up to the next second. *)
ReadMTimeRoundedUp(r) ==
  /\ pc[r] = "stat"
  /\ cfgMTime' = [cfgMTime EXCEPT ![r] = inMTime + 1]
  /\ Goto(r, "load")
  /\ UNCHANGED <<envVars, fsVars, kind, cls, cfgVer, dirty, fd, calm>>

(* parseXML: config->_mTime = configFile.getMTime().  The model's editor *)
(* never deletes the input, so its existence check cannot fail here.     *)
ReadMTime(r) ==
  /\ pc[r] = "stat"
  /\ cfgMTime' = [cfgMTime EXCEPT ![r] = inMTime]
  /\ Goto(r, "load")
  /\ UNCHANGED <<envVars, fsVars, kind, cls, cfgVer, dirty, fd, calm>>

(* parseXML: doc.LoadFile and the walk over the document.  A document that *)
(* cannot be used ends the invocation before it wrote anything.            *)
LoadFile(r) ==
  /\ pc[r] = "load"
  /\ IF inVer \in Unparsable
     THEN Throw(r) /\ UNCHANGED cfgVer
     ELSE EnterClass(r, 1) /\ cfgVer' = [cfgVer EXCEPT ![r] = inVer]
  /\ UNCHANGED <<envVars, fsVars, cfgMTime, fd, calm>>

(* generate: the first half of the dirty test, File::exists. *)
CheckExists(r) ==
  /\ pc[r] = "exists"
  /\ IF content[File(r)] = Absent
     THEN /\ dirty' = [dirty EXCEPT ![r] = @ \union {kind[r]}]
          /\ ForBothKinds(r, "exists", "decide")
     ELSE /\ Goto(r, "mtime")
          /\ UNCHANGED <<kind, dirty>>
  /\ UNCHANGED <<envVars, fsVars, cls, cfgMTime, cfgVer, fd, calm>>

(* Mutant of OlderThanInput: the operands are swapped. *)
NewerThanInput(r) == cfgMTime[r] < mtime[File(r)]

(* The comparison of lines 46-47: the input is newer than the output. *)
OlderThanInput(r) == mtime[File(r)] < cfgMTime[r]

(* generate: the second half, File::getMTime, which throws when the file *)
(* has gone since.                                                       *)
CheckMTime(r) ==
  /\ pc[r] = "mtime"
  /\ IF content[File(r)] = Absent
     THEN Throw(r)
     ELSE /\ dirty' = [dirty EXCEPT ![r] =
                IF OlderThanInput(r) THEN @ \union {kind[r]} ELSE @]
          /\ ForBothKinds(r, "exists", "decide")
          /\ UNCHANGED cls
  /\ UNCHANGED <<envVars, fsVars, cfgMTime, cfgVer, fd, calm>>

(* Mutant of UpToDate: skips the class when either file is clean. *)
EitherUpToDate(r) == dirty[r] # Kinds

(* generate: neither file is dirty. *)
UpToDate(r) == dirty[r] = {}

(* generate: return early for an up-to-date class. *)
Decide(r) ==
  /\ pc[r] = "decide"
  /\ IF UpToDate(r)
     THEN EnterClass(r, cls[r] + 1)
     ELSE Goto(r, "parent") /\ UNCHANGED <<kind, cls, dirty>>
  /\ UNCHANGED <<envVars, fsVars, cfgMTime, cfgVer, fd, calm>>

(* Mutant of CheckParent: the source's parent is asked for both files. *)
CheckParentOfSource(r) ==
  /\ pc[r] = "parent"
  /\ IF dir["cpp"]
     THEN ForBothKinds(r, "parent", "render")
     ELSE Goto(r, "mkdir") /\ UNCHANGED kind
  /\ UNCHANGED <<envVars, fsVars, cls, cfgMTime, cfgVer, dirty, fd, calm>>

(* generate: hOutputFileParent.exists(), and the same test again at the *)
(* top of File::mkdir: the outcome is that of the later one.            *)
CheckParent(r) ==
  /\ pc[r] = "parent"
  /\ IF dir[kind[r]]
     THEN ForBothKinds(r, "parent", "render")
     ELSE Goto(r, "mkdir") /\ UNCHANGED kind
  /\ UNCHANGED <<envVars, fsVars, cls, cfgMTime, cfgVer, dirty, fd, calm>>

(* File::mkdir: the system call, which fails on an existing directory. *)
Mkdir(r) ==
  /\ pc[r] = "mkdir"
  /\ IF dir[kind[r]]
     THEN Throw(r) /\ UNCHANGED dir
     ELSE /\ dir' = [dir EXCEPT ![kind[r]] = TRUE]
          /\ ForBothKinds(r, "parent", "render")
          /\ UNCHANGED <<cls, dirty>>
  /\ UNCHANGED <<envVars, content, mtime, seen, cfgMTime, cfgVer, fd, calm>>

(* Mutant of Render: the switch over the privacy has no default case. *)
RenderAnyway(r) ==
  /\ pc[r] = "render"
  /\ Goto(r, "open")
  /\ UNCHANGED <<envVars, fsVars, kind, cls, cfgMTime, cfgVer, dirty, fd, calm>>

(* Mutant of Render: the header's ofstream is constructed at the top of *)
(* the function, before the fields are looked at.                       *)
RenderIntoOpenFile(r) ==
  /\ pc[r] = "render"
  /\ content' = [content EXCEPT ![File(r)] = Empty]
  /\ mtime' = [mtime EXCEPT ![File(r)] = now]
  /\ seen' = [seen EXCEPT ![File(r)] = inVer]
  /\ IF cls[r] \in Rejected[cfgVer[r]]
     THEN Throw(r) /\ UNCHANGED fd
     ELSE /\ Goto(r, "flush")
          /\ fd' = [fd EXCEPT ![r] = TRUE]
          /\ UNCHANGED <<kind, cls, dirty>>
  /\ UNCHANGED <<envVars, dir, cfgMTime, cfgVer, calm>>

(* generate: both texts are composed in memory, and a field without any *)
(* privacy throws, before a file is opened.                             *)
Render(r) ==
  /\ pc[r] = "render"
  /\ IF cls[r] \in Rejected[cfgVer[r]]
     THEN Throw(r)
     ELSE Goto(r, "open") /\ UNCHANGED <<kind, cls, dirty>>
  /\ UNCHANGED <<envVars, fsVars, cfgMTime, cfgVer, fd, calm>>

(* generate: the ofstream constructor creates or truncates the file. *)
Open(r) ==
  /\ pc[r] = "open"
  /\ content' = [content EXCEPT ![File(r)] = Empty]
  /\ mtime' = [mtime EXCEPT ![File(r)] = now]
  /\ seen' = [seen EXCEPT ![File(r)] = inVer]
  /\ fd' = [fd EXCEPT ![r] = TRUE]
  /\ Goto(r, "flush")
  /\ UNCHANGED <<envVars, dir, kind, cls, cfgMTime, cfgVer, dirty, calm>>

(* The same when the open fails: nobody looks at the stream's state. *)
OpenFails(r) ==
  /\ "io" \in Faults
  /\ pc[r] = "open"
  /\ fd' = [fd EXCEPT ![r] = FALSE]
  /\ calm' = [calm EXCEPT ![r] = FALSE]
  /\ Goto(r, "flush")
  /\ UNCHANGED <<envVars, fsVars, kind, cls, cfgMTime, cfgVer, dirty>>

(* After the stream is closed: the other file, or the next class. *)
Closed(r) ==
  IF kind[r] = "h"
  THEN ForBothKinds(r, "open", "open") /\ UNCHANGED <<cls, dirty>>
  ELSE EnterClass(r, cls[r] + 1)

(* Writing the text of version v from offset 0 over what the file holds: *)
(* a longer text of another version leaves its tail.                     *)
Overlay(old, v) == IF old \in {Empty, v} THEN {v} ELSE {v, Torn}

(* generate: operator<< and close().  When the path was unlinked since  *)
(* the open, the text goes to a file nobody can reach.                  *)
Flush(r) ==
  /\ pc[r] = "flush"
  /\ IF fd[r]
     THEN /\ \E text \in Overlay(content[File(r)], cfgVer[r]) :
               content' = [content EXCEPT ![File(r)] = text]
          /\ mtime' = [mtime EXCEPT ![File(r)] = now]
          /\ seen' = [seen EXCEPT ![File(r)] = inVer]
     ELSE UNCHANGED <<content, mtime, seen>>
  /\ fd' = [fd EXCEPT ![r] = FALSE]
  /\ Closed(r)
  /\ UNCHANGED <<envVars, dir, cfgMTime, cfgVer, calm>>

(* The same when nothing could be written: again nobody looks. *)
FlushFails(r) ==
  /\ "io" \in Faults
  /\ pc[r] = "flush"
  /\ fd' = [fd EXCEPT ![r] = FALSE]
  /\ Closed(r)
  /\ UNCHANGED <<envVars, fsVars, cfgMTime, cfgVer, calm>>

Step(r) ==
  \/ ReadMTime(r) \/ LoadFile(r)
  \/ CheckExists(r) \/ CheckMTime(r) \/ Decide(r)
  \/ CheckParent(r) \/ Mkdir(r) \/ Render(r)
  \/ Open(r) \/ OpenFails(r) \/ Flush(r) \/ FlushFails(r)

-----------------------------------------------------------------------------
(* The world around the invocations. *)

Crash(r) ==
  /\ "crash" \in Faults
  /\ Active(r)
  /\ Goto(r, "crashed")
  /\ fd' = [fd EXCEPT ![r] = FALSE]
  /\ UNCHANGED <<envVars, fsVars, kind, cls, cfgMTime, cfgVer, dirty, calm>>

Tick ==
  /\ now < MaxTime
  /\ now' = now + 1
  /\ UNCHANGED <<inVer, inMTime, fsVars, runVars, calm>>

(* The input is replaced; cp -p or a checkout can give it an old mtime. *)
Edit ==
  /\ inVer < MaxVersion
  /\ inVer' = inVer + 1
  /\ inMTime' \in IF "backdate" \in Faults THEN 0..now ELSE {now}
  /\ calm' = [r \in Runs |-> FALSE]
  /\ UNCHANGED <<now, fsVars, runVars>>

(* The user deletes an output file, whoever has it open. *)
Clean(f) ==
  /\ "clean" \in Faults
  /\ content[f] # Absent
  /\ content' = [content EXCEPT ![f] = Absent]
  /\ mtime' = [mtime EXCEPT ![f] = 0]
  /\ seen' = [seen EXCEPT ![f] = Absent]
  /\ fd' = [r \in Runs |-> fd[r] /\ File(r) # f]
  /\ calm' = [r \in Runs |-> FALSE]
  /\ UNCHANGED <<envVars, dir, pc, kind, cls, cfgMTime, cfgVer, dirty>>

Next ==
  \/ \E r \in Runs : ParseCL(r) \/ Step(r) \/ Crash(r)
  \/ \E f \in Files : Clean(f)
  \/ Tick
  \/ Edit

Spec == Init /\ [][Next]_vars

(* A started invocation is scheduled until it returns; when and whether   *)
(* the next one is started is up to the user.                             *)
FairSpec == Spec /\ \A r \in Runs : WF_vars(Step(r))

(* A build that runs the generator over and over. *)
RerunSpec == FairSpec /\ \A r \in Runs : WF_vars(ParseCL(r))

-----------------------------------------------------------------------------
(* Safety. *)

(* The early return "class files for class %s is up to date" is wrong only  *)
(* in three ways.  When an invocation that saw no edit and no deletion      *)
(* since it began skips a class, each of its files was generated from the   *)
(* version it loaded, or it is half written, or its writer had loaded the   *)
(* input before an edit and wrote it after, or input and output carry the   *)
(* same second.  (An input whose mtime is older than the moment it was put  *)
(* in place defeats any test of mtimes.)                                    *)
SkipIsSound ==
  "backdate" \notin Faults =>
    \A r \in Runs :
      pc[r] = "decide" /\ UpToDate(r) /\ calm[r] =>
        \A k \in Kinds :
          LET f == <<k, cls[r]>> IN
            \/ content[f] \in {cfgVer[r], Empty, Torn}
            \/ content[f] \in Versions /\ content[f] < seen[f]
            \/ content[f] \in Versions /\ mtime[f] = inMTime

(* The classes an undisturbed invocation has passed, skipped or written,    *)
(* need no regeneration: not after a normal return, and not when it failed  *)
(* or was killed in a later class either.  So a second invocation right     *)
(* after a successful one rewrites nothing, and one after a failure starts  *)
(* where the first stopped.                                                 *)
PassedClassesClean ==
  \A r \in Runs :
    calm[r] => \A c \in Classes : c < cls[r] => ~NeedsRegeneration(c)

(* An undisturbed invocation fails for the input's sake: there is none, it  *)
(* cannot be parsed, or it does not define the class the invocation is at;  *)
(* or because another invocation made the directory that this one had found *)
(* missing.  So getMTime finds the file that exists() found, unless it was  *)
(* deleted in between, and what earlier invocations left behind, killed at  *)
(* any moment, is never in the way of a later one.                          *)
StopsForCause ==
  \A r \in Runs :
    pc[r] = "failed" /\ calm[r] =>
      \/ inVer = Absent
      \/ inVer \in Unparsable
      \/ inVer \in Versions /\ cls[r] \in Rejected[inVer]
      \/ Runs # {r} /\ dir[kind[r]]

(* What an undisturbed invocation can be relied on for.                     *)
UndisturbedRun == PassedClassesClean /\ StopsForCause

(* Without crashes and I/O errors, the only time a file is truncated is     *)
(* while some invocation holds it open to write it: no exception thrown     *)
(* while a class is composed leaves a file of the last run emptied.         *)
EmptiedOnlyInFlight ==
  Faults \intersect {"crash", "io"} = {} =>
    \A f \in Files :
      content[f] = Empty =>
        \E r \in Runs : pc[r] = "flush" /\ fd[r] /\ File(r) = f

(* A class that a version of the input does not define properly is never    *)
(* written from that version, whatever the invocations before it did.       *)
RejectedNeverWritten ==
  \A f \in Files : content[f] \in Versions => f[2] \notin Rejected[content[f]]

-----------------------------------------------------------------------------
(* Liveness. *)

(* Under the fairness of FairSpec every started invocation ends.            *)
EveryRunEnds == \A r \in Runs : Active(r) ~> ~Active(r)

(* Under RerunSpec the outputs settle: once the last edit is made, either   *)
(* it is an input the generator cannot process, or from some point on no    *)
(* class needs regeneration.                                                *)
Processable == inVer \in Versions \ Unparsable /\ Rejected[inVer] = {}
Settles == <>[](Processable => \A c \in Classes : ~NeedsRegeneration(c))

=============================================================================
