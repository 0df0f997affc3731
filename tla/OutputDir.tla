----------------------------- MODULE OutputDir -----------------------------
(***************************************************************************)
(* Where an invocation puts its files: main takes the output directory     *)
(* from its command line and makes it if need be, and the generator hangs  *)
(* the directories and the header of a class below it, with File and       *)
(* File::mkdir.  Several invocations may do so at once.                    *)
(***************************************************************************)
EXTENDS MakeDirectory

CONSTANT
  Header   \* a class's header below the output directory, as a path

(* The header has a name, which is the last of its path. *)
ASSUME HeaderPathAssumption ==
  Header \in Path /\ Header # <<>> /\ Last(Header) # Sep /\ Spelt(Header)

VARIABLES
  step,        \* step[p]: what invocation p does next
  arg,         \* arg[p]: argv[2]
  outputDir,   \* outputDir[p]: g_outputDir, then config->_outputDir
  hFile        \* hFile[p]: the header of the class

mainVars == <<step, arg, outputDir, hFile>>
allVars == <<vars, mainVars>>

NoFile == [path |-> <<>>, dir |-> <<>>]

MainInit ==
  /\ fs \in Trees
  /\ before = fs
  /\ maker = [node \in {} |-> CHOOSE p \in Procs : TRUE]
  /\ arg \in [Procs -> Targets]
  /\ remover = maker
  /\ found = [p \in Procs |-> fs]
  /\ raced = [p \in Procs |-> {}]
  /\ call = [p \in Procs |->
               [op |-> "mkdir", path |-> arg[p], createParents |-> TRUE]]
  /\ stack = [p \in Procs |-> <<>>]
  /\ result = [p \in Procs |-> "running"]
  /\ step = [p \in Procs |-> "construct"]
  /\ outputDir = [p \in Procs |-> NoFile]
  /\ hFile = [p \in Procs |-> NoFile]

Proceed(p, from, to) == step[p] = from /\ step' = [step EXCEPT ![p] = to]

(* A node that p makes, or that it fails to make. *)
TryToMake(p, path, kind) ==
  IF Vacant(path)
  THEN /\ Make(path, kind)
       /\ maker' = [node \in DOMAIN maker \union {Node(path)} |->
                      IF node = Node(path) THEN p ELSE maker[node]]
  ELSE UNCHANGED <<fs, maker>>

(* parseCL: g_outputDir is constructed, of what is there or not. *)
ConstructOutputDir(p) ==
  /\ Proceed(p, "construct", "check")
  /\ outputDir' = [outputDir EXCEPT ![p] = NewFile(arg[p])]
  /\ UNCHANGED <<vars, arg, hFile>>

CheckOutputDir(p) ==
  /\ Proceed(p, "check", IF Stat(arg[p]) = "none" THEN "shell" ELSE "validate")
  /\ UNCHANGED <<vars, arg, outputDir, hFile>>

(* system( "mkdir ..." ), whose exit status nobody looks at. *)
ShellMkdir(p) ==
  /\ Proceed(p, "shell", "validate")
  /\ TryToMake(p, arg[p], "dir")
  /\ UNCHANGED <<stack, result, call, before, remover, others, arg, outputDir, hFile>>

(* Mutant of Validate: nothing is refused. *)
ValidateNothing(p) ==
  /\ Proceed(p, "validate", "compose")
  /\ UNCHANGED <<vars, arg, outputDir, hFile>>

(* Only what neither exists nor is a directory is refused. *)
Validate(p) ==
  /\ Proceed(p, "validate", IF Stat(arg[p]) = "none" THEN "failed" ELSE "compose")
  /\ UNCHANGED <<vars, arg, outputDir, hFile>>

(* generate: File hFile( config->_outputDir, includeRoot + hFilePath ). *)
ComposeHeader(p) ==
  /\ Proceed(p, "compose", "parents")
  /\ hFile' = [hFile EXCEPT ![p] = NewFile(outputDir[p].dir \o Header)]
  /\ UNCHANGED <<vars, arg, outputDir>>

(* Mutant of EnsureParent: the File of the header itself is made. *)
EnsureHeader(p) ==
  /\ step[p] = "parents"
  /\ IF Stat(hFile[p].dir) # "none"
     THEN Proceed(p, "parents", "open") /\ UNCHANGED <<stack, call>>
     ELSE /\ Proceed(p, "parents", "making")
          /\ call' = [call EXCEPT ![p].path = hFile[p].path]
          /\ stack' = [stack EXCEPT ![p] = <<Frame(hFile[p], TRUE)>>]
  /\ UNCHANGED <<fs, result, before, maker, remover, others, arg, outputDir, hFile>>

(* generate: File hOutputFileParent = hFile.getDir(), and its mkdir.  The   *)
(* constructor's stat and that of exists() are two calls in the code and    *)
(* one step here, at the time of the second: invocations only make nodes,   *)
(* so that what the first finds as a directory the second does too, and the *)
(* path, which only a directory changes, is then not used any more.         *)
EnsureParent(p) ==
  LET parent == NewFile(hFile[p].dir) IN
  /\ step[p] = "parents"
  /\ IF Stat(parent.path) # "none"
     THEN Proceed(p, "parents", "open") /\ UNCHANGED <<stack, call>>
     ELSE /\ Proceed(p, "parents", "making")
          /\ call' = [call EXCEPT ![p].path = parent.path]
          /\ stack' = [stack EXCEPT ![p] = <<Frame(parent, TRUE)>>]
  /\ UNCHANGED <<fs, result, before, maker, remover, others, arg, outputDir, hFile>>

(* The generator's call of File::mkdir, one step or its end. *)
InMkdir(p) ==
  /\ step[p] = "making"
  /\ \/ Step(p) /\ UNCHANGED mainVars
     \/ /\ ~Running(p)
        /\ Proceed(p, "making",
                   IF result[p] = "returned" THEN "open" ELSE "failed")
        /\ UNCHANGED <<vars, arg, outputDir, hFile>>

(* The ofstream: creates the header if it can, and nobody looks. *)
OpenHeader(p) ==
  /\ Proceed(p, "open", "exited")
  /\ TryToMake(p, hFile[p].path, "file")
  /\ UNCHANGED <<stack, result, call, before, remover, others, arg, outputDir, hFile>>

MainStep(p) ==
  \/ ConstructOutputDir(p) \/ CheckOutputDir(p) \/ ShellMkdir(p) \/ Validate(p)
  \/ ComposeHeader(p) \/ EnsureParent(p) \/ InMkdir(p) \/ OpenHeader(p)

MainNext == \E p \in Procs : MainStep(p)
MainSpec == MainInit /\ [][MainNext]_allVars
FairMainSpec == MainSpec /\ \A p \in Procs : WF_allVars(MainStep(p))

-----------------------------------------------------------------------------
(* Properties. *)

asked(p) == Node(arg[p])

(* The spellings of the output directory that the code gets right: what     *)
(* exists as a directory, a plain name, or one with a trailing separator.   *)
WellSpelt(p) ==
  \/ asked(p) \in DOMAIN before /\ before[asked(p)] = "dir"
  \/ asked(p) \notin DOMAIN before
     /\ (Last(arg[p]) = Sep \/ \A i \in DOMAIN arg[p] : arg[p][i] # Sep)

(* An invocation makes nothing outside of the output directory it was given *)
(* on the command line, as far as that is well spelt.                       *)
MadeInside ==
  \A node \in DOMAIN maker :
    WellSpelt(maker[node]) => IsPrefix(asked(maker[node]), node)

(* Where the user asked for the header to be. *)
header(p) == asked(p) \o Node(<<Sep>> \o Header)

(* Exit status 0 means that the header is where the user asked for it, also *)
(* when invocations make the same directories at once; unless a directory   *)
(* lies there that the invocation did not make itself.                      *)
ExitedMeansWritten ==
  \A p \in Procs :
    step[p] = "exited" /\ WellSpelt(p) =>
      /\ header(p) \in DOMAIN fs
      /\ \/ fs[header(p)] = "file"
         \/ header(p) \in DOMAIN before
         \/ maker[header(p)] # p

(* With a well spelt output directory an invocation ends.                   *)
EveryInvocationEnds ==
  \A p \in Procs : WellSpelt(p) => <>(step[p] \in {"failed", "exited"})

(* linux_main.cpp, the usage message: argv[2] is the output base dir.       *)
OutputUnderBaseDir ==
  \A node \in DOMAIN maker : IsPrefix(asked(maker[node]), node)

=============================================================================
