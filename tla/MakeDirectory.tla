--------------------------- MODULE MakeDirectory ---------------------------
(***************************************************************************)
(* File::mkdir and File::rm, one system call at a time, called by several  *)
(* processes at once.  mkdir calls itself for the missing ancestors, so    *)
(* each process has a stack of activations.                                *)
(***************************************************************************)
EXTENDS FilePath

CONSTANTS
  Procs,
  Trees,      \* what the file system may look like at first
  Targets,    \* the paths mkdir is called for
  Removals    \* the paths rm is called for

(* The trees are trees of named nodes, in which the processes have a       *)
(* directory to work in.                                                   *)
ASSUME MakeDirectoryAssumption ==
  /\ Cwd \in Seq(Names)
  /\ Targets \union Removals \subseteq Path
  /\ \A t \in Trees :
       /\ IsTree(t) /\ t \in [DOMAIN t -> Kinds] /\ DOMAIN t \subseteq Seq(Names)
       /\ Cwd \in DOMAIN t /\ t[Cwd] = "dir"

(* Between two names there is a separator. *)
ASSUME SpellingAssumption == \A path \in Targets \union Removals : Spelt(path)

VARIABLES
  stack,    \* stack[p]: the activations of mkdir, the innermost last
  result,   \* result[p]: how the call ended
  call,     \* history: call[p] is what p called, and with what
  before,   \* history: the tree of the beginning
  maker,    \* history: who made which node
  remover,  \* history: who removed which node
  found,    \* history: found[p] is the tree when p's call began
  raced     \* history: raced[p] are the nodes that others made during it

others == <<found, raced>>
history == <<call, before, maker, remover, others>>
vars == <<fs, stack, result, history>>

Frame(file, createParents) ==
  [file |-> file, createParents |-> createParents, parentDir |-> file,
   ancestors |-> <<>>, pc |-> "exists"]

(* The activation of a call: rm begins at a label of its own. *)
Activation(request) ==
  [Frame(NewFile(request.path), request.createParents) EXCEPT
     !.pc = IF request.op = "rm" THEN "rm" ELSE @]

Labels == {"exists", "parent", "climb", "up", "descend", "check", "mkdir", "chmod",
           "rm", "unlink"}

Calls == [op : {"mkdir"}, path : Targets, createParents : BOOLEAN]
         \union [op : {"rm"}, path : Removals, createParents : {FALSE}]

TypeOK ==
  /\ IsTree(fs) /\ \A node \in DOMAIN fs : fs[node] \in Kinds
  /\ \A p \in Procs : \A i \in DOMAIN stack[p] : stack[p][i].pc \in Labels
  /\ \A p \in Procs : Len(stack[p]) <= 2
  /\ result \in [Procs -> {"running", "returned", "thrown"}]
  /\ call \in [Procs -> Calls]
  /\ \A p \in Procs : result[p] = "running" <=> stack[p] # <<>>
  /\ DOMAIN fs = (DOMAIN before \ DOMAIN remover) \union DOMAIN maker
  /\ \A p \in Procs : IsTree(found[p]) /\ raced[p] \subseteq DOMAIN maker

Init ==
  /\ fs \in Trees
  /\ call \in [Procs -> Calls]
  /\ stack = [p \in Procs |-> <<Activation(call[p])>>]
  /\ result = [p \in Procs |-> "running"]
  /\ before = fs
  /\ maker = [node \in {} |-> CHOOSE p \in Procs : TRUE]
  /\ remover = [node \in {} |-> CHOOSE p \in Procs : TRUE]
  /\ found = [p \in Procs |-> fs]
  /\ raced = [p \in Procs |-> {}]

-----------------------------------------------------------------------------
Running(p) == stack[p] # <<>>
frame(p) == Last(stack[p])
At(p, label) == Running(p) /\ frame(p).pc = label

(* The first step of a call is still to come. *)
Waiting(p) == Running(p) /\ Len(stack[p]) = 1 /\ frame(p).pc \in {"exists", "rm"}

(* The tree has changed, by p: those that wait will find it so. *)
Found ==
  found' = [q \in Procs |-> IF Waiting(q) THEN fs' ELSE found[q]]

Replace(p, f) == stack' = [stack EXCEPT ![p] = Append(Front(@), f)]
Goto(p, label) == Replace(p, [frame(p) EXCEPT !.pc = label])

(* Mutant of Return: the result is there when any activation returns. *)
ReturnAtOnce(p) ==
  /\ stack' = [stack EXCEPT ![p] = Front(@)]
  /\ result' = [result EXCEPT ![p] = "returned"]

(* An activation returns: to the one that called it, or to the caller. *)
Return(p) ==
  /\ stack' = [stack EXCEPT ![p] = Front(@)]
  /\ result' = [result EXCEPT ![p] = IF Len(stack[p]) = 1 THEN "returned" ELSE @]

(* An exception: neither mkdir nor rm catches it. *)
Throw(p) ==
  /\ stack' = [stack EXCEPT ![p] = <<>>]
  /\ result' = [result EXCEPT ![p] = "thrown"]

(* Mutant of CheckSelf: whatever exists is ignored. *)
CheckSelfAnyKind(p) ==
  /\ At(p, "exists")
  /\ IF Stat(frame(p).file.path) # "none"
     THEN Return(p)
     ELSE Goto(p, "parent") /\ UNCHANGED result
  /\ UNCHANGED <<fs, history>>

(* exists(), and isDir() as exists() found it. *)
CheckSelf(p) ==
  /\ At(p, "exists")
  /\ LET kind == Stat(frame(p).file.path) IN
       \/ kind = "dir" /\ Return(p)
       \/ kind = "file" /\ Throw(p)
       \/ kind = "none" /\ Goto(p, "parent") /\ UNCHANGED result
  /\ UNCHANGED <<fs, history>>

(* Mutant of FindParent: ancestors are made without being asked for. *)
FindParentAlwaysClimb(p) ==
  /\ At(p, "parent")
  /\ Replace(p, [frame(p) EXCEPT
       !.parentDir = ParentDir(frame(p).file), !.pc = "climb"])
  /\ UNCHANGED <<fs, result, history>>

FindParent(p) ==
  /\ At(p, "parent")
  /\ Replace(p, [frame(p) EXCEPT
       !.parentDir = ParentDir(frame(p).file),
       !.pc = IF frame(p).createParents THEN "climb" ELSE "check"])
  /\ UNCHANGED <<fs, result, history>>

(* The ancestors to make, the outermost first.  (The code's list also holds *)
(* repetitions, which only a path that is its own parent can make.)         *)
Ahead(file, list) ==
  IF list # <<>> /\ Head(list) = file THEN list ELSE <<file>> \o list

(* Mutant of Climb: push_back for push_front. *)
ClimbPushBack(p) ==
  /\ At(p, "climb")
  /\ IF Stat(frame(p).parentDir.path) # "none"
     THEN Goto(p, "descend")
     ELSE Replace(p, [frame(p) EXCEPT
            !.ancestors = Reverse(Ahead(frame(p).parentDir, Reverse(@))),
            !.pc = "up"])
  /\ UNCHANGED <<fs, result, history>>

(* The loop that looks for a parent that exists. *)
Climb(p) ==
  /\ At(p, "climb")
  /\ IF Stat(frame(p).parentDir.path) # "none"
     THEN Goto(p, "descend")
     ELSE Replace(p, [frame(p) EXCEPT
            !.ancestors = Ahead(frame(p).parentDir, @), !.pc = "up"])
  /\ UNCHANGED <<fs, result, history>>

(* Mutant of ClimbUp: the parent of the target again. *)
ClimbUpFromTarget(p) ==
  /\ At(p, "up")
  /\ Replace(p, [frame(p) EXCEPT !.parentDir = ParentDir(frame(p).file),
                                 !.pc = "climb"])
  /\ UNCHANGED <<fs, result, history>>

ClimbUp(p) ==
  /\ At(p, "up")
  /\ Replace(p, [frame(p) EXCEPT !.parentDir = ParentDir(@), !.pc = "climb"])
  /\ UNCHANGED <<fs, result, history>>

(* The loop over the ancestors: dir.mkdir( false ). *)
Descend(p) ==
  /\ At(p, "descend")
  /\ IF frame(p).ancestors = <<>>
     THEN Goto(p, "mkdir")
     ELSE stack' = [stack EXCEPT ![p] =
            Append(Append(Front(@), [frame(p) EXCEPT !.ancestors = Tail(@)]),
                   Frame(Head(frame(p).ancestors), FALSE))]
  /\ UNCHANGED <<fs, result, history>>

(* Without createParents the parent has to exist. *)
CheckParent(p) ==
  /\ At(p, "check")
  /\ IF Stat(frame(p).parentDir.path) = "none"
     THEN Throw(p)
     ELSE Goto(p, "mkdir") /\ UNCHANGED result
  /\ UNCHANGED <<fs, history>>

(* ::mkdir, which fails on what exists. *)
SystemMkdir(p) ==
  LET path == frame(p).file.path IN
  /\ At(p, "mkdir")
  /\ IF Vacant(path)
     THEN /\ Make(path, "dir")
          /\ maker' = [node \in DOMAIN maker \union {Node(path)} |->
                         IF node = Node(path) THEN p ELSE maker[node]]
          /\ Found
          /\ raced' = [q \in Procs |-> raced[q] \union
                         IF q = p \/ ~Running(q) \/ Waiting(q) THEN {} ELSE {Node(path)}]
          /\ Goto(p, "chmod")
          /\ UNCHANGED result
     ELSE Throw(p) /\ UNCHANGED <<fs, maker, others>>
  /\ UNCHANGED <<call, before, remover>>

(* ::chmod: nothing in the model removes a directory. *)
Chmod(p) ==
  /\ At(p, "chmod")
  /\ Return(p)
  /\ UNCHANGED <<fs, history>>

(* rm: exists(), and isDir() as exists() found it. *)
CheckFile(p) ==
  /\ At(p, "rm")
  /\ IF Stat(frame(p).file.path) = "file"
     THEN Goto(p, "unlink") /\ UNCHANGED result
     ELSE Throw(p)
  /\ UNCHANGED <<fs, history>>

(* The node of a path goes, and p took it away. *)
Unmake(p, path) ==
  /\ fs' = [node \in DOMAIN fs \ {Node(path)} |-> fs[node]]
  /\ remover' = [node \in DOMAIN remover \union {Node(path)} |->
                    IF node = Node(path) THEN p ELSE remover[node]]
  /\ Found
  /\ UNCHANGED raced

(* Mutant of Unlink: its error is not looked at. *)
UnlinkUnchecked(p) ==
  LET path == frame(p).file.path IN
  /\ At(p, "unlink")
  /\ Return(p)
  /\ IF Stat(path) = "file" THEN Unmake(p, path) ELSE UNCHANGED <<fs, remover, others>>
  /\ UNCHANGED <<call, before, maker>>

(* ::unlink, which fails if another process was faster. *)
Unlink(p) ==
  LET path == frame(p).file.path IN
  /\ At(p, "unlink")
  /\ IF Stat(path) = "file"
     THEN Unmake(p, path) /\ Return(p)
     ELSE Throw(p) /\ UNCHANGED <<fs, remover, others>>
  /\ UNCHANGED <<call, before, maker>>

Step(p) ==
  \/ CheckSelf(p) \/ FindParent(p) \/ Climb(p) \/ ClimbUp(p)
  \/ Descend(p) \/ CheckParent(p) \/ SystemMkdir(p) \/ Chmod(p)
  \/ CheckFile(p) \/ Unlink(p)

Next == \E p \in Procs : Step(p)
Spec == Init /\ [][Next]_vars
FairSpec == Spec /\ \A p \in Procs : WF_vars(Step(p))

-----------------------------------------------------------------------------
(* Properties. *)

target(p) == Node(call[p].path)
Makers == {p \in Procs : call[p].op = "mkdir"}

(* Something that is no directory lies on the way to the target. *)
Blocked(p) ==
  \E node \in DOMAIN found[p] :
    found[p][node] = "file" /\ IsPrefix(node, target(p))

(* The path itself begins with the name of a directory that exists: the     *)
(* loop that looks for one can find it.                                     *)
Anchored(p) ==
  \E n \in 1..(Len(call[p].path) - 1) :
    LET prefix == SubSeq(call[p].path, 1, n) IN
      /\ prefix # <<Sep>> /\ Last(prefix) # Sep
      /\ Node(prefix) \in DOMAIN found[p] /\ found[p][Node(prefix)] = "dir"

(* The path ends in several separators: its parent, which is the path       *)
(* without the last but one, is then the same directory, and is not there   *)
(* either; with createParents mkdir makes it first and fails on the target. *)
OwnParent(p) ==
  LET n == Len(call[p].path) IN
    n > 1 /\ call[p].path[n] = Sep /\ call[p].path[n - 1] = Sep

(* A mkdir that returned has made its directory, or found it, whatever was  *)
(* removed meanwhile.                                                       *)
ReturnedMeansMade ==
  \A p \in Makers : result[p] = "returned" =>
    target(p) \in DOMAIN fs /\ fs[target(p)] = "dir"

(* mkdir makes its target and what lies on the way to it, nothing else, and *)
(* nothing on the way unless it was told to.                                *)
OnlyOnTheWay ==
  \A node \in DOMAIN maker :
    LET p == maker[node] IN
      /\ IsPrefix(node, target(p))
      /\ node # target(p) => call[p].createParents

(* On a path with an anchor mkdir fails for a reason: something in the way, *)
(* a parent it was not told to create, another process that made a          *)
(* directory on the way while the call was under way, or a path that ends   *)
(* in several separators.                                                   *)
ThrownForCause ==
  \A p \in Makers : result[p] = "thrown" /\ Anchored(p) =>
    \/ Blocked(p) \/ OwnParent(p)
    \/ ~call[p].createParents /\ Front(target(p)) \notin DOMAIN found[p]
    \/ \E node \in raced[p] : IsPrefix(node, target(p))

(* However the processes race, they do not all fail: one of them makes its  *)
(* directory.                                                               *)
SomeoneSucceeds ==
  Makers # {} /\
  (\A p \in Makers : /\ result[p] # "running"
                     /\ Anchored(p) /\ ~Blocked(p) /\ ~OwnParent(p)
                     /\ call[p].createParents)
    => \E p \in Makers : result[p] = "returned"

(* What rm removes was a file, and of several calls for it exactly the one  *)
(* that removed it returns; a call that throws has removed nothing, and     *)
(* found no file to remove or was overtaken.                                *)
RemovedByOne ==
  \A p \in Procs \ Makers :
    /\ result[p] = "returned" =>
         /\ target(p) \in DOMAIN before /\ before[target(p)] = "file"
         /\ target(p) \in DOMAIN remover /\ remover[target(p)] = p
    /\ result[p] = "thrown" =>
         /\ \A node \in DOMAIN remover : remover[node] # p
         /\ \/ Last(call[p].path) = Sep
            \/ target(p) \notin DOMAIN before \/ before[target(p)] = "dir"
            \/ target(p) \in DOMAIN remover

(* Every mkdir on a path with an anchor ends, and every rm.                 *)
EveryCallEnds ==
  \A p \in Procs : p \notin Makers \/ Anchored(p) => <>~Running(p)

=============================================================================
