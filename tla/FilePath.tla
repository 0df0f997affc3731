------------------------------ MODULE FilePath ------------------------------
(***************************************************************************)
(* The class File over a tree of directories and files.  A path is a       *)
(* sequence of separators and names; that a name has one token stands for  *)
(* names of any length, since the code only ever looks for separators.     *)
(* _isDir and _exists are left out: where the code reads them it has just  *)
(* evaluated them.                                                         *)
(***************************************************************************)
EXTENDS Integers, Sequences, SequencesExt

CONSTANTS
  Names,   \* names of directories and files
  Sep,     \* PATH_SEPARATOR
  Cwd      \* the node of the working directory

VARIABLE
  fs       \* the tree: the kind of each node, a node being a sequence of names

Kinds == {"dir", "file"}

(* Every node but the root lies in a directory. *)
IsTree(t) ==
  /\ <<>> \in DOMAIN t /\ t[<<>>] = "dir"
  /\ \A node \in DOMAIN t \ {<<>>} :
       Front(node) \in DOMAIN t /\ t[Front(node)] = "dir"

-----------------------------------------------------------------------------
(* The operating system. *)

Absolute(path) == path # <<>> /\ path[1] = Sep

Path == Seq(Names \union {Sep})

(* A path as it is spelt: of two names next to each other one would be a    *)
(* part of the other.                                                       *)
Spelt(path) ==
  \A i \in 1..(Len(path) - 1) : path[i] = Sep \/ path[i + 1] = Sep

(* The node that each beginning of a path leads to: repeated separators are *)
(* one, and a name leads on.                                                *)
Walk[path \in Path] ==
  LET node[n \in 0..Len(path)] ==
        IF n = 0 THEN IF Absolute(path) THEN <<>> ELSE Cwd
        ELSE IF path[n] = Sep THEN node[n - 1] ELSE Append(node[n - 1], path[n])
  IN node

Node(path) == Walk[path][Len(path)]

(* stat: a path that ends in a separator has to name a directory. *)
Stat(path) ==
  LET node == Node(path) IN
    IF /\ path # <<>> /\ node \in DOMAIN fs
       /\ Last(path) = Sep => fs[node] = "dir"
    THEN fs[node]
    ELSE "none"

(* A path at which something can be made: nothing there, and a directory  *)
(* to make it in.                                                         *)
Vacant(path) ==
  LET node == Node(path) IN
    /\ path # <<>> /\ node \notin DOMAIN fs
    /\ Front(node) \in DOMAIN fs /\ fs[Front(node)] = "dir"

Make(path, kind) ==
  fs' = [node \in DOMAIN fs \union {Node(path)} |->
           IF node = Node(path) THEN kind ELSE fs[node]]

-----------------------------------------------------------------------------
(* The class. *)

(* find_last_of a separator among the first n positions; 0 is npos. *)
LastSep[path \in Path] ==
  [n \in 0..Len(path) |->
     CHOOSE k \in 0..n :
       /\ k # 0 => path[k] = Sep
       /\ \A i \in (k + 1)..n : path[i] # Sep]

(* substr from the start to a position found: for npos, the whole string. *)
Upto(path, found) ==
  IF found = 0 THEN path ELSE SubSeq(path, 1, found - 1)

(* Mutant of NewFile: of what does not exist, a trailing separator is not *)
(* looked at either.                                                       *)
NewFileStripped(path) ==
  LET shorter == IF path = <<>> THEN path ELSE Front(path) IN
    IF Stat(path) = "dir"
    THEN [path |-> path, dir |-> Append(path, Sep)]
    ELSE [path |-> path,
          dir |-> Append(Upto(path, LastSep[shorter][Len(shorter)]), Sep)]

(* File::File and initialize: _path and _dir. *)
NewFile(path) ==
  IF Stat(path) = "dir"
  THEN LET pruned == IF Len(path) > 1 /\ Last(path) = Sep
                     THEN Front(path) ELSE path IN
         [path |-> pruned, dir |-> Append(pruned, Sep)]
  ELSE [path |-> path,
        dir |-> Append(Upto(path, LastSep[path][Len(path)]), Sep)]

(* Mutant of ParentDir: the search begins at the last character. *)
ParentDirFromEnd(file) ==
  NewFile(Upto(file.path, LastSep[file.path][Len(file.path)]))

(* File::getParentDir.  For what does not exist the search begins at the   *)
(* last character but one, a number that for shorter paths wraps around to *)
(* "from the end".                                                         *)
ParentDir(file) ==
  LET length == Len(file.path)
      kind == Stat(file.path) IN
    IF kind = "none"
    THEN NewFile(Upto(file.path,
           LastSep[file.path][IF length < 2 THEN length ELSE length - 1]))
    ELSE IF kind = "dir"
    THEN NewFile(Upto(file.path, LastSep[file.path][length]))
    ELSE NewFile(file.dir)

=============================================================================
