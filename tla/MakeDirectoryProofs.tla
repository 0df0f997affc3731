------------------------ MODULE MakeDirectoryProofs ------------------------
(***************************************************************************)
(* Proofs about MakeDirectory, for any processes, trees and paths: its     *)
(* types, what mkdir makes, what mkdir and rm have done when they end, why *)
(* a mkdir fails, and that of those that race not all do. Then proofs      *)
(* about OutputDir, which calls it: where the directories and headers of   *)
(* several invocations come to lie, and which are written.                 *)
(***************************************************************************)
EXTENDS OutputDir, WellFoundedInduction, TLAPS

Files == [path : Path, dir : Path]
Frames ==
  [file : Files, createParents : BOOLEAN, parentDir : Files,
   ancestors : Seq(Files), pc : Labels]

(* A tree of named nodes. *)
Tree(t) == IsTree(t) /\ t \in [DOMAIN t -> Kinds] /\ DOMAIN t \subseteq Seq(Names)

Types ==
  /\ Tree(fs)
  /\ stack \in [Procs -> Seq(Frames)]
  /\ result \in [Procs -> {"running", "returned", "thrown"}]
  /\ call \in [Procs -> Calls]
  /\ before \in Trees
  /\ maker \in [DOMAIN maker -> Procs] /\ DOMAIN maker \subseteq Seq(Names)
  /\ remover \in [DOMAIN remover -> Procs]
  /\ found \in [Procs -> {found[p] : p \in Procs}] /\ \A p \in Procs : Tree(found[p])
  /\ raced \in [Procs -> SUBSET DOMAIN maker]

(* The tree consists of what was there and not removed, and of what was     *)
(* made; only files are removed, only directories made.                     *)
TreeInv ==
  /\ DOMAIN fs = (DOMAIN before \ DOMAIN remover) \union DOMAIN maker
  /\ \A node \in DOMAIN maker :
       /\ fs[node] = "dir"
       /\ node \notin DOMAIN before \/ node \in DOMAIN remover
  /\ \A node \in DOMAIN before \ DOMAIN remover : fs[node] = before[node]
  /\ \A node \in DOMAIN remover : node \in DOMAIN before /\ before[node] = "file"

(* A path to a node on the way to t, and a File with such paths. *)
Leads(path, t) == path # <<>> => IsPrefix(Node(path), t)
FileLeads(file, t) == Leads(file.path, t) /\ Leads(file.dir, t)

(* All that an activation of p's has to do with lies on the way to p's      *)
(* target, and only those climb that were told to create parents.           *)
ActivationInv(p, f) ==
  /\ FileLeads(f.file, target(p)) /\ FileLeads(f.parentDir, target(p))
  /\ \A k \in DOMAIN f.ancestors : FileLeads(f.ancestors[k], target(p))
  /\ f.pc \in {"rm", "unlink"} <=> call[p].op = "rm"
  /\ f.pc \in {"climb", "up", "descend"} => f.createParents
  /\ f.pc = "chmod" =>
       /\ f.file.path # <<>>
       /\ Node(f.file.path) \in DOMAIN fs /\ fs[Node(f.file.path)] = "dir"

(* The first activation is that of the call, with the file it was asked for *)
(* (rm does not mind a separator that the path has more).                   *)
FirstInv(p, f) ==
  /\ f.createParents = call[p].createParents
  /\ f.file.path = <<>> \/ Node(f.file.path) = target(p)
  /\ \/ f.file.path = call[p].path
     \/ call[p].path # <<>> /\ Last(call[p].path) = Sep

StackInv(p) ==
  /\ result[p] = "running" <=> stack[p] # <<>>
  /\ Len(stack[p]) <= 2
  /\ \A i \in DOMAIN stack[p] : ActivationInv(p, stack[p][i])
  /\ stack[p] # <<>> => FirstInv(p, stack[p][1])
  /\ Len(stack[p]) = 2 => stack[p][1].pc = "descend" /\ ~stack[p][2].createParents

(* What a call has done when it is over, and not before. *)
EndInv(p) ==
  /\ p \in Makers /\ result[p] = "returned" =>
       target(p) \in DOMAIN fs /\ fs[target(p)] = "dir"
  /\ p \notin Makers /\ result[p] = "returned" =>
       target(p) \in DOMAIN remover /\ remover[target(p)] = p
  /\ p \notin Makers /\ result[p] = "thrown" =>
       \/ Last(call[p].path) = Sep
       \/ target(p) \notin DOMAIN before \/ before[target(p)] = "dir"
       \/ target(p) \in DOMAIN remover
  /\ result[p] # "returned" => \A node \in DOMAIN remover : remover[node] # p

IInv ==
  /\ Types /\ TreeInv /\ OnlyOnTheWay
  /\ \A p \in Procs : StackInv(p) /\ EndInv(p)

-----------------------------------------------------------------------------
(* Numbers: induction, for a set of them. *)

LEMMA Least ==
  ASSUME NEW S \in SUBSET Nat, S # {}
  PROVE  \E m \in S : \A n \in S : m <= n
<1>1. PICK m \in S : \A n \in S : ~(<<n, m>> \in OpToRel(<, Nat))
  BY WFMin, NatLessThanWellFounded
<1>2. ASSUME NEW n \in S PROVE m <= n
  <2>1. ~(<<n, m>> \in {ss \in Nat \X Nat : ss[1] < ss[2]})
    BY <1>1 DEF OpToRel
  <2>2. <<n, m>> \in Nat \X Nat /\ <<n, m>>[1] = n /\ <<n, m>>[2] = m
    OBVIOUS
  <2>3. ~(<<n, m>>[1] < <<n, m>>[2])
    BY <2>1, <2>2
  <2> QED
    BY <2>2, <2>3
<1> QED
  BY <1>2

LEMMA Greatest ==
  ASSUME NEW n \in Nat, NEW S \in SUBSET (1..n), S # {}
  PROVE  \E m \in S : \A k \in S : m >= k
<1> DEFINE Gaps == {n - k : k \in S}
<1>1. Gaps \subseteq Nat /\ Gaps # {}
  <2>1. \A k \in S : n - k \in Nat
    OBVIOUS
  <2> QED
    BY <2>1
<1>2. PICK g \in Gaps : \A h \in Gaps : g <= h
  BY <1>1, Least
<1>3. PICK m \in S : g = n - m
  OBVIOUS
<1>4. ASSUME NEW k \in S PROVE m >= k
  <2>1. n - k \in Gaps
    OBVIOUS
  <2>2. g <= n - k
    BY <1>2, <2>1
  <2>3. m \in Int /\ k \in Int
    OBVIOUS
  <2> HIDE DEF Gaps
  <2> QED
    BY <1>3, <2>2, <2>3
<1> QED
  BY <1>4

LEMMA OneOrTwo ==
  ASSUME NEW n \in Nat
  PROVE  /\ n <= 2 /\ n # 0 => n = 1 \/ n = 2
         /\ n = 1 \/ n = 2 => n - 1 \in 0..n /\ n <= 2 /\ n # 0
         /\ n = 0 \/ n = 1 => n <= 2 /\ n # 2
OBVIOUS

LEMMA Induction ==
  ASSUME NEW S, 0 \in S, \A n \in Nat : n \in S => n + 1 \in S
  PROVE  Nat \subseteq S
<1> SUFFICES ASSUME Nat \ S # {} PROVE FALSE
  OBVIOUS
<1>1. PICK m \in Nat \ S : \A n \in Nat \ S : m <= n
  BY Least
<1>2. m # 0 /\ m - 1 \in Nat /\ m - 1 \in S
  BY <1>1
<1> QED
  BY <1>1, <1>2

-----------------------------------------------------------------------------
(* Sequences. *)

LEMMA Extended ==
  ASSUME NEW T, NEW s \in Seq(T), NEW e \in T
  PROVE  /\ Append(s, e) \in Seq(T)
         /\ Len(Append(s, e)) = Len(s) + 1
         /\ DOMAIN Append(s, e) = 1..(Len(s) + 1)
         /\ \A k \in 1..Len(s) : Append(s, e)[k] = s[k]
         /\ Append(s, e)[Len(s) + 1] = e
OBVIOUS

LEMMA Beginning ==
  ASSUME NEW T, NEW s \in Seq(T), NEW j \in 0..Len(s)
  PROVE  /\ SubSeq(s, 1, j) \in Seq(T)
         /\ Len(SubSeq(s, 1, j)) = j
         /\ \A i \in 1..j : SubSeq(s, 1, j)[i] = s[i]
OBVIOUS

LEMMA PrefixItself ==
  ASSUME NEW T, NEW s \in Seq(T)
  PROVE  IsPrefix(s, s)
BY DEF IsPrefix

LEMMA PrefixByElements ==
  ASSUME NEW T, NEW s \in Seq(T), NEW t \in Seq(T)
  PROVE  IsPrefix(s, t) <=>
           Len(s) <= Len(t) /\ \A i \in 1..Len(s) : s[i] = t[i]
BY DEF IsPrefix

LEMMA PrefixTransitive ==
  ASSUME NEW T, NEW s \in Seq(T), NEW t \in Seq(T), NEW u \in Seq(T),
         IsPrefix(s, t), IsPrefix(t, u)
  PROVE  IsPrefix(s, u)
<1>1. Len(s) <= Len(t) /\ \A i \in 1..Len(s) : s[i] = t[i]
  BY PrefixByElements
<1>2. Len(t) <= Len(u) /\ \A i \in 1..Len(t) : t[i] = u[i]
  BY PrefixByElements
<1>3. Len(s) <= Len(u) /\ \A i \in 1..Len(s) : s[i] = u[i]
  BY <1>1, <1>2
<1> QED
  BY <1>3, PrefixByElements

LEMMA PrefixEmpty ==
  ASSUME NEW T, NEW s \in Seq(T)
  PROVE  IsPrefix(<<>>, s)
BY DEF IsPrefix

LEMMA PrefixAppend ==
  ASSUME NEW T, NEW s \in Seq(T), NEW t \in Seq(T), NEW e \in T, IsPrefix(s, t)
  PROVE  IsPrefix(s, Append(t, e))
<1>1. Len(s) <= Len(t) /\ \A i \in 1..Len(s) : s[i] = t[i]
  BY PrefixByElements
<1>2. /\ Append(t, e) \in Seq(T) /\ Len(Append(t, e)) = Len(t) + 1
      /\ \A i \in 1..Len(t) : Append(t, e)[i] = t[i]
  BY Extended
<1>3. Len(s) <= Len(Append(t, e)) /\ \A i \in 1..Len(s) : s[i] = Append(t, e)[i]
  BY <1>1, <1>2
<1> QED
  BY <1>2, <1>3, PrefixByElements

-----------------------------------------------------------------------------
(* The nodes that a path leads to. *)

(* The equation that defines Walk has a solution: one for the first k       *)
(* characters can be extended by one.                                       *)
LEMMA WalkEquation ==
  ASSUME NEW s \in Path
  PROVE  Walk[s] =
           [n \in 0..Len(s) |->
              IF n = 0 THEN IF Absolute(s) THEN <<>> ELSE Cwd
              ELSE IF s[n] = Sep THEN Walk[s][n - 1]
                   ELSE Append(Walk[s][n - 1], s[n])]
<1> DEFINE Next1(f, n) == IF n = 0 THEN IF Absolute(s) THEN <<>> ELSE Cwd
                          ELSE IF s[n] = Sep THEN f[n - 1]
                               ELSE Append(f[n - 1], s[n])
           Solved(k) == \E f : f = [n \in 0..k |-> Next1(f, n)]
<1>1. ASSUME NEW f, NEW g, NEW n \in Nat, n # 0, f[n - 1] = g[n - 1]
      PROVE  Next1(f, n) = Next1(g, n)
  BY <1>1
<1>2. ASSUME NEW f, NEW g PROVE Next1(f, 0) = Next1(g, 0)
  OBVIOUS
<1>3. Walk[s] = CHOOSE f : f = [n \in 0..Len(s) |-> Next1(f, n)]
  BY DEF Walk
<1> HIDE DEF Next1
<1>4. Solved(0)
  <2>1. PICK g : g = [n \in 0..0 |-> Next1(<<>>, n)]
    OBVIOUS
  <2>2. \A n \in 0..0 : n = 0
    OBVIOUS
  <2>3. g = [n \in 0..0 |-> Next1(g, n)]
    BY <2>1, <2>2, <1>2
  <2> QED
    BY <2>3
<1>5. ASSUME NEW k \in Nat, Solved(k) PROVE Solved(k + 1)
  <2>1. PICK f : f = [n \in 0..k |-> Next1(f, n)]
    BY <1>5
  <2>2. PICK g : g = [n \in 0..(k + 1) |-> Next1(f, n)]
    OBVIOUS
  <2>3. \A n \in 0..k : g[n] = f[n]
    BY <2>1, <2>2
  <2>4. ASSUME NEW n \in 0..(k + 1) PROVE Next1(f, n) = Next1(g, n)
    <3>1. CASE n = 0
      BY <3>1, <1>2
    <3>2. CASE n # 0
      <4>1. n - 1 \in 0..k /\ n \in Nat
        BY <3>2
      <4> QED
        BY <3>2, <2>3, <4>1, <1>1
    <3> QED
      BY <3>1, <3>2
  <2>5. g = [n \in 0..(k + 1) |-> Next1(g, n)]
    BY <2>2, <2>4
  <2> QED
    BY <2>5
<1>6. Solved(Len(s))
  <2> DEFINE S == {k \in Nat : Solved(k)}
  <2> HIDE DEF Solved
  <2>1. 0 \in S /\ \A n \in Nat : n \in S => n + 1 \in S
    BY <1>4, <1>5
  <2> HIDE DEF S
  <2>2. Nat \subseteq S
    BY <2>1, Induction
  <2>3. Len(s) \in Nat
    BY DEF Path
  <2> QED
    BY <2>2, <2>3 DEF S
<1>7. Walk[s] = [n \in 0..Len(s) |-> Next1(Walk[s], n)]
  BY <1>3, <1>6
<1> QED
  BY <1>7 DEF Next1

LEMMA WalkStep ==
  ASSUME NEW s \in Path
  PROVE  /\ Len(s) \in Nat
         /\ Walk[s][0] = IF Absolute(s) THEN <<>> ELSE Cwd
         /\ \A n \in 1..Len(s) :
              Walk[s][n] = IF s[n] = Sep THEN Walk[s][n - 1]
                           ELSE Append(Walk[s][n - 1], s[n])
<1>1. Len(s) \in Nat
  BY DEF Path
<1>2. 0 \in 0..Len(s) /\ \A n \in 1..Len(s) : n \in 0..Len(s) /\ n # 0
  BY <1>1
<1> DEFINE W == Walk[s]
<1>3. W = [n \in 0..Len(s) |->
             IF n = 0 THEN IF Absolute(s) THEN <<>> ELSE Cwd
             ELSE IF s[n] = Sep THEN W[n - 1] ELSE Append(W[n - 1], s[n])]
  BY WalkEquation
<1> HIDE DEF W
<1>4. /\ W[0] = IF Absolute(s) THEN <<>> ELSE Cwd
      /\ \A n \in 1..Len(s) :
           W[n] = IF s[n] = Sep THEN W[n - 1] ELSE Append(W[n - 1], s[n])
  BY <1>2, <1>3
<1> QED
  BY <1>1, <1>4 DEF W

LEMMA WalkType ==
  ASSUME NEW s \in Path
  PROVE  \A n \in 0..Len(s) : Walk[s][n] \in Seq(Names)
<1> DEFINE S == {n \in Nat : n <= Len(s) => Walk[s][n] \in Seq(Names)}
<1>1. 0 \in S
  <2>1. <<>> \in Seq(Names) /\ Cwd \in Seq(Names)
    BY MakeDirectoryAssumption
  <2> QED
    BY <2>1, WalkStep
<1>2. ASSUME NEW n \in Nat, n \in S PROVE n + 1 \in S
  <2> SUFFICES ASSUME n + 1 <= Len(s)
               PROVE  Walk[s][n + 1] \in Seq(Names)
    OBVIOUS
  <2>1. n + 1 \in 1..Len(s) /\ (n + 1) - 1 = n /\ Walk[s][n] \in Seq(Names)
    BY <1>2, WalkStep
  <2>2. Walk[s][n + 1] = IF s[n + 1] = Sep THEN Walk[s][n]
                         ELSE Append(Walk[s][n], s[n + 1])
    BY <2>1, WalkStep
  <2>3. s[n + 1] \in Names \union {Sep}
    BY <2>1 DEF Path
  <2>4. CASE s[n + 1] = Sep
    BY <2>1, <2>2, <2>4
  <2>5. CASE s[n + 1] # Sep
    <3>1. s[n + 1] \in Names
      BY <2>3, <2>5
    <3>2. Append(Walk[s][n], s[n + 1]) \in Seq(Names)
      BY <2>1, <3>1, Extended
    <3> QED
      BY <2>2, <2>5, <3>2
  <2> QED
    BY <2>4, <2>5
<1> HIDE DEF S
<1>3. Nat \subseteq S
  BY <1>1, <1>2, Induction
<1> QED
  BY <1>3, WalkStep DEF S

(* Going on along a path never leads out of where it led before. *)
LEMMA WalkPrefix ==
  ASSUME NEW s \in Path, NEW m \in 0..Len(s)
  PROVE  \A n \in m..Len(s) : IsPrefix(Walk[s][m], Walk[s][n])
<1>0. Len(s) \in Nat
  BY WalkStep
<1>1. \A n \in 0..Len(s) : Walk[s][n] \in Seq(Names)
  BY WalkType
<1> DEFINE S == {d \in Nat : m + d <= Len(s) => IsPrefix(Walk[s][m], Walk[s][m + d])}
<1>2. 0 \in S
  <2>1. m + 0 = m
    BY <1>0
  <2>2. IsPrefix(Walk[s][m], Walk[s][m])
    BY <1>1, PrefixItself
  <2> QED
    BY <2>1, <2>2
<1>3. ASSUME NEW d \in Nat, d \in S PROVE d + 1 \in S
  <2> SUFFICES ASSUME m + (d + 1) <= Len(s)
               PROVE  IsPrefix(Walk[s][m], Walk[s][m + (d + 1)])
    OBVIOUS
  <2> DEFINE n == m + (d + 1)
  <2>1. n \in 1..Len(s) /\ n - 1 = m + d /\ n - 1 \in 0..Len(s) /\ m + d <= Len(s)
    BY <1>0
  <2>2. IsPrefix(Walk[s][m], Walk[s][n - 1])
    BY <1>3, <2>1
  <2> HIDE DEF n
  <2>3. Walk[s][n] = IF s[n] = Sep THEN Walk[s][n - 1]
                     ELSE Append(Walk[s][n - 1], s[n])
    BY <2>1, WalkStep
  <2>4. Walk[s][m] \in Seq(Names) /\ Walk[s][n - 1] \in Seq(Names)
    BY <1>1, <2>1
  <2>5. CASE s[n] = Sep
    BY <2>2, <2>3, <2>5 DEF n
  <2>6. CASE s[n] # Sep
    <3>1. s[n] \in Names
      BY <2>1, <2>6 DEF Path
    <3>2. IsPrefix(Walk[s][m], Append(Walk[s][n - 1], s[n]))
      BY <2>2, <2>4, <3>1, PrefixAppend
    <3> QED
      BY <2>3, <2>6, <3>2 DEF n
  <2> QED
    BY <2>5, <2>6
<1> HIDE DEF S
<1>4. Nat \subseteq S
  BY <1>2, <1>3, Induction
<1>5. ASSUME NEW n \in m..Len(s) PROVE IsPrefix(Walk[s][m], Walk[s][n])
  <2>1. n - m \in S /\ m + (n - m) = n /\ n <= Len(s)
    BY <1>0, <1>4
  <2> QED
    BY <2>1 DEF S
<1> QED
  BY <1>5

(* Paths with the same beginning lead the same way as long as it lasts. *)
LEMMA WalkSame ==
  ASSUME NEW s \in Path, NEW t \in Path, NEW k \in Nat, k <= Len(s), k <= Len(t),
         \A i \in 1..k : s[i] = t[i],
         Absolute(s) <=> Absolute(t)
  PROVE  \A n \in 0..k : Walk[s][n] = Walk[t][n]
<1> DEFINE S == {n \in Nat : n <= k => Walk[s][n] = Walk[t][n]}
<1>1. 0 \in S
  BY WalkStep
<1>2. ASSUME NEW n \in Nat, n \in S PROVE n + 1 \in S
  <2> SUFFICES ASSUME n + 1 <= k PROVE Walk[s][n + 1] = Walk[t][n + 1]
    OBVIOUS
  <2>1. /\ n + 1 \in 1..Len(s) /\ n + 1 \in 1..Len(t) /\ n + 1 \in 1..k
        /\ (n + 1) - 1 = n /\ Walk[s][n] = Walk[t][n]
    BY <1>2, WalkStep
  <2>2. Walk[s][n + 1] = IF s[n + 1] = Sep THEN Walk[s][n]
                         ELSE Append(Walk[s][n], s[n + 1])
    BY <2>1, WalkStep
  <2>3. Walk[t][n + 1] = IF t[n + 1] = Sep THEN Walk[t][n]
                         ELSE Append(Walk[t][n], t[n + 1])
    BY <2>1, WalkStep
  <2>4. s[n + 1] = t[n + 1]
    BY <2>1
  <2> QED
    BY <2>1, <2>2, <2>3, <2>4
<1> HIDE DEF S
<1>3. Nat \subseteq S
  BY <1>1, <1>2, Induction
<1> QED
  BY <1>3 DEF S

LEMMA NodeType ==
  ASSUME NEW s \in Path
  PROVE  Node(s) \in Seq(Names)
BY WalkStep, WalkType DEF Node

(* The beginning of a path names a node on the way. *)
LEMMA NodeOfBeginning ==
  ASSUME NEW s \in Path, NEW j \in 1..Len(s)
  PROVE  /\ SubSeq(s, 1, j) \in Path
         /\ Node(SubSeq(s, 1, j)) = Walk[s][j]
         /\ IsPrefix(Node(SubSeq(s, 1, j)), Node(s))
<1> DEFINE t == SubSeq(s, 1, j)
<1>0. Len(s) \in Nat /\ j \in 0..Len(s) /\ j \in Nat
  BY WalkStep
<1>1. t \in Path /\ Len(t) = j /\ \A i \in 1..j : t[i] = s[i]
  BY <1>0, Beginning DEF Path
<1> HIDE DEF t
<1>2. Absolute(t) <=> Absolute(s)
  <2>1. t # <<>> /\ s # <<>> /\ t[1] = s[1]
    BY <1>0, <1>1 DEF Path
  <2> QED
    BY <2>1 DEF Absolute
<1>3. Walk[t][j] = Walk[s][j]
  BY <1>0, <1>1, <1>2, WalkSame
<1>4. IsPrefix(Walk[s][j], Walk[s][Len(s)])
  BY <1>0, WalkPrefix
<1> QED
  BY <1>1, <1>3, <1>4 DEF Node, t

(* A separator at the end of a path changes nothing. *)
LEMMA NodeOfAppended ==
  ASSUME NEW s \in Path, s # <<>>
  PROVE  Append(s, Sep) \in Path /\ Node(Append(s, Sep)) = Node(s)
<1> DEFINE t == Append(s, Sep)
<1>0. Len(s) \in Nat /\ Len(s) > 0
  BY DEF Path
<1>1. /\ t \in Path /\ Len(t) = Len(s) + 1
      /\ \A i \in 1..Len(s) : t[i] = s[i]
      /\ t[Len(s) + 1] = Sep
  BY Extended DEF Path
<1> HIDE DEF t
<1>2. Absolute(t) <=> Absolute(s)
  <2>1. t # <<>> /\ t[1] = s[1]
    BY <1>0, <1>1 DEF Path
  <2> QED
    BY <2>1 DEF Absolute
<1>3. Walk[t][Len(s)] = Walk[s][Len(s)]
  BY <1>0, <1>1, <1>2, WalkSame
<1>4. Walk[t][Len(s) + 1] = Walk[t][Len(s)]
  <2>1. Len(s) + 1 \in 1..Len(t) /\ (Len(s) + 1) - 1 = Len(s)
    BY <1>0, <1>1
  <2> QED
    BY <1>1, <2>1, WalkStep
<1> QED
  BY <1>1, <1>3, <1>4 DEF Node, t

LEMMA NodeOfRoot == <<Sep>> \in Path /\ Node(<<Sep>>) = <<>>
<1> DEFINE t == <<Sep>>
<1>1. t \in Path /\ Len(t) = 1 /\ t[1] = Sep /\ t # <<>>
  BY DEF Path
<1> HIDE DEF t
<1>2. Walk[t][0] = <<>>
  BY <1>1, WalkStep DEF Absolute
<1>3. 1 \in 1..Len(t) /\ 1 - 1 = 0
  BY <1>1
<1>4. Walk[t][1] = Walk[t][0]
  BY <1>1, <1>3, WalkStep
<1> QED
  BY <1>1, <1>2, <1>4 DEF Node, t

-----------------------------------------------------------------------------
(* Files. *)

LEMMA LastSepRange ==
  ASSUME NEW s \in Path, NEW n \in 0..Len(s)
  PROVE  /\ LastSep[s][n] \in 0..n
         /\ LastSep[s][n] # 0 => s[LastSep[s][n]] = Sep
         /\ \A i \in (LastSep[s][n] + 1)..n : s[i] # Sep
<1> DEFINE S == {i \in 1..n : s[i] = Sep}
           Is(k) == /\ k # 0 => s[k] = Sep
                    /\ \A i \in (k + 1)..n : s[i] # Sep
<1>0. n \in Nat
  BY WalkStep
<1>1. LastSep[s][n] = CHOOSE k \in 0..n : Is(k)
  BY <1>0 DEF LastSep
<1>2. \E k \in 0..n : Is(k)
  <2>1. CASE S = {}
    <3>1. 0 \in 0..n /\ Is(0)
      BY <1>0, <2>1
    <3> QED
      BY <3>1
  <2>2. CASE S # {}
    <3>1. PICK m \in S : \A k \in S : m >= k
      <4>1. S \in SUBSET (1..n)
        OBVIOUS
      <4> HIDE DEF S
      <4> QED
        BY <1>0, <2>2, <4>1, Greatest
    <3>2. m \in 1..n /\ s[m] = Sep /\ \A k \in 1..n : s[k] = Sep => m >= k
      BY <3>1
    <3>3. m \in 0..n /\ Is(m)
      BY <1>0, <3>2
    <3> QED
      BY <3>3
  <2> QED
    BY <2>1, <2>2
<1> HIDE DEF Is
<1>3. LastSep[s][n] \in 0..n /\ Is(LastSep[s][n])
  BY <1>1, <1>2
<1> QED
  BY <1>3 DEF Is

LEMMA AppendLeads ==
  ASSUME NEW u \in Path, NEW t \in Seq(Names), Leads(u, t)
  PROVE  Append(u, Sep) \in Path /\ Leads(Append(u, Sep), t)
<1>1. CASE u = <<>>
  <2>1. Append(u, Sep) = <<Sep>>
    BY <1>1
  <2> QED
    BY <2>1, NodeOfRoot, PrefixEmpty DEF Leads
<1>2. CASE u # <<>>
  BY <1>2, NodeOfAppended DEF Leads
<1> QED
  BY <1>1, <1>2

LEMMA UptoLeads ==
  ASSUME NEW s \in Path, NEW t \in Seq(Names), Leads(s, t), NEW k \in 0..Len(s)
  PROVE  Upto(s, k) \in Path /\ Leads(Upto(s, k), t)
<1>0. Len(s) \in Nat
  BY WalkStep
<1>1. CASE k = 0
  BY <1>1 DEF Upto
<1>2. CASE k = 1
  <2>1. Upto(s, k) = SubSeq(s, 1, 0)
    BY <1>2 DEF Upto
  <2>2. SubSeq(s, 1, 0) = <<>> /\ <<>> \in Path
    BY DEF Path
  <2> QED
    BY <2>1, <2>2 DEF Leads
<1>3. CASE k > 1
  <2>1. Upto(s, k) = SubSeq(s, 1, k - 1) /\ k - 1 \in 1..Len(s)
    BY <1>0, <1>3 DEF Upto
  <2>2. s # <<>>
    BY <1>0, <1>3 DEF Path
  <2>3. /\ SubSeq(s, 1, k - 1) \in Path
        /\ IsPrefix(Node(SubSeq(s, 1, k - 1)), Node(s))
    BY <2>1, NodeOfBeginning
  <2>4. IsPrefix(Node(SubSeq(s, 1, k - 1)), t)
    BY <2>2, <2>3, NodeType, PrefixTransitive DEF Leads
  <2> QED
    BY <2>1, <2>3, <2>4 DEF Leads
<1> QED
  BY <1>0, <1>1, <1>2, <1>3

(* One separator less at the end changes nothing either. *)
LEMMA NodeOfPruned ==
  ASSUME NEW s \in Path, Len(s) > 1, Last(s) = Sep
  PROVE  Front(s) \in Path /\ Front(s) # <<>> /\ Node(Front(s)) = Node(s)
<1>1. Len(s) \in Nat /\ Len(s) - 1 \in 1..Len(s) /\ Len(s) \in 1..Len(s)
  BY WalkStep
<1>2. Front(s) = SubSeq(s, 1, Len(s) - 1)
  BY DEF Front
<1>3. Front(s) \in Path /\ Node(Front(s)) = Walk[s][Len(s) - 1]
  BY <1>1, <1>2, NodeOfBeginning
<1>4. Walk[s][Len(s)] = Walk[s][Len(s) - 1]
  BY <1>1, WalkStep DEF Last
<1>5. Len(Front(s)) = Len(s) - 1
  BY <1>1, <1>2, Beginning DEF Path
<1> QED
  BY <1>1, <1>3, <1>4, <1>5 DEF Node

LEMMA NewFileLeads ==
  ASSUME NEW s \in Path, NEW t \in Seq(Names), Leads(s, t)
  PROVE  /\ NewFile(s) \in Files /\ FileLeads(NewFile(s), t)
         /\ NewFile(s).path = s \/ (s # <<>> /\ Last(s) = Sep)
         /\ Node(NewFile(s).path) = Node(s)
<1>0. Len(s) \in Nat
  BY WalkStep
<1>1. CASE Stat(s) = "dir"
  <2>1. s # <<>>
    BY <1>1 DEF Stat
  <2> DEFINE pruned == IF Len(s) > 1 /\ Last(s) = Sep THEN Front(s) ELSE s
  <2>2. /\ pruned \in Path /\ pruned # <<>> /\ Node(pruned) = Node(s)
        /\ pruned = s \/ Last(s) = Sep
    BY <2>1, NodeOfPruned
  <2>3. NewFile(s) = [path |-> pruned, dir |-> Append(pruned, Sep)]
    BY <1>1 DEF NewFile
  <2> HIDE DEF pruned
  <2>4. Leads(pruned, t)
    BY <2>1, <2>2 DEF Leads
  <2>5. Append(pruned, Sep) \in Path /\ Leads(Append(pruned, Sep), t)
    BY <2>2, <2>4, AppendLeads
  <2> DEFINE d == Append(pruned, Sep)
  <2> HIDE DEF d
  <2>6. NewFile(s) = [path |-> pruned, dir |-> d] /\ d \in Path /\ Leads(d, t)
    BY <2>3, <2>5 DEF d
  <2> QED
    BY <2>1, <2>2, <2>4, <2>6 DEF Files, FileLeads
<1>2. CASE Stat(s) # "dir"
  <2> DEFINE k == LastSep[s][Len(s)]
             d == Append(Upto(s, k), Sep)
  <2>1. k \in 0..Len(s)
    <3>1. Len(s) \in 0..Len(s)
      BY <1>0
    <3> QED
      BY <3>1, LastSepRange
  <2>2. NewFile(s) = [path |-> s, dir |-> d]
    BY <1>2 DEF NewFile
  <2> HIDE DEF k
  <2>3. d \in Path /\ Leads(d, t)
    BY <2>1, UptoLeads, AppendLeads
  <2> HIDE DEF d
  <2> QED
    BY <2>2, <2>3 DEF Files, FileLeads
<1> QED
  BY <1>1, <1>2

LEMMA ParentLeads ==
  ASSUME NEW file \in Files, NEW t \in Seq(Names), FileLeads(file, t)
  PROVE  ParentDir(file) \in Files /\ FileLeads(ParentDir(file), t)
<1> DEFINE s == file.path
           n == IF Stat(s) = "none" /\ ~(Len(s) < 2) THEN Len(s) - 1 ELSE Len(s)
           up == IF Stat(s) \in {"none", "dir"} THEN Upto(s, LastSep[s][n]) ELSE file.dir
<1>1. s \in Path /\ Leads(s, t) /\ file.dir \in Path /\ Leads(file.dir, t)
  BY DEF Files, FileLeads
<1>2. Len(s) \in Nat /\ n \in 0..Len(s)
  BY <1>1, WalkStep
<1>3. LastSep[s][n] \in 0..Len(s)
  <2> HIDE DEF s, n
  <2>1. LastSep[s][n] \in 0..n
    BY <1>1, <1>2, LastSepRange
  <2> QED
    BY <1>2, <2>1
<1>4. ParentDir(file) = NewFile(up)
  BY DEF ParentDir
<1>5. up \in Path /\ Leads(up, t)
  BY <1>1, <1>3, UptoLeads
<1> HIDE DEF up
<1> QED
  BY <1>4, <1>5, NewFileLeads

-----------------------------------------------------------------------------
(* The invariant.  First the steps that leave the tree alone. *)

LEMMA TargetType ==
  ASSUME Types, NEW p \in Procs
  PROVE  call[p].path \in Path /\ target(p) \in Seq(Names)
<1>1. call[p].path \in Targets \union Removals
  BY DEF Types, Calls
<1>2. call[p].path \in Path
  BY <1>1, MakeDirectoryAssumption DEF Path
<1> QED
  BY <1>2, NodeType DEF target

(* The innermost activation, and those below it. *)
LEMMA Innermost ==
  ASSUME IInv, NEW p \in Procs, Running(p)
  PROVE  /\ stack[p] \in Seq(Frames) /\ (Len(stack[p]) = 1 \/ Len(stack[p]) = 2)
         /\ frame(p) = stack[p][Len(stack[p])]
         /\ frame(p) \in Frames /\ ActivationInv(p, frame(p))
         /\ Front(stack[p]) \in Seq(Frames)
         /\ Len(Front(stack[p])) = Len(stack[p]) - 1
         /\ \A i \in 1..(Len(stack[p]) - 1) : Front(stack[p])[i] = stack[p][i]
         /\ FirstInv(p, stack[p][1]) /\ result[p] = "running"
<1>1. stack[p] \in Seq(Frames) /\ stack[p] # <<>> /\ StackInv(p)
  BY DEF IInv, Types, Running
<1>2. Len(stack[p]) = 1 \/ Len(stack[p]) = 2
  <2>1. Len(stack[p]) \in Nat /\ Len(stack[p]) # 0
    BY <1>1
  <2>2. Len(stack[p]) <= 2
    BY <1>1 DEF StackInv
  <2> QED
    BY <2>1, <2>2, OneOrTwo
<1>3. frame(p) = stack[p][Len(stack[p])]
  BY DEF frame, Last
<1>4. Len(stack[p]) \in DOMAIN stack[p]
  BY <1>1, <1>2
<1>5. frame(p) \in Frames /\ ActivationInv(p, frame(p))
  BY <1>1, <1>3, <1>4 DEF StackInv
<1>6. Front(stack[p]) = SubSeq(stack[p], 1, Len(stack[p]) - 1)
  BY DEF Front
<1>7. Len(stack[p]) - 1 \in 0..Len(stack[p])
  <2>1. Len(stack[p]) \in Nat
    BY <1>1
  <2> QED
    BY <1>2, <2>1, OneOrTwo
<1>8. /\ Front(stack[p]) \in Seq(Frames)
      /\ Len(Front(stack[p])) = Len(stack[p]) - 1
      /\ \A i \in 1..(Len(stack[p]) - 1) : Front(stack[p])[i] = stack[p][i]
  BY <1>1, <1>6, <1>7, Beginning
<1> QED
  BY <1>1, <1>2, <1>3, <1>5, <1>8 DEF StackInv

LEMMA LocalStep ==
  ASSUME IInv, NEW p \in Procs, UNCHANGED <<fs, history>>,
         NEW st \in Seq(Frames), NEW r \in {"running", "returned", "thrown"},
         stack' = [stack EXCEPT ![p] = st], result' = [result EXCEPT ![p] = r],
         r = "running" <=> st # <<>>,
         Len(st) <= 2,
         \A i \in DOMAIN st : ActivationInv(p, st[i]),
         st # <<>> => FirstInv(p, st[1]),
         Len(st) = 2 => st[1].pc = "descend" /\ ~st[2].createParents,
         p \in Makers /\ r = "returned" =>
           target(p) \in DOMAIN fs /\ fs[target(p)] = "dir",
         p \notin Makers => r # "returned",
         p \notin Makers /\ r = "thrown" =>
           \/ Last(call[p].path) = Sep
           \/ target(p) \notin DOMAIN before \/ before[target(p)] = "dir"
           \/ target(p) \in DOMAIN remover,
         \A node \in DOMAIN remover : remover[node] # p
  PROVE  IInv'
<1>0. /\ fs' = fs /\ call' = call /\ before' = before /\ maker' = maker
      /\ remover' = remover /\ found' = found /\ raced' = raced
  BY DEF history, others
<1>1. stack'[p] = st /\ result'[p] = r
  BY DEF IInv, Types
<1>2. \A q \in Procs : q # p => stack'[q] = stack[q] /\ result'[q] = result[q]
  BY DEF IInv, Types
<1>3. Types'
  BY <1>0 DEF IInv, Types, Tree
<1>4. TreeInv' /\ OnlyOnTheWay'
  BY <1>0 DEF IInv, TreeInv, OnlyOnTheWay, target
<1>5. ASSUME NEW q, NEW f
      PROVE  /\ ActivationInv(q, f)' <=> ActivationInv(q, f)
             /\ FirstInv(q, f)' <=> FirstInv(q, f)
  BY <1>0 DEF ActivationInv, FirstInv, target
<1>6. ASSUME NEW q \in Procs PROVE StackInv(q)' /\ EndInv(q)'
  <2>1. CASE q = p
    <3>1. StackInv(p)'
      BY <1>1, <1>5 DEF StackInv
    <3>2. EndInv(p)'
      BY <1>0, <1>1 DEF EndInv, target, Makers
    <3> QED
      BY <2>1, <3>1, <3>2
  <2>2. CASE q # p
    <3>1. StackInv(q) /\ EndInv(q)
      BY DEF IInv
    <3>2. stack'[q] = stack[q] /\ result'[q] = result[q]
      BY <1>2, <2>2
    <3>3. StackInv(q)'
      BY <1>5, <3>1, <3>2 DEF StackInv
    <3>4. EndInv(q)'
      BY <1>0, <3>1, <3>2 DEF EndInv, target, Makers
    <3> QED
      BY <3>3, <3>4
  <2> QED
    BY <2>1, <2>2
<1> QED
  BY <1>3, <1>4, <1>6 DEF IInv

(* The innermost activation goes on, with the same file. *)
LEMMA ReplaceStep ==
  ASSUME IInv, NEW p \in Procs, Running(p), UNCHANGED <<fs, result, history>>,
         NEW f \in Frames, Replace(p, f), ActivationInv(p, f),
         f.file = frame(p).file, f.createParents = frame(p).createParents,
         Len(stack[p]) = 1 \/ frame(p).pc # "descend"
  PROVE  IInv'
<1> DEFINE n == Len(stack[p])
           st == Append(Front(stack[p]), f)
<1>1. /\ stack[p] \in Seq(Frames) /\ (n = 1 \/ n = 2) /\ frame(p) = stack[p][n]
      /\ Front(stack[p]) \in Seq(Frames) /\ Len(Front(stack[p])) = n - 1
      /\ \A i \in 1..(n - 1) : Front(stack[p])[i] = stack[p][i]
      /\ FirstInv(p, stack[p][1]) /\ result[p] = "running"
  BY Innermost
<1>2. /\ st \in Seq(Frames) /\ Len(st) = (n - 1) + 1
      /\ DOMAIN st = 1..((n - 1) + 1)
      /\ \A i \in 1..(n - 1) : st[i] = Front(stack[p])[i]
      /\ st[(n - 1) + 1] = f
  BY <1>1, Extended
<1>3. stack' = [stack EXCEPT ![p] = st]
  BY DEF Replace
<1>4. result' = [result EXCEPT ![p] = "running"]
  BY <1>1 DEF IInv, Types
<1>5. StackInv(p) /\ EndInv(p)
  BY DEF IInv
<1> HIDE DEF st, n
<1>6. Len(st) = n /\ st[n] = f /\ \A i \in 1..(n - 1) : st[i] = stack[p][i]
  BY <1>1, <1>2
<1>7. ASSUME NEW i \in DOMAIN st PROVE ActivationInv(p, st[i])
  <2>1. CASE i = n
    BY <1>6, <2>1
  <2>2. CASE i \in 1..(n - 1)
    <3>1. i \in DOMAIN stack[p]
      BY <1>1, <2>2 DEF n
    <3> QED
      BY <1>5, <1>6, <2>2, <3>1 DEF StackInv
  <2> QED
    BY <1>1, <1>2, <2>1, <2>2
<1>8. FirstInv(p, st[1])
  <2>1. CASE n = 1
    BY <1>1, <1>6, <2>1 DEF FirstInv
  <2>2. CASE n = 2
    BY <1>1, <1>6, <2>2
  <2> QED
    BY <1>1, <2>1, <2>2
<1>9. Len(st) = 2 => st[1].pc = "descend" /\ ~st[2].createParents
  <2> SUFFICES ASSUME n = 2 PROVE st[1].pc = "descend" /\ ~st[2].createParents
    BY <1>6
  <2>1. stack[p][1].pc = "descend" /\ ~stack[p][2].createParents
    BY <1>5 DEF StackInv, n
  <2>2. st[1] = stack[p][1] /\ st[2] = f /\ frame(p) = stack[p][2]
    BY <1>1, <1>6
  <2> QED
    BY <2>1, <2>2
<1>10. Len(st) <= 2 /\ st # <<>>
  BY <1>1, <1>6
<1>11. \A node \in DOMAIN remover : remover[node] # p
  BY <1>1, <1>5 DEF EndInv
<1> QED
  BY <1>2, <1>3, <1>4, <1>7, <1>8, <1>9, <1>10, <1>11, LocalStep

LEMMA GotoStep ==
  ASSUME IInv, NEW p \in Procs, Running(p), UNCHANGED <<fs, result, history>>,
         NEW label \in Labels, Goto(p, label),
         label \in {"rm", "unlink"} <=> frame(p).pc \in {"rm", "unlink"},
         label \in {"climb", "up", "descend"} => frame(p).createParents,
         label # "chmod",
         Len(stack[p]) = 1 \/ frame(p).pc # "descend"
  PROVE  IInv'
<1>1. frame(p) \in Frames /\ ActivationInv(p, frame(p))
  BY Innermost
<1>2. PICK f : f = [frame(p) EXCEPT !.pc = label]
  OBVIOUS
<1>3. /\ f \in Frames /\ f.pc = label /\ f.file = frame(p).file
      /\ f.createParents = frame(p).createParents
      /\ f.parentDir = frame(p).parentDir /\ f.ancestors = frame(p).ancestors
  BY <1>1, <1>2 DEF Frames
<1>4. ActivationInv(p, f)
  BY <1>1, <1>3 DEF ActivationInv
<1>5. Replace(p, f)
  BY <1>2 DEF Goto
<1> QED
  BY <1>3, <1>4, <1>5, ReplaceStep

(* mkdir returns, its directory being there. *)
LEMMA ReturnStep ==
  ASSUME IInv, NEW p \in Makers, p \in Procs, Running(p), Return(p),
         UNCHANGED <<fs, history>>, frame(p).file.path # <<>>,
         Node(frame(p).file.path) \in DOMAIN fs, fs[Node(frame(p).file.path)] = "dir"
  PROVE  IInv'
<1> DEFINE n == Len(stack[p])
           st == Front(stack[p])
           r == IF n = 1 THEN "returned" ELSE "running"
<1>1. /\ stack[p] \in Seq(Frames) /\ (n = 1 \/ n = 2) /\ frame(p) = stack[p][n]
      /\ st \in Seq(Frames) /\ Len(st) = n - 1
      /\ \A i \in 1..(n - 1) : st[i] = stack[p][i]
      /\ FirstInv(p, stack[p][1]) /\ result[p] = "running"
  BY Innermost
<1>2. stack' = [stack EXCEPT ![p] = st]
  BY DEF Return
<1>3. result' = [result EXCEPT ![p] = r]
  BY <1>1 DEF Return, IInv, Types
<1>4. StackInv(p) /\ EndInv(p)
  BY DEF IInv
<1> HIDE DEF st, n
<1>5. r \in {"running", "returned", "thrown"}
  OBVIOUS
<1>6. (Len(st) = 0 \/ Len(st) = 1) /\ (r = "running" <=> st # <<>>)
  BY <1>1
<1>7. ASSUME NEW i \in DOMAIN st PROVE ActivationInv(p, st[i])
  <2>1. i \in 1..(n - 1) /\ i \in DOMAIN stack[p]
    BY <1>1 DEF n
  <2> QED
    BY <1>1, <1>4, <2>1 DEF StackInv
<1>8. st # <<>> => FirstInv(p, st[1])
  BY <1>1, <1>6
<1>9. r = "returned" => target(p) \in DOMAIN fs /\ fs[target(p)] = "dir"
  <2> SUFFICES ASSUME n = 1 PROVE target(p) \in DOMAIN fs /\ fs[target(p)] = "dir"
    OBVIOUS
  <2>1. frame(p) = stack[p][1]
    BY <1>1
  <2>2. Node(frame(p).file.path) = target(p)
    BY <1>1, <2>1 DEF FirstInv
  <2> QED
    BY <2>2
<1>10. \A node \in DOMAIN remover : remover[node] # p
  BY <1>1, <1>4 DEF EndInv
<1>11. Len(st) <= 2 /\ Len(st) # 2
  <2>1. Len(st) \in Nat
    BY <1>1
  <2> QED
    BY <1>6, <2>1, OneOrTwo
<1> HIDE DEF r
<1> QED
  BY <1>1, <1>2, <1>3, <1>5, <1>6, <1>7, <1>8, <1>9, <1>10, <1>11, LocalStep

LEMMA ThrowStep ==
  ASSUME IInv, NEW p \in Procs, Running(p), Throw(p), UNCHANGED <<fs, history>>,
         p \notin Makers =>
           \/ Last(call[p].path) = Sep
           \/ target(p) \notin DOMAIN before \/ before[target(p)] = "dir"
           \/ target(p) \in DOMAIN remover
  PROVE  IInv'
<1>1. stack' = [stack EXCEPT ![p] = <<>>] /\ result' = [result EXCEPT ![p] = "thrown"]
  BY DEF Throw
<1>2. result[p] = "running" /\ EndInv(p)
  BY Innermost DEF IInv
<1>3. \A node \in DOMAIN remover : remover[node] # p
  BY <1>2 DEF EndInv
<1>4. PICK st \in Seq(Frames) : st = <<>>
  <2>1. <<>> \in Seq(Frames)
    OBVIOUS
  <2> QED
    BY <2>1
<1>5. Len(st) <= 2 /\ Len(st) # 2 /\ DOMAIN st = {}
  <2>1. Len(st) = 0 /\ DOMAIN st = {}
    BY <1>4
  <2> QED
    BY <2>1, OneOrTwo
<1>6. PICK r \in {"running", "returned", "thrown"} : r = "thrown"
  OBVIOUS
<1>7. stack' = [stack EXCEPT ![p] = st] /\ result' = [result EXCEPT ![p] = r]
  BY <1>1, <1>4, <1>6
<1> QED
  BY <1>3, <1>4, <1>5, <1>6, <1>7, LocalStep

LEMMA StatFacts ==
  ASSUME Tree(fs), NEW path
  PROVE  /\ Stat(path) \in {"dir", "file", "none"}
         /\ Stat(path) \in {"dir", "file"} =>
              path # <<>> /\ Node(path) \in DOMAIN fs /\ fs[Node(path)] = Stat(path)
         /\ Stat(path) = "none" /\ path # <<>> =>
              \/ Node(path) \notin DOMAIN fs
              \/ fs[Node(path)] = "file" /\ Last(path) = Sep
<1> DEFINE node == Node(path)
<1>1. node \in DOMAIN fs => fs[node] \in {"dir", "file"}
  BY DEF Tree, Kinds
<1>2. Stat(path) = IF /\ path # <<>> /\ node \in DOMAIN fs
                      /\ Last(path) = Sep => fs[node] = "dir"
                   THEN fs[node] ELSE "none"
  BY DEF Stat
<1> HIDE DEF node
<1>3. /\ Stat(path) \in {"dir", "file", "none"}
      /\ Stat(path) \in {"dir", "file"} =>
           path # <<>> /\ node \in DOMAIN fs /\ fs[node] = Stat(path)
      /\ Stat(path) = "none" /\ path # <<>> =>
           node \notin DOMAIN fs \/ (fs[node] = "file" /\ Last(path) = Sep)
  BY <1>1, <1>2
<1> QED
  BY <1>3 DEF node

LEMMA MakersAt ==
  ASSUME IInv, NEW p \in Procs, Running(p)
  PROVE  p \in Makers <=> frame(p).pc \notin {"rm", "unlink"}
<1>1. call[p].op \in {"mkdir", "rm"}
  BY DEF IInv, Types, Calls
<1>2. frame(p).pc \in {"rm", "unlink"} <=> call[p].op = "rm"
  BY Innermost DEF ActivationInv
<1> QED
  BY <1>1, <1>2 DEF Makers

(* Only the activation of the call itself climbs. *)
LEMMA ClimbsFirst ==
  ASSUME IInv, NEW p \in Procs, Running(p), frame(p).pc \in {"climb", "up", "descend"}
  PROVE  Len(stack[p]) = 1 /\ frame(p) = stack[p][1] /\ frame(p).createParents
<1>1. frame(p).createParents
  BY Innermost DEF ActivationInv
<1>2. Len(stack[p]) # 2
  <2> SUFFICES ASSUME Len(stack[p]) = 2 PROVE FALSE
    OBVIOUS
  <2>1. ~stack[p][2].createParents
    BY DEF IInv, StackInv
  <2>2. frame(p) = stack[p][2]
    BY Innermost
  <2> QED
    BY <1>1, <2>1, <2>2
<1> QED
  BY <1>1, <1>2, Innermost

LEMMA CheckSelfStep ==
  ASSUME IInv, NEW p \in Procs, CheckSelf(p)
  PROVE  IInv'
<1> DEFINE path == frame(p).file.path
<1>1. Running(p) /\ frame(p).pc = "exists" /\ UNCHANGED <<fs, history>>
  BY DEF CheckSelf, At
<1>2. p \in Makers
  BY <1>1, MakersAt
<1>3. \/ Stat(path) = "dir" /\ Return(p)
      \/ Stat(path) = "file" /\ Throw(p)
      \/ Stat(path) = "none" /\ Goto(p, "parent") /\ UNCHANGED result
  BY DEF CheckSelf
<1>4. CASE Stat(path) = "dir" /\ Return(p)
  <2>1. path # <<>> /\ Node(path) \in DOMAIN fs /\ fs[Node(path)] = "dir"
    BY <1>4, StatFacts DEF IInv, Types
  <2> QED
    BY <1>1, <1>2, <1>4, <2>1, ReturnStep
<1>5. CASE Stat(path) = "file" /\ Throw(p)
  BY <1>1, <1>2, <1>5, ThrowStep
<1>6. CASE Stat(path) = "none" /\ Goto(p, "parent") /\ UNCHANGED result
  BY <1>1, <1>6, GotoStep DEF Labels
<1> QED
  BY <1>3, <1>4, <1>5, <1>6

LEMMA FindParentStep ==
  ASSUME IInv, NEW p \in Procs, FindParent(p)
  PROVE  IInv'
<1>1. Running(p) /\ frame(p).pc = "parent" /\ UNCHANGED <<fs, result, history>>
  BY DEF FindParent, At
<1>2. frame(p) \in Frames /\ ActivationInv(p, frame(p))
  BY <1>1, Innermost
<1> DEFINE parent == ParentDir(frame(p).file)
           label == IF frame(p).createParents THEN "climb" ELSE "check"
<1>3. parent \in Files /\ FileLeads(parent, target(p))
  BY <1>2, ParentLeads, TargetType DEF IInv, Frames, ActivationInv
<1>4. Replace(p, [frame(p) EXCEPT !.parentDir = parent, !.pc = label])
  BY DEF FindParent
<1>5. PICK f : f = [frame(p) EXCEPT !.parentDir = parent, !.pc = label]
  OBVIOUS
<1> HIDE DEF parent
<1>6. /\ f = [file |-> frame(p).file, createParents |-> frame(p).createParents,
              parentDir |-> parent, ancestors |-> frame(p).ancestors, pc |-> label]
  BY <1>2, <1>5 DEF Frames
<1>7. /\ f \in Frames /\ f.pc = label /\ f.file = frame(p).file
      /\ f.createParents = frame(p).createParents
      /\ f.parentDir = parent /\ f.ancestors = frame(p).ancestors
  BY <1>2, <1>3, <1>6 DEF Frames, Labels
<1>8. ActivationInv(p, f)
  BY <1>1, <1>2, <1>3, <1>7 DEF ActivationInv
<1> QED
  BY <1>1, <1>4, <1>5, <1>7, <1>8, ReplaceStep

LEMMA AheadLeads ==
  ASSUME NEW t, NEW file \in Files, NEW list \in Seq(Files), FileLeads(file, t),
         \A k \in DOMAIN list : FileLeads(list[k], t)
  PROVE  /\ Ahead(file, list) \in Seq(Files)
         /\ \A k \in DOMAIN Ahead(file, list) : FileLeads(Ahead(file, list)[k], t)
<1>1. CASE list # <<>> /\ Head(list) = file
  BY <1>1 DEF Ahead
<1>2. CASE ~(list # <<>> /\ Head(list) = file)
  <2> DEFINE l == <<file>> \o list
  <2>1. Ahead(file, list) = l
    BY <1>2 DEF Ahead
  <2>2. /\ l \in Seq(Files) /\ Len(l) = Len(list) + 1
        /\ \A k \in DOMAIN l : l[k] = file \/ \E j \in DOMAIN list : l[k] = list[j]
    OBVIOUS
  <2> HIDE DEF l
  <2> QED
    BY <2>1, <2>2
<1> QED
  BY <1>1, <1>2

LEMMA ClimbStep ==
  ASSUME IInv, NEW p \in Procs, Climb(p)
  PROVE  IInv'
<1>1. Running(p) /\ frame(p).pc = "climb" /\ UNCHANGED <<fs, result, history>>
  BY DEF Climb, At
<1>2. frame(p) \in Frames /\ ActivationInv(p, frame(p))
  BY <1>1, Innermost
<1>3. frame(p).createParents
  BY <1>1, <1>2 DEF ActivationInv
<1>4. CASE Stat(frame(p).parentDir.path) # "none"
  <2>1. Goto(p, "descend")
    BY <1>4 DEF Climb
  <2> QED
    BY <1>1, <1>3, <2>1, GotoStep DEF Labels
<1>5. CASE Stat(frame(p).parentDir.path) = "none"
  <2> DEFINE list == Ahead(frame(p).parentDir, frame(p).ancestors)
  <2>1. Replace(p, [frame(p) EXCEPT !.ancestors = list, !.pc = "up"])
    BY <1>5 DEF Climb
  <2>2. list \in Seq(Files) /\ \A k \in DOMAIN list : FileLeads(list[k], target(p))
    BY <1>2, AheadLeads DEF Frames, ActivationInv
  <2>3. PICK f : f = [frame(p) EXCEPT !.ancestors = list, !.pc = "up"]
    OBVIOUS
  <2> HIDE DEF list
  <2>4. f = [file |-> frame(p).file, createParents |-> frame(p).createParents,
             parentDir |-> frame(p).parentDir, ancestors |-> list, pc |-> "up"]
    BY <1>2, <2>3 DEF Frames
  <2>5. /\ f \in Frames /\ f.pc = "up" /\ f.file = frame(p).file
        /\ f.createParents = frame(p).createParents
        /\ f.parentDir = frame(p).parentDir /\ f.ancestors = list
    BY <1>2, <2>2, <2>4 DEF Frames, Labels
  <2>6. ActivationInv(p, f)
    BY <1>1, <1>2, <1>3, <2>2, <2>5 DEF ActivationInv
  <2> QED
    BY <1>1, <2>1, <2>3, <2>5, <2>6, ReplaceStep
<1> QED
  BY <1>4, <1>5

LEMMA ClimbUpStep ==
  ASSUME IInv, NEW p \in Procs, ClimbUp(p)
  PROVE  IInv'
<1>1. Running(p) /\ frame(p).pc = "up" /\ UNCHANGED <<fs, result, history>>
  BY DEF ClimbUp, At
<1>2. frame(p) \in Frames /\ ActivationInv(p, frame(p))
  BY <1>1, Innermost
<1> DEFINE parent == ParentDir(frame(p).parentDir)
<1>3. parent \in Files /\ FileLeads(parent, target(p))
  BY <1>2, ParentLeads, TargetType DEF IInv, Frames, ActivationInv
<1>4. Replace(p, [frame(p) EXCEPT !.parentDir = parent, !.pc = "climb"])
  BY DEF ClimbUp
<1>5. PICK f : f = [frame(p) EXCEPT !.parentDir = parent, !.pc = "climb"]
  OBVIOUS
<1> HIDE DEF parent
<1>6. f = [file |-> frame(p).file, createParents |-> frame(p).createParents,
           parentDir |-> parent, ancestors |-> frame(p).ancestors, pc |-> "climb"]
  BY <1>2, <1>5 DEF Frames
<1>7. /\ f \in Frames /\ f.pc = "climb" /\ f.file = frame(p).file
      /\ f.createParents = frame(p).createParents
      /\ f.parentDir = parent /\ f.ancestors = frame(p).ancestors
  BY <1>2, <1>3, <1>6 DEF Frames, Labels
<1>8. ActivationInv(p, f)
  BY <1>1, <1>2, <1>3, <1>7 DEF ActivationInv
<1> QED
  BY <1>1, <1>4, <1>5, <1>7, <1>8, ReplaceStep

LEMMA DescendStep ==
  ASSUME IInv, NEW p \in Procs, Descend(p)
  PROVE  IInv'
<1>1. Running(p) /\ frame(p).pc = "descend" /\ UNCHANGED <<fs, result, history>>
  BY DEF Descend, At
<1>2. /\ frame(p) \in Frames /\ ActivationInv(p, frame(p))
      /\ FirstInv(p, stack[p][1]) /\ result[p] = "running"
  BY <1>1, Innermost
<1>3. Len(stack[p]) = 1 /\ frame(p) = stack[p][1] /\ frame(p).createParents
  BY <1>1, ClimbsFirst
<1>4. CASE frame(p).ancestors = <<>>
  <2>1. Goto(p, "mkdir")
    BY <1>4 DEF Descend
  <2> QED
    BY <1>1, <1>3, <2>1, GotoStep DEF Labels
<1>5. CASE frame(p).ancestors # <<>>
  <2> DEFINE ancestor == Head(frame(p).ancestors)
             rest == Tail(frame(p).ancestors)
             g == Frame(ancestor, FALSE)
  <2>1. /\ ancestor \in Files /\ rest \in Seq(Files)
        /\ FileLeads(ancestor, target(p))
        /\ \A k \in DOMAIN rest : FileLeads(rest[k], target(p))
    <3>1. frame(p).ancestors \in Seq(Files)
      BY <1>2 DEF Frames
    <3>2. /\ ancestor = frame(p).ancestors[1] /\ 1 \in DOMAIN frame(p).ancestors
          /\ rest \in Seq(Files) /\ ancestor \in Files
          /\ \A k \in DOMAIN rest :
               k + 1 \in DOMAIN frame(p).ancestors /\ rest[k] = frame(p).ancestors[k + 1]
      BY <1>5, <3>1
    <3> QED
      BY <1>2, <3>2 DEF ActivationInv
  <2>2. PICK f : f = [frame(p) EXCEPT !.ancestors = rest]
    OBVIOUS
  <2>3. stack' = [stack EXCEPT ![p] = Append(Append(Front(stack[p]), f), g)]
    BY <1>5, <2>2 DEF Descend
  <2> HIDE DEF ancestor, rest
  <2>4. /\ f \in Frames /\ f.pc = "descend" /\ f.file = frame(p).file
        /\ f.createParents = frame(p).createParents
        /\ f.parentDir = frame(p).parentDir /\ f.ancestors = rest
    BY <1>1, <1>2, <2>1, <2>2 DEF Frames
  <2>5. ActivationInv(p, f) /\ FirstInv(p, f)
    BY <1>1, <1>2, <1>3, <2>1, <2>4 DEF ActivationInv, FirstInv
  <2>6. /\ g \in Frames /\ g.pc = "exists" /\ g.file = ancestor /\ ~g.createParents
        /\ g.parentDir = ancestor /\ g.ancestors = <<>>
    BY <2>1 DEF Frame, Frames, Labels
  <2> HIDE DEF g
  <2>7. ActivationInv(p, g)
    <3>1. DOMAIN g.ancestors = {}
      BY <2>6
    <3>2. call[p].op # "rm"
      BY <1>1, <1>2 DEF ActivationInv
    <3> QED
      BY <2>1, <2>6, <3>1, <3>2 DEF ActivationInv
  <2>8. Front(stack[p]) = <<>>
    <3>1. Front(stack[p]) \in Seq(Frames) /\ Len(Front(stack[p])) = 1 - 1
      BY <1>1, <1>3, Innermost
    <3> QED
      BY <3>1
  <2>9. PICK st : st = Append(Append(Front(stack[p]), f), g)
    OBVIOUS
  <2>10. st \in Seq(Frames) /\ Len(st) = 2 /\ DOMAIN st = 1..2 /\ st[1] = f /\ st[2] = g
    BY <2>4, <2>6, <2>8, <2>9
  <2>11. \A i \in DOMAIN st : ActivationInv(p, st[i])
    BY <2>5, <2>7, <2>10
  <2>12. PICK r \in {"running", "returned", "thrown"} : r = "running"
    OBVIOUS
  <2>13. result' = [result EXCEPT ![p] = r]
    BY <1>1, <1>2, <2>12 DEF IInv, Types
  <2>14. \A node \in DOMAIN remover : remover[node] # p
    BY <1>2 DEF IInv, EndInv
  <2>15. st # <<>> /\ Len(st) <= 2
    <3>1. Len(st) \in Nat
      BY <2>10
    <3>2. Len(st) <= 2 /\ Len(st) # 0
      BY <2>10, <3>1, OneOrTwo
    <3> QED
      BY <3>2
  <2>16. stack' = [stack EXCEPT ![p] = st]
    BY <2>3, <2>9
  <2>17. r # "returned" /\ r # "thrown"
    BY <2>12
  <2>18. UNCHANGED <<fs, history>>
    BY <1>1
  <2> QED
    BY <2>4, <2>5, <2>6, <2>10, <2>11, <2>12, <2>13, <2>14, <2>15, <2>16, <2>17, <2>18,
       LocalStep
<1> QED
  BY <1>4, <1>5

LEMMA CheckParentStep ==
  ASSUME IInv, NEW p \in Procs, CheckParent(p)
  PROVE  IInv'
<1>1. Running(p) /\ frame(p).pc = "check" /\ UNCHANGED <<fs, history>>
  BY DEF CheckParent, At
<1>2. p \in Makers
  BY <1>1, MakersAt
<1>3. CASE Stat(frame(p).parentDir.path) = "none"
  BY <1>1, <1>2, <1>3, ThrowStep DEF CheckParent
<1>4. CASE Stat(frame(p).parentDir.path) # "none"
  BY <1>1, <1>4, GotoStep DEF CheckParent, Labels
<1> QED
  BY <1>3, <1>4

LEMMA ChmodStep ==
  ASSUME IInv, NEW p \in Procs, Chmod(p)
  PROVE  IInv'
<1>1. Running(p) /\ frame(p).pc = "chmod" /\ UNCHANGED <<fs, history>> /\ Return(p)
  BY DEF Chmod, At
<1>2. p \in Makers
  BY <1>1, MakersAt
<1>3. /\ frame(p).file.path # <<>>
      /\ Node(frame(p).file.path) \in DOMAIN fs
      /\ fs[Node(frame(p).file.path)] = "dir"
  BY <1>1, Innermost DEF ActivationInv
<1> QED
  BY <1>1, <1>2, <1>3, ReturnStep

LEMMA RmIsFirst ==
  ASSUME IInv, NEW p \in Procs, Running(p), p \notin Makers
  PROVE  /\ Len(stack[p]) = 1 /\ FirstInv(p, frame(p))
         /\ call[p].op = "rm" /\ frame(p).file.path \in Path
<1>1. /\ stack[p] \in Seq(Frames) /\ (Len(stack[p]) = 1 \/ Len(stack[p]) = 2)
      /\ frame(p) = stack[p][Len(stack[p])] /\ FirstInv(p, stack[p][1])
      /\ frame(p) \in Frames
  BY Innermost
<1>2. call[p].op = "rm"
  BY DEF IInv, Types, Calls, Makers
<1>3. StackInv(p)
  BY DEF IInv
<1>4. CASE Len(stack[p]) = 2
  <2>1. 1 \in DOMAIN stack[p]
    BY <1>1, <1>4
  <2>2. ActivationInv(p, stack[p][1]) /\ stack[p][1].pc = "descend"
    BY <1>3, <1>4, <2>1 DEF StackInv
  <2> QED
    BY <1>2, <2>2 DEF ActivationInv
<1> QED
  BY <1>1, <1>2, <1>4 DEF Frames, Files

(* What rm does not find to be a file was none, or is removed. *)
LEMMA RmCause ==
  ASSUME IInv, NEW p \in Procs, Running(p), p \notin Makers,
         Stat(frame(p).file.path) # "file"
  PROVE  \/ Last(call[p].path) = Sep
         \/ target(p) \notin DOMAIN before \/ before[target(p)] = "dir"
         \/ target(p) \in DOMAIN remover
<1> DEFINE path == frame(p).file.path
<1> SUFFICES ASSUME Last(call[p].path) # Sep
             PROVE  \/ target(p) \notin DOMAIN before \/ before[target(p)] = "dir"
                    \/ target(p) \in DOMAIN remover
  OBVIOUS
<1>1. path = call[p].path /\ (path = <<>> \/ Node(path) = target(p))
  BY RmIsFirst DEF FirstInv
<1>2. CASE path = <<>>
  <2>1. <<>> \in Path
    BY DEF Path
  <2>2. target(p) = Cwd
    BY <1>1, <1>2, <2>1, WalkStep DEF target, Node, Absolute
  <2>3. before \in Trees
    BY DEF IInv, Types
  <2> QED
    BY <2>2, <2>3, MakeDirectoryAssumption
<1>3. CASE path # <<>>
  <2>1. Stat(path) = "dir" \/ Stat(path) = "none"
    BY StatFacts DEF IInv, Types
  <2>2. Node(path) = target(p) /\ Last(path) # Sep
    BY <1>1, <1>3
  <2>3. TreeInv
    BY DEF IInv
  <2>4. CASE Stat(path) = "dir"
    <3>1. target(p) \in DOMAIN fs /\ fs[target(p)] = "dir"
      BY <2>2, <2>4, StatFacts DEF IInv, Types
    <3> QED
      BY <2>3, <3>1 DEF TreeInv
  <2>5. CASE Stat(path) = "none"
    <3>1. target(p) \notin DOMAIN fs
      BY <1>3, <2>2, <2>5, StatFacts DEF IInv, Types
    <3> QED
      BY <2>3, <3>1 DEF TreeInv
  <2> QED
    BY <2>1, <2>4, <2>5
<1> QED
  BY <1>2, <1>3

LEMMA CheckFileStep ==
  ASSUME IInv, NEW p \in Procs, CheckFile(p)
  PROVE  IInv'
<1>1. Running(p) /\ frame(p).pc = "rm" /\ UNCHANGED <<fs, history>>
  BY DEF CheckFile, At
<1>2. p \notin Makers
  BY <1>1, MakersAt
<1>3. CASE Stat(frame(p).file.path) = "file"
  BY <1>1, <1>3, GotoStep DEF CheckFile, Labels
<1>4. CASE Stat(frame(p).file.path) # "file"
  <2>1. Throw(p)
    BY <1>4 DEF CheckFile
  <2> QED
    BY <1>1, <1>2, <1>4, <2>1, RmCause, ThrowStep
<1> QED
  BY <1>3, <1>4

-----------------------------------------------------------------------------
(* The steps that change the tree. *)

LEMMA TreeWithout ==
  ASSUME NEW t, Tree(t), NEW n \in DOMAIN t, t[n] = "file"
  PROVE  Tree([m \in DOMAIN t \ {n} |-> t[m]])
<1> DEFINE u == [m \in DOMAIN t \ {n} |-> t[m]]
<1>1. DOMAIN u = DOMAIN t \ {n} /\ \A m \in DOMAIN u : u[m] = t[m]
  OBVIOUS
<1>2. \A m \in DOMAIN t : t[m] = "dir" => m \in DOMAIN u /\ u[m] = "dir"
  BY <1>1
<1>3. u \in [DOMAIN u -> Kinds]
  BY DEF Tree
<1> HIDE DEF u
<1>4. IsTree(u) /\ DOMAIN u \subseteq Seq(Names)
  BY <1>1, <1>2 DEF Tree, IsTree
<1>5. Tree(u)
  BY <1>3, <1>4 DEF Tree
<1> QED
  BY <1>5 DEF u

LEMMA TreeWith ==
  ASSUME NEW t, Tree(t), NEW n \in Seq(Names), n \notin DOMAIN t, NEW kind \in Kinds,
         Front(n) \in DOMAIN t, t[Front(n)] = "dir"
  PROVE  Tree([m \in DOMAIN t \union {n} |-> IF m = n THEN kind ELSE t[m]])
<1> DEFINE u == [m \in DOMAIN t \union {n} |-> IF m = n THEN kind ELSE t[m]]
<1>1. /\ DOMAIN u = DOMAIN t \union {n} /\ u[n] = kind
      /\ \A m \in DOMAIN t : u[m] = t[m]
  OBVIOUS
<1>2. u \in [DOMAIN u -> Kinds]
  BY DEF Tree
<1> HIDE DEF u
<1>3. IsTree(u) /\ DOMAIN u \subseteq Seq(Names)
  BY <1>1 DEF Tree, IsTree
<1>4. Tree(u)
  BY <1>2, <1>3 DEF Tree
<1> QED
  BY <1>4 DEF u

(* No step takes a directory away, so what the others rely on stays. *)
LEMMA StackKept ==
  ASSUME NEW q, StackInv(q), call' = call, stack'[q] = stack[q], result'[q] = result[q],
         \A node \in DOMAIN fs :
           fs[node] = "dir" => node \in DOMAIN fs' /\ fs'[node] = "dir"
  PROVE  StackInv(q)'
<1>1. target(q)' = target(q)
  BY DEF target
<1>2. ASSUME NEW f, ActivationInv(q, f) PROVE ActivationInv(q, f)'
  <2>1. f.pc = "chmod" =>
          /\ f.file.path # <<>>
          /\ Node(f.file.path) \in DOMAIN fs' /\ fs'[Node(f.file.path)] = "dir"
    BY <1>2 DEF ActivationInv
  <2> QED
    BY <1>1, <1>2, <2>1 DEF ActivationInv
<1>3. \A f : FirstInv(q, f) => FirstInv(q, f)'
  BY <1>1 DEF FirstInv
<1> QED
  BY <1>2, <1>3 DEF StackInv

LEMMA FoundKept ==
  ASSUME Types, Tree(fs'), Found
  PROVE  /\ found' \in [Procs -> {found'[p] : p \in Procs}]
         /\ \A p \in Procs : Tree(found'[p])
<1>1. \A p \in Procs : found'[p] = IF Waiting(p) THEN fs' ELSE found[p]
  BY DEF Found
<1>2. found' \in [Procs -> {found'[p] : p \in Procs}]
  BY DEF Found
<1> QED
  BY <1>1, <1>2 DEF Types

LEMMA UnlinkStep ==
  ASSUME IInv, NEW p \in Procs, Unlink(p)
  PROVE  IInv'
<1> DEFINE path == frame(p).file.path
           node == target(p)
<1>1. Running(p) /\ frame(p).pc = "unlink" /\ UNCHANGED <<call, before, maker>>
  BY DEF Unlink, At
<1>2. p \notin Makers
  BY <1>1, MakersAt
<1>3. CASE Stat(path) # "file"
  <2>1. Throw(p) /\ UNCHANGED <<fs, history>>
    BY <1>1, <1>3 DEF Unlink, history
  <2> QED
    BY <1>1, <1>2, <1>3, <2>1, RmCause, ThrowStep
<1>4. CASE Stat(path) = "file"
  <2>1. Unmake(p, path) /\ Return(p)
    BY <1>4 DEF Unlink
  <2>2. /\ Node(path) = node /\ node \in DOMAIN fs /\ fs[node] = "file"
        /\ Len(stack[p]) = 1
    BY <1>1, <1>2, <1>4, StatFacts, RmIsFirst DEF IInv, Types, FirstInv
  <2>3. Types /\ TreeInv /\ OnlyOnTheWay /\ \A q \in Procs : StackInv(q) /\ EndInv(q)
    BY DEF IInv
  <2>4. node \in DOMAIN before \ DOMAIN remover /\ before[node] = "file"
    BY <2>2, <2>3 DEF TreeInv
  <2> HIDE DEF path, node
  <2>5. /\ fs' = [m \in DOMAIN fs \ {node} |-> fs[m]] /\ DOMAIN fs' = DOMAIN fs \ {node}
        /\ \A m \in DOMAIN fs' : fs'[m] = fs[m]
    BY <2>1, <2>2 DEF Unmake
  <2>6. /\ DOMAIN remover' = DOMAIN remover \union {node}
        /\ remover'[node] = p /\ \A m \in DOMAIN remover : remover'[m] = remover[m]
        /\ remover' \in [DOMAIN remover' -> Procs]
    <3>1. remover' = [m \in DOMAIN remover \union {node} |->
                        IF m = node THEN p ELSE remover[m]]
      BY <2>1, <2>2 DEF Unmake
    <3> QED
      BY <2>3, <2>4, <3>1 DEF Types
  <2>7. \A m \in DOMAIN fs : fs[m] = "dir" => m \in DOMAIN fs' /\ fs'[m] = "dir"
    BY <2>2, <2>5
  <2>8. Tree(fs')
    BY <2>2, <2>3, <2>5, TreeWithout DEF Types
  <2>9. stack' = [stack EXCEPT ![p] = Front(stack[p])]
        /\ result' = [result EXCEPT ![p] = "returned"]
    BY <2>1, <2>2 DEF Return
  <2>10. Front(stack[p]) \in Seq(Frames) /\ Len(Front(stack[p])) = 1 - 1
    BY <1>1, <2>2, Innermost
  <2>11. Front(stack[p]) = <<>>
    BY <2>10
  <2>12. /\ stack'[p] = <<>> /\ result'[p] = "returned"
         /\ \A q \in Procs : q # p => stack'[q] = stack[q] /\ result'[q] = result[q]
    BY <2>3, <2>9, <2>11 DEF Types
  <2>13. Types'
    <3>1. stack' \in [Procs -> Seq(Frames)]
          /\ result' \in [Procs -> {"running", "returned", "thrown"}]
      BY <2>3, <2>9, <2>10 DEF Types
    <3>2. /\ found' \in [Procs -> {found'[q] : q \in Procs}]
          /\ \A q \in Procs : Tree(found'[q])
      BY <2>1, <2>3, <2>8, FoundKept DEF Unmake
    <3>3. Tree(fs)'
      BY <2>8 DEF Tree, IsTree
    <3>4. \A q \in Procs : Tree(found[q])'
      BY <3>2 DEF Tree, IsTree
    <3>5. raced' = raced
      BY <2>1 DEF Unmake
    <3> QED
      BY <1>1, <2>3, <2>6, <3>1, <3>2, <3>3, <3>4, <3>5 DEF Types
  <2>14. TreeInv'
    <3>1. node \notin DOMAIN maker
      BY <2>2, <2>3 DEF TreeInv
    <3> QED
      BY <1>1, <2>3, <2>4, <2>5, <2>6, <2>7, <3>1 DEF TreeInv
  <2>15. OnlyOnTheWay'
    BY <1>1, <2>3 DEF OnlyOnTheWay, target
  <2>16. ASSUME NEW q \in Procs PROVE StackInv(q)' /\ EndInv(q)'
    <3>1. StackInv(q) /\ EndInv(q)
      BY <2>3
    <3>2. target(q)' = target(q) /\ Makers' = Makers
      BY <1>1 DEF target, Makers
    <3>3. CASE q = p
      <4>1. Len(stack'[p]) <= 2 /\ Len(stack'[p]) # 2 /\ DOMAIN stack'[p] = {}
        <5>1. Len(stack'[p]) = 0 /\ DOMAIN stack'[p] = {}
          BY <2>12
        <5> QED
          BY <5>1, OneOrTwo
      <4>2. StackInv(p)'
        BY <2>12, <4>1 DEF StackInv
      <4>3. EndInv(p)'
        BY <1>2, <2>6, <2>12, <3>2, <3>3 DEF EndInv, node
      <4> QED
        BY <3>3, <4>2, <4>3
    <3>4. CASE q # p
      <4>1. StackInv(q)'
        BY <1>1, <2>7, <2>12, <3>1, <3>4, StackKept
      <4>2. EndInv(q)'
        BY <1>1, <2>4, <2>6, <2>7, <2>12, <3>1, <3>2, <3>4 DEF EndInv
      <4> QED
        BY <4>1, <4>2
    <3> QED
      BY <3>3, <3>4
  <2> QED
    BY <2>13, <2>14, <2>15, <2>16 DEF IInv
<1> QED
  BY <1>3, <1>4

LEMMA SystemMkdirStep ==
  ASSUME IInv, NEW p \in Procs, SystemMkdir(p)
  PROVE  IInv'
<1> DEFINE path == frame(p).file.path
           node == Node(path)
<1>1. Running(p) /\ frame(p).pc = "mkdir" /\ UNCHANGED <<call, before, remover>>
  BY DEF SystemMkdir, At
<1>2. p \in Makers
  BY <1>1, MakersAt
<1>3. CASE ~Vacant(path)
  <2>1. Throw(p) /\ UNCHANGED <<fs, history>>
    BY <1>1, <1>3 DEF SystemMkdir, history
  <2> QED
    BY <1>1, <1>2, <2>1, ThrowStep
<1>4. CASE Vacant(path)
  <2>1. /\ Make(path, "dir") /\ Found /\ Goto(p, "chmod") /\ result' = result
        /\ maker' = [m \in DOMAIN maker \union {node} |->
                       IF m = node THEN p ELSE maker[m]]
        /\ raced' = [q \in Procs |-> raced[q] \union
                       IF q = p \/ ~Running(q) \/ Waiting(q) THEN {} ELSE {node}]
    BY <1>4 DEF SystemMkdir
  <2>2. Types /\ TreeInv /\ OnlyOnTheWay /\ \A q \in Procs : StackInv(q) /\ EndInv(q)
    BY DEF IInv
  <2>3. /\ path # <<>> /\ path \in Path /\ node \in Seq(Names)
        /\ node \notin DOMAIN fs /\ Front(node) \in DOMAIN fs /\ fs[Front(node)] = "dir"
    <3>1. path \in Path
      BY <1>1, Innermost DEF Frames, Files
    <3> QED
      BY <1>4, <3>1, NodeType DEF Vacant
  <2>4. /\ frame(p) \in Frames /\ ActivationInv(p, frame(p))
        /\ stack[p] \in Seq(Frames) /\ (Len(stack[p]) = 1 \/ Len(stack[p]) = 2)
        /\ frame(p) = stack[p][Len(stack[p])]
        /\ Front(stack[p]) \in Seq(Frames) /\ Len(Front(stack[p])) = Len(stack[p]) - 1
        /\ \A i \in 1..(Len(stack[p]) - 1) : Front(stack[p])[i] = stack[p][i]
        /\ FirstInv(p, stack[p][1]) /\ result[p] = "running"
    BY <1>1, Innermost
  <2>5. IsPrefix(node, target(p))
    BY <2>3, <2>4 DEF ActivationInv, FileLeads, Leads
  <2>6. node # target(p) => call[p].createParents
    <3>1. CASE Len(stack[p]) = 1
      BY <2>3, <2>4, <3>1 DEF FirstInv
    <3>2. CASE Len(stack[p]) = 2
      <4>1. 1 \in DOMAIN stack[p]
        BY <2>4, <3>2
      <4>2. ActivationInv(p, stack[p][1]) /\ stack[p][1].pc = "descend"
        BY <2>2, <3>2, <4>1 DEF StackInv
      <4> QED
        BY <2>4, <4>2 DEF ActivationInv, FirstInv
    <3> QED
      BY <2>4, <3>1, <3>2
  <2>7. fs' = [m \in DOMAIN fs \union {node} |-> IF m = node THEN "dir" ELSE fs[m]]
    BY <2>1 DEF Make
  <2>8. PICK f : f = [frame(p) EXCEPT !.pc = "chmod"]
    OBVIOUS
  <2>9. stack' = [stack EXCEPT ![p] = Append(Front(stack[p]), f)]
    BY <2>1, <2>8 DEF Goto, Replace
  <2>10. /\ f \in Frames /\ f.pc = "chmod" /\ f.file.path = path /\ f.file = frame(p).file
         /\ f.createParents = frame(p).createParents
         /\ f.parentDir = frame(p).parentDir /\ f.ancestors = frame(p).ancestors
    BY <2>4, <2>8 DEF Frames, Labels
  <2> HIDE DEF node, path
  <2>11. /\ DOMAIN fs' = DOMAIN fs \union {node} /\ fs'[node] = "dir"
         /\ \A m \in DOMAIN fs : fs'[m] = fs[m]
    BY <2>3, <2>7
  <2>12. /\ DOMAIN maker' = DOMAIN maker \union {node} /\ maker'[node] = p
         /\ \A m \in DOMAIN maker : m # node => maker'[m] = maker[m]
         /\ maker' \in [DOMAIN maker' -> Procs] /\ DOMAIN maker' \subseteq Seq(Names)
    BY <2>1, <2>2, <2>3 DEF Types
  <2>13. Tree(fs')
    <3>1. Tree(fs)
      BY <2>2 DEF Types
    <3>2. Tree([m \in DOMAIN fs \union {node} |-> IF m = node THEN "dir" ELSE fs[m]])
      BY <2>3, <3>1, TreeWith DEF Kinds
    <3> QED
      BY <2>7, <3>2
  <2>14. \A m \in DOMAIN fs : fs[m] = "dir" => m \in DOMAIN fs' /\ fs'[m] = "dir"
    BY <2>11
  <2> DEFINE n == Len(stack[p])
  <2>st. PICK st : st = Append(Front(stack[p]), f)
    OBVIOUS
  <2>15. /\ st \in Seq(Frames) /\ Len(st) = (n - 1) + 1 /\ DOMAIN st = 1..((n - 1) + 1)
         /\ \A i \in 1..(n - 1) : st[i] = Front(stack[p])[i]
         /\ st[(n - 1) + 1] = f
    BY <2>4, <2>10, <2>st, Extended
  <2>16. stack'[p] = st /\ \A q \in Procs : q # p => stack'[q] = stack[q]
    BY <2>2, <2>9, <2>st DEF Types
  <2>17. Types'
    <3>1. stack' \in [Procs -> Seq(Frames)]
      BY <2>2, <2>9, <2>15, <2>st DEF Types
    <3>2. /\ found' \in [Procs -> {found'[q] : q \in Procs}]
          /\ \A q \in Procs : Tree(found'[q])
      BY <2>1, <2>2, <2>13, FoundKept
    <3>3. Tree(fs)'
      BY <2>13 DEF Tree, IsTree
    <3>4. \A q \in Procs : Tree(found[q])'
      BY <3>2 DEF Tree, IsTree
    <3>5. raced' \in [Procs -> SUBSET DOMAIN maker']
      BY <2>1, <2>2, <2>12 DEF Types
    <3> QED
      BY <1>1, <2>1, <2>2, <2>12, <3>1, <3>2, <3>3, <3>4, <3>5 DEF Types
  <2>18. TreeInv'
    BY <1>1, <2>2, <2>3, <2>11, <2>12 DEF TreeInv
  <2>19. OnlyOnTheWay'
    <3>1. \A q : target(q)' = target(q)
      BY <1>1 DEF target
    <3>2. ASSUME NEW m \in DOMAIN maker'
          PROVE  /\ IsPrefix(m, target(maker'[m]))
                 /\ m # target(maker'[m]) => call[maker'[m]].createParents
      <4>1. CASE m = node
        BY <2>5, <2>6, <2>12, <4>1
      <4>2. CASE m # node
        BY <2>2, <2>12, <4>2 DEF OnlyOnTheWay
      <4> QED
        BY <4>1, <4>2
    <3> QED
      BY <1>1, <3>1, <3>2 DEF OnlyOnTheWay, target
  <2>20. ASSUME NEW q \in Procs PROVE StackInv(q)' /\ EndInv(q)'
    <3>1. StackInv(q) /\ EndInv(q)
      BY <2>2
    <3>2. target(q)' = target(q) /\ Makers' = Makers
      BY <1>1 DEF target, Makers
    <3>3. EndInv(q)'
      BY <1>1, <2>1, <2>14, <3>1, <3>2 DEF EndInv
    <3>4. CASE q = p
      <4> HIDE DEF n
      <4>1. /\ n = 1 \/ n = 2
            /\ Len(st) = n /\ st[n] = f
            /\ \A i \in 1..(n - 1) : st[i] = stack[p][i] /\ i \in DOMAIN stack[p]
        BY <2>4, <2>15 DEF n
      <4>2. ActivationInv(p, f)'
        BY <1>1, <2>3, <2>4, <2>10, <2>11, <3>2, <3>4 DEF ActivationInv, node
      <4>3. ASSUME NEW i \in DOMAIN st PROVE ActivationInv(p, st[i])'
        <5>1. CASE i = n
          BY <4>1, <4>2, <5>1
        <5>2. CASE i \in 1..(n - 1)
          <6>1. st[i] = stack[p][i] /\ ActivationInv(p, stack[p][i])
            BY <3>1, <3>4, <4>1, <5>2 DEF StackInv
          <6>2. st[i].pc = "chmod" =>
                  /\ st[i].file.path # <<>>
                  /\ Node(st[i].file.path) \in DOMAIN fs'
                  /\ fs'[Node(st[i].file.path)] = "dir"
            BY <2>14, <6>1 DEF ActivationInv
          <6> QED
            BY <1>1, <3>2, <3>4, <6>1, <6>2 DEF ActivationInv
        <5> QED
          BY <2>15, <4>1, <5>1, <5>2
      <4>4. FirstInv(p, st[1])'
        <5>1. FirstInv(p, st[1])
          <6>1. CASE n = 1
            BY <2>4, <2>10, <4>1, <6>1 DEF FirstInv, n
          <6>2. CASE n = 2
            BY <2>4, <4>1, <6>2
          <6> QED
            BY <4>1, <6>1, <6>2
        <5> QED
          BY <1>1, <3>2, <3>4, <5>1 DEF FirstInv
      <4>5. Len(st) = 2 => st[1].pc = "descend" /\ ~st[2].createParents
        <5> SUFFICES ASSUME n = 2 PROVE st[1].pc = "descend" /\ ~st[2].createParents
          BY <4>1
        <5>1. stack[p][1].pc = "descend" /\ ~stack[p][2].createParents
          BY <3>1, <3>4 DEF StackInv, n
        <5>2. st[1] = stack[p][1] /\ st[2] = f /\ frame(p) = stack[p][2]
          BY <2>4, <4>1 DEF n
        <5> QED
          BY <2>10, <5>1, <5>2
      <4>6. Len(st) <= 2 /\ st # <<>>
        BY <4>1
      <4>7. result'[p] = "running"
        BY <2>1, <2>4
      <4> QED
        BY <2>16, <3>3, <3>4, <4>3, <4>4, <4>5, <4>6, <4>7 DEF StackInv
    <3>5. CASE q # p
      BY <1>1, <2>1, <2>14, <2>16, <3>1, <3>3, <3>5, StackKept
    <3> QED
      BY <3>4, <3>5
  <2> QED
    BY <2>17, <2>18, <2>19, <2>20 DEF IInv
<1> QED
  BY <1>3, <1>4

-----------------------------------------------------------------------------
(* The theorems. *)

LEMMA InitIInv ==
  ASSUME Init
  PROVE  IInv
<1>1. fs \in Trees /\ Tree(fs)
  BY MakeDirectoryAssumption DEF Init, Tree
<1>2. /\ call \in [Procs -> Calls] /\ before = fs
      /\ DOMAIN maker = {} /\ DOMAIN remover = {}
      /\ maker \in [DOMAIN maker -> Procs] /\ remover \in [DOMAIN remover -> Procs]
      /\ \A p \in Procs : stack[p] = <<Activation(call[p])>> /\ result[p] = "running"
      /\ \A p \in Procs : found[p] = fs /\ raced[p] = {}
  BY DEF Init
<1>3. ASSUME NEW p \in Procs
      PROVE  /\ Activation(call[p]) \in Frames
             /\ ActivationInv(p, Activation(call[p]))
             /\ FirstInv(p, Activation(call[p]))
  <2> DEFINE s == call[p].path
  <2>1. PICK a : a = Activation(call[p])
    OBVIOUS
  <2>2. s \in Path /\ target(p) \in Seq(Names)
    <3>1. s \in Targets \union Removals
      BY <1>2 DEF Calls
    <3>2. s \in Path
      BY <3>1, MakeDirectoryAssumption DEF Path
    <3> QED
      BY <3>2, NodeType DEF target
  <2>3. Leads(s, target(p))
    BY <2>2, PrefixItself DEF Leads, target
  <2>4. PICK file : file = NewFile(s)
    OBVIOUS
  <2>5. /\ file \in Files /\ FileLeads(file, target(p))
        /\ file.path = s \/ (s # <<>> /\ Last(s) = Sep)
        /\ Node(file.path) = target(p)
    BY <2>2, <2>3, <2>4, NewFileLeads DEF target
  <2>6. call[p].op \in {"mkdir", "rm"} /\ call[p].createParents \in BOOLEAN
    BY <1>2 DEF Calls
  <2>7. a = [Frame(file, call[p].createParents) EXCEPT
               !.pc = IF call[p].op = "rm" THEN "rm" ELSE @]
    BY <2>1, <2>4 DEF Activation
  <2>8. PICK label \in Labels : label = IF call[p].op = "rm" THEN "rm" ELSE "exists"
    BY <2>6 DEF Labels
  <2>9. a = [file |-> file, createParents |-> call[p].createParents,
             parentDir |-> file, ancestors |-> <<>>, pc |-> label]
    BY <2>7, <2>8 DEF Frame
  <2>10. a \in Frames
    BY <2>5, <2>6, <2>9 DEF Frames
  <2>11. /\ a.file = file /\ a.createParents = call[p].createParents
         /\ a.parentDir = file /\ a.ancestors = <<>> /\ a.pc = label
    BY <2>9
  <2>12. ActivationInv(p, a)
    <3>1. DOMAIN a.ancestors = {}
      BY <2>11
    <3>2. label \in {"rm", "unlink"} <=> call[p].op = "rm"
      BY <2>8
    <3>3. label \notin {"climb", "up", "descend", "chmod"}
      BY <2>8
    <3> QED
      BY <2>5, <2>11, <3>1, <3>2, <3>3 DEF ActivationInv
  <2>13. FirstInv(p, a)
    BY <2>5, <2>11 DEF FirstInv
  <2> QED
    BY <2>1, <2>10, <2>12, <2>13
<1>4. Types
  <2>1. stack \in [Procs -> Seq(Frames)]
        /\ result \in [Procs -> {"running", "returned", "thrown"}]
    <3>1. \A p \in Procs : <<Activation(call[p])>> \in Seq(Frames)
      BY <1>3
    <3> QED
      BY <3>1 DEF Init
  <2>2. found \in [Procs -> {found[p] : p \in Procs}] /\ \A p \in Procs : Tree(found[p])
    <3>1. found \in [Procs -> {found[p] : p \in Procs}]
      BY DEF Init
    <3> QED
      BY <1>1, <1>2, <3>1
  <2>3. raced \in [Procs -> SUBSET DOMAIN maker]
    BY DEF Init
  <2> QED
    BY <1>1, <1>2, <2>1, <2>2, <2>3 DEF Types
<1>5. TreeInv /\ OnlyOnTheWay
  BY <1>2 DEF TreeInv, OnlyOnTheWay
<1>6. ASSUME NEW p \in Procs PROVE StackInv(p) /\ EndInv(p)
  <2>1. PICK a : a = Activation(call[p])
    OBVIOUS
  <2>2. PICK st : st = <<a>>
    OBVIOUS
  <2>3. stack[p] = st /\ result[p] = "running" /\ ActivationInv(p, a) /\ FirstInv(p, a)
    BY <1>2, <1>3, <2>1, <2>2
  <2>4. Len(st) = 1 /\ DOMAIN st = {1} /\ st[1] = a /\ st # <<>>
    BY <2>2
  <2>5. Len(st) <= 2 /\ Len(st) # 2
    BY <2>4
  <2>6. StackInv(p)
    BY <2>3, <2>4, <2>5 DEF StackInv
  <2>7. EndInv(p)
    BY <1>2 DEF EndInv
  <2> QED
    BY <2>6, <2>7
<1> QED
  BY <1>4, <1>5, <1>6 DEF IInv

LEMMA StutterStep ==
  ASSUME IInv, UNCHANGED vars
  PROVE  IInv'
<1>1. /\ fs' = fs /\ stack' = stack /\ result' = result /\ call' = call
      /\ before' = before /\ maker' = maker /\ remover' = remover
      /\ found' = found /\ raced' = raced
  BY DEF vars, history, others
<1>2. Types' /\ TreeInv' /\ OnlyOnTheWay'
  BY <1>1 DEF IInv, Types, Tree, TreeInv, OnlyOnTheWay, target
<1>3. ASSUME NEW p \in Procs PROVE StackInv(p)' /\ EndInv(p)'
  <2>1. StackInv(p) /\ EndInv(p)
    BY DEF IInv
  <2>2. StackInv(p)'
    BY <1>1, <2>1, StackKept
  <2>3. EndInv(p)'
    BY <1>1, <2>1 DEF EndInv, target, Makers
  <2> QED
    BY <2>2, <2>3
<1> QED
  BY <1>2, <1>3 DEF IInv

LEMMA NextStep ==
  ASSUME IInv, [Next]_vars
  PROVE  IInv'
<1>1. ASSUME NEW p \in Procs, Step(p) PROVE IInv'
  BY <1>1, CheckSelfStep, FindParentStep, ClimbStep, ClimbUpStep, DescendStep,
     CheckParentStep, SystemMkdirStep, ChmodStep, CheckFileStep, UnlinkStep DEF Step
<1> QED
  BY <1>1, StutterStep DEF Next

(* Whatever the processes call, and however their system calls interleave:  *)
(* each works on the way to its own target only, the tree is made of what   *)
(* was there, what was made and what was not removed, and a call that ended *)
(* has done what it was called for.                                         *)
THEOREM Invariant == Spec => []IInv
<1>1. Init => IInv
  BY InitIInv
<1>2. IInv /\ [Next]_vars => IInv'
  BY NextStep
<1> QED
  BY <1>1, <1>2, PTL DEF Spec

(* The values of the variables; among them that mkdir never calls itself    *)
(* from a call of its own that it made itself, and that the tree stays one. *)
THEOREM TypeCorrect == Spec => []TypeOK
<1>1. IInv => TypeOK
  <2> SUFFICES ASSUME IInv PROVE TypeOK
    OBVIOUS
  <2>1. Types /\ TreeInv /\ \A p \in Procs : StackInv(p)
    BY DEF IInv
  <2>2. ASSUME NEW p \in Procs, NEW i \in DOMAIN stack[p]
        PROVE  stack[p][i].pc \in Labels
    <3>1. stack[p] \in Seq(Frames)
      BY <2>1 DEF Types
    <3>2. stack[p][i] \in Frames
      BY <3>1
    <3> QED
      BY <3>2 DEF Frames
  <2>3. \A node \in DOMAIN fs : fs[node] \in Kinds
    BY <2>1 DEF Types, Tree
  <2> QED
    BY <2>1, <2>2, <2>3 DEF TypeOK, Types, Tree, TreeInv, StackInv
<1> QED
  BY <1>1, Invariant, PTL

(* A mkdir that has returned has left a directory where it was asked for    *)
(* one, whatever other processes made or removed meanwhile.                 *)
THEOREM ReturnedHasMade == Spec => []ReturnedMeansMade
<1>1. IInv => ReturnedMeansMade
  BY DEF IInv, EndInv, ReturnedMeansMade, Makers
<1> QED
  BY <1>1, Invariant, PTL

(* mkdir never makes anything off the way to its target, and nothing before *)
(* the target unless it was told to create parents.                         *)
THEOREM MadeOnTheWay == Spec => []OnlyOnTheWay
<1>1. IInv => OnlyOnTheWay
  BY DEF IInv
<1> QED
  BY <1>1, Invariant, PTL

(* Of several rm for one file exactly the one that removed it returns, and  *)
(* one that throws has removed nothing and had a cause.                     *)
THEOREM RemovedByOneOnly == Spec => []RemovedByOne
<1>1. IInv => RemovedByOne
  <2> SUFFICES ASSUME IInv, NEW p \in Procs \ Makers
               PROVE  /\ result[p] = "returned" =>
                           /\ target(p) \in DOMAIN before /\ before[target(p)] = "file"
                           /\ target(p) \in DOMAIN remover /\ remover[target(p)] = p
                      /\ result[p] = "thrown" =>
                           /\ \A node \in DOMAIN remover : remover[node] # p
                           /\ \/ Last(call[p].path) = Sep
                              \/ target(p) \notin DOMAIN before
                              \/ before[target(p)] = "dir"
                              \/ target(p) \in DOMAIN remover
    BY DEF RemovedByOne
  <2>1. EndInv(p) /\ TreeInv
    BY DEF IInv
  <2> QED
    BY <2>1 DEF EndInv, TreeInv
<1> QED
  BY <1>1, Invariant, PTL

-----------------------------------------------------------------------------
(* What a mkdir relies on while others make and remove.  The clauses below  *)
(* come on top of IInv; ThrownForCause and SomeoneSucceeds rest on them.    *)

Dir(node) == node \in DOMAIN fs /\ fs[node] = "dir"

(* The path that getParentDir takes of what does not exist. *)
Above(path) == Upto(path, LastSep[path][Len(path) - 1])

(* The ends of the names in p's path that lead to a directory. *)
Anchors(p) ==
  {n \in 1..(Len(call[p].path) - 1) :
     LET node == Walk[call[p].path][n] IN
       /\ call[p].path[n] # Sep
       /\ node \in DOMAIN found[p] /\ found[p][node] = "dir"}

(* A call of mkdir for which ThrownForCause leaves no cause but the others, *)
(* and a parent that it was not to create.                                  *)
Sound(p) == p \in Makers /\ Anchored(p) /\ ~Blocked(p) /\ ~OwnParent(p)

(* A beginning of p's path that is long enough to lead to a directory. *)
Begins(p, path) ==
  IsPrefix(path, call[p].path) /\ \A n \in Anchors(p) : n <= Len(path)

(* What is to be made, in order; each needs nothing but the one before. *)
Line(f) == Append(f.ancestors, f.file)
Link(a, b) == IsPrefix(Node(Above(b.path)), Node(a.path))
Ready(file) == Dir(Node(file.path)) \/ Dir(Node(Above(file.path)))

(* What p's call began with is there still, unless it was a file, and no    *)
(* file is there that was not.                                              *)
FoundInv(p) ==
  /\ Waiting(p) => found[p] = fs /\ raced[p] = {}
  /\ \A node \in DOMAIN found[p] : found[p][node] = "dir" => Dir(node)
  /\ \A node \in DOMAIN fs :
       fs[node] = "file" => node \in DOMAIN found[p] /\ found[p][node] = "file"

(* The activation of the call itself.  Its file is the path of the call,    *)
(* but for a directory that is there already.  Climbing, it keeps to        *)
(* beginnings of the path, and the line stays without a gap.                *)
FirstWay(p, f) ==
  /\ f.pc = "exists" =>
       f.file.path = call[p].path \/ (f.file.path # <<>> /\ Dir(target(p)))
  /\ f.pc \in Labels \ {"exists", "chmod", "rm", "unlink"} => f.file.path = call[p].path
  /\ f.pc \in {"exists", "parent"} => f.ancestors = <<>>
  /\ f.pc = "check" => ~f.createParents
  /\ Sound(p) =>
       /\ f.pc \in {"climb", "up", "check"} => Begins(p, f.parentDir.path)
       /\ f.pc = "up" =>
            /\ f.ancestors # <<>> /\ f.ancestors[1] = f.parentDir
            /\ \A n \in Anchors(p) : n < Len(f.parentDir.path)
       /\ \A k \in DOMAIN f.ancestors :
            /\ Begins(p, f.ancestors[k].path)
            /\ Node(f.ancestors[k].path) # target(p)
            /\ Link(Line(f)[k], Line(f)[k + 1])
       /\ f.pc = "climb" =>
            /\ \/ Dir(Node(Line(f)[1].path)) /\ Dir(Node(f.parentDir.path))
               \/ Link(f.parentDir, Line(f)[1])
            /\ Dir(target(p)) \/ Node(f.parentDir.path) # target(p)
       /\ f.pc = "check" =>
            Dir(target(p)) \/ Node(f.parentDir.path) = Front(target(p))
       /\ f.pc = "mkdir" => Dir(target(p)) \/ Dir(Front(target(p)))

(* The activation for an ancestor: its parent is there when it needs it, or *)
(* the ancestor itself, made by another process.                            *)
SecondWay(p, f, g) ==
  /\ Begins(p, g.file.path) /\ Node(g.file.path) # target(p)
  /\ Link(g.file, Line(f)[1])
  /\ g.pc \in {"exists", "parent"} => Ready(g.file)
  /\ g.pc = "check" =>
       \/ Dir(Node(g.file.path))
       \/ /\ g.parentDir.path # <<>> /\ Dir(Node(g.parentDir.path))
          /\ Node(g.parentDir.path) = Front(Node(g.file.path))
  /\ g.pc = "mkdir" => Dir(Node(g.file.path)) \/ Dir(Front(Node(g.file.path)))

WayInv(p) ==
  /\ stack[p] # <<>> => FirstWay(p, stack[p][1])
  /\ Sound(p) /\ Len(stack[p]) = 1 /\ stack[p][1].pc = "descend" =>
       Ready(Line(stack[p][1])[1])
  /\ Sound(p) /\ Len(stack[p]) = 2 => SecondWay(p, stack[p][1], stack[p][2])

(* Nobody has made before p what p found missing. *)
Clear(p) ==
  /\ stack[p][1].pc \notin {"exists", "chmod"} => target(p) \notin DOMAIN fs
  /\ Len(stack[p]) = 2 /\ stack[p][2].pc \notin {"exists", "chmod"} =>
       Node(stack[p][2].file.path) \notin DOMAIN fs

RacedInv(p) ==
  Sound(p) /\ Running(p) =>
    Clear(p) \/ \E node \in raced[p] : IsPrefix(node, target(p))

(* Who made the last directory has returned, or will: nobody is ahead.      *)
SomeInv ==
  DOMAIN maker # {} =>
    \E p \in Procs :
      /\ p \in Makers /\ ~Waiting(p)
      /\ Sound(p) /\ call[p].createParents =>
           result[p] = "returned" \/ (Running(p) /\ Clear(p))

RaceInv ==
  /\ \A p \in Procs : FoundInv(p) /\ WayInv(p) /\ RacedInv(p)
  /\ ThrownForCause /\ SomeInv

-----------------------------------------------------------------------------
(* Sequences and trees. *)

LEMMA PrefixBoth ==
  ASSUME NEW T, NEW s \in Seq(T), NEW t \in Seq(T), IsPrefix(s, t), IsPrefix(t, s)
  PROVE  s = t
<1>1. Len(s) <= Len(t) /\ \A i \in 1..Len(s) : s[i] = t[i]
  BY PrefixByElements
<1>2. Len(t) <= Len(s)
  BY PrefixByElements
<1> QED
  BY <1>1, <1>2

LEMMA FrontOfAppended ==
  ASSUME NEW T, NEW s \in Seq(T), NEW e \in T
  PROVE  Append(s, e) # <<>> /\ Front(Append(s, e)) = s
<1> DEFINE t == Append(s, e)
<1>1. /\ t \in Seq(T) /\ Len(t) = Len(s) + 1 /\ Len(s) \in Nat
      /\ \A k \in 1..Len(s) : t[k] = s[k]
  BY Extended
<1>2. Front(t) = SubSeq(t, 1, Len(t) - 1)
  BY DEF Front
<1> HIDE DEF t
<1>3. Len(t) - 1 = Len(s) /\ Len(s) \in 0..Len(t)
  BY <1>1
<1>4. /\ SubSeq(t, 1, Len(s)) \in Seq(T) /\ Len(SubSeq(t, 1, Len(s))) = Len(s)
      /\ \A k \in 1..Len(s) : SubSeq(t, 1, Len(s))[k] = t[k]
  BY <1>1, <1>3, Beginning
<1>5. SubSeq(t, 1, Len(s)) = s
  BY <1>1, <1>4
<1> QED
  BY <1>1, <1>2, <1>3, <1>5 DEF t

LEMMA FrontFacts ==
  ASSUME NEW T, NEW s \in Seq(T), s # <<>>
  PROVE  /\ Front(s) \in Seq(T) /\ Len(Front(s)) = Len(s) - 1 /\ Len(s) \in Nat \ {0}
         /\ \A k \in 1..(Len(s) - 1) : Front(s)[k] = s[k]
         /\ IsPrefix(Front(s), s) /\ Front(s) # s
<1>1. Len(s) \in Nat /\ Len(s) # 0
  OBVIOUS
<1>2. Front(s) = SubSeq(s, 1, Len(s) - 1) /\ Len(s) - 1 \in 0..Len(s)
  BY <1>1 DEF Front
<1>3. /\ Front(s) \in Seq(T) /\ Len(Front(s)) = Len(s) - 1
      /\ \A k \in 1..(Len(s) - 1) : Front(s)[k] = s[k]
  BY <1>2, Beginning
<1>4. IsPrefix(Front(s), s)
  BY <1>1, <1>3, PrefixByElements
<1> QED
  BY <1>1, <1>3, <1>4

(* What lies on the way to a node, and is not the node, lies on the way to  *)
(* what it lies in.                                                         *)
LEMMA PrefixOfFront ==
  ASSUME NEW T, NEW s \in Seq(T), NEW t \in Seq(T), IsPrefix(s, t), s # t
  PROVE  t # <<>> /\ IsPrefix(s, Front(t))
<1>1. Len(s) <= Len(t) /\ \A i \in 1..Len(s) : s[i] = t[i]
  BY PrefixByElements
<1>2. Len(s) # Len(t)
  BY <1>1
<1>3. Len(s) \in Nat /\ Len(t) \in Nat
  OBVIOUS
<1>4. t # <<>> /\ Len(s) <= Len(t) - 1
  BY <1>1, <1>2, <1>3
<1>5. /\ Front(t) \in Seq(T) /\ Len(Front(t)) = Len(t) - 1
      /\ \A k \in 1..(Len(t) - 1) : Front(t)[k] = t[k]
  BY <1>4, FrontFacts
<1>6. Len(s) <= Len(Front(t)) /\ \A i \in 1..Len(s) : s[i] = Front(t)[i]
  BY <1>1, <1>3, <1>4, <1>5
<1> QED
  BY <1>4, <1>5, <1>6, PrefixByElements

(* What lies on the way to a node of a tree is a directory of it. *)
LEMMA TreeClosed ==
  ASSUME NEW t, Tree(t), NEW m \in DOMAIN t
  PROVE  \A n \in Seq(Names) :
           IsPrefix(n, m) /\ n # m => n \in DOMAIN t /\ t[n] = "dir"
<1> DEFINE Holds(k) ==
             \A a \in DOMAIN t : Len(a) = k =>
               \A n \in Seq(Names) :
                 IsPrefix(n, a) /\ n # a => n \in DOMAIN t /\ t[n] = "dir"
           S == {k \in Nat : Holds(k)}
<1>0. DOMAIN t \subseteq Seq(Names) /\ IsTree(t)
  BY DEF Tree
<1>1. Holds(0)
  <2> SUFFICES ASSUME NEW a \in DOMAIN t, Len(a) = 0, NEW n \in Seq(Names),
                      IsPrefix(n, a), n # a
               PROVE  FALSE
    OBVIOUS
  <2>1. a \in Seq(Names)
    BY <1>0
  <2>2. a # <<>>
    BY <2>1, PrefixOfFront
  <2> QED
    BY <2>1, <2>2
<1>2. ASSUME NEW k \in Nat, Holds(k) PROVE Holds(k + 1)
  <2> SUFFICES ASSUME NEW a \in DOMAIN t, Len(a) = k + 1, NEW n \in Seq(Names),
                      IsPrefix(n, a), n # a
               PROVE  n \in DOMAIN t /\ t[n] = "dir"
    OBVIOUS
  <2>1. a \in Seq(Names)
    BY <1>0
  <2>2. a # <<>> /\ IsPrefix(n, Front(a))
    BY <2>1, PrefixOfFront
  <2>3. Front(a) \in DOMAIN t /\ t[Front(a)] = "dir"
    BY <1>0, <2>2 DEF IsTree
  <2>4. Len(Front(a)) = k
    BY <2>1, <2>2, FrontFacts
  <2> QED
    BY <1>2, <2>2, <2>3, <2>4
<1> HIDE DEF Holds
<1>3. 0 \in S /\ \A k \in Nat : k \in S => k + 1 \in S
  BY <1>1, <1>2
<1> HIDE DEF S
<1>4. Nat \subseteq S
  BY <1>3, Induction
<1>5. Len(m) \in Nat
  BY <1>0
<1>6. Holds(Len(m))
  BY <1>4, <1>5 DEF S
<1> QED
  BY <1>6 DEF Holds

-----------------------------------------------------------------------------
(* Beginnings of a path, and what lies above them. *)

LEMMA BeginningWalk ==
  ASSUME NEW t \in Path, NEW s \in Path, s # <<>>, IsPrefix(s, t)
  PROVE  /\ Len(s) \in 1..Len(t) /\ \A i \in 1..Len(s) : s[i] = t[i]
         /\ \A n \in 0..Len(s) : Walk[s][n] = Walk[t][n]
         /\ IsPrefix(Node(s), Node(t))
         /\ Spelt(t) => Spelt(s)
<1>0. Len(s) \in Nat /\ Len(t) \in Nat
  BY WalkStep
<1>1. Len(s) <= Len(t) /\ \A i \in 1..Len(s) : s[i] = t[i]
  BY PrefixByElements DEF Path
<1>2. Len(s) # 0
  BY DEF Path
<1>3. Len(s) \in 1..Len(t) /\ 1 \in 1..Len(s)
  BY <1>0, <1>1, <1>2
<1>4. Absolute(s) <=> Absolute(t)
  <2>1. t # <<>>
    BY <1>0, <1>1, <1>2
  <2> QED
    BY <1>1, <1>3, <2>1 DEF Absolute
<1>5. \A n \in 0..Len(s) : Walk[s][n] = Walk[t][n]
  BY <1>0, <1>1, <1>4, WalkSame
<1>6. IsPrefix(Node(s), Node(t))
  <2>1. Len(s) \in 0..Len(s) /\ Len(s) \in 0..Len(t) /\ Len(t) \in Len(s)..Len(t)
    BY <1>0, <1>1
  <2>2. IsPrefix(Walk[t][Len(s)], Walk[t][Len(t)])
    BY <2>1, WalkPrefix
  <2> QED
    BY <1>5, <2>1, <2>2 DEF Node
<1>7. Spelt(t) => Spelt(s)
  <2> SUFFICES ASSUME Spelt(t), NEW i \in 1..(Len(s) - 1)
               PROVE  s[i] = Sep \/ s[i + 1] = Sep
    BY DEF Spelt
  <2>1. i \in 1..(Len(t) - 1) /\ i \in 1..Len(s) /\ i + 1 \in 1..Len(s)
    BY <1>0, <1>1
  <2> QED
    BY <1>1, <2>1 DEF Spelt
<1> QED
  BY <1>1, <1>3, <1>5, <1>6, <1>7

(* A beginning that ends before a separator. *)
LEMMA UptoFacts ==
  ASSUME NEW s \in Path, NEW k \in 2..Len(s), s[k] = Sep
  PROVE  /\ Upto(s, k) \in Path /\ IsPrefix(Upto(s, k), s)
         /\ Len(Upto(s, k)) = k - 1 /\ Upto(s, k) # <<>>
         /\ Node(Upto(s, k)) = Walk[s][k]
<1>0. Len(s) \in Nat /\ k \in Nat /\ k - 1 \in 1..Len(s) /\ k - 1 \in 0..Len(s) /\ k # 0
      /\ k \in 1..Len(s)
  BY WalkStep
<1>1. Upto(s, k) = SubSeq(s, 1, k - 1)
  BY <1>0 DEF Upto
<1> DEFINE u == SubSeq(s, 1, k - 1)
<1>2. u \in Path /\ Len(u) = k - 1 /\ \A i \in 1..(k - 1) : u[i] = s[i]
  BY <1>0, Beginning DEF Path
<1>3. Node(u) = Walk[s][k - 1]
  BY <1>0, NodeOfBeginning
<1>4. Walk[s][k] = Walk[s][k - 1]
  BY <1>0, WalkStep
<1> HIDE DEF u
<1>5. IsPrefix(u, s)
  <2>1. Len(u) <= Len(s) /\ \A i \in 1..Len(u) : u[i] = s[i]
    BY <1>0, <1>2
  <2> QED
    BY <1>2, <2>1, PrefixByElements DEF Path
<1>6. u # <<>>
  BY <1>0, <1>2
<1> QED
  BY <1>1, <1>2, <1>3, <1>4, <1>5, <1>6 DEF u

(* What comes after a name that is not the last of the path. *)
LEMMA SeparatorAfter ==
  ASSUME NEW s \in Path, Spelt(s), NEW n \in 1..(Len(s) - 1), s[n] # Sep,
         NEW m \in (n + 1)..Len(s)
  PROVE  LastSep[s][m] \in (n + 1)..m /\ s[LastSep[s][m]] = Sep
<1>0. Len(s) \in Nat /\ n \in Nat /\ m \in Nat /\ m \in 0..Len(s) /\ n + 1 <= m
  BY WalkStep
<1>1. s[n + 1] = Sep
  BY DEF Spelt
<1> DEFINE k == LastSep[s][m]
<1>2. k \in 0..m /\ (k # 0 => s[k] = Sep) /\ \A i \in (k + 1)..m : s[i] # Sep
  BY <1>0, LastSepRange
<1> HIDE DEF k
<1>3. n + 1 \notin (k + 1)..m
  BY <1>1, <1>2
<1>4. k \in (n + 1)..m /\ k # 0
  BY <1>0, <1>2, <1>3
<1> QED
  BY <1>2, <1>4 DEF k

(* The parent of a directory that is there, or of what is not. *)
LEMMA ParentPath ==
  ASSUME NEW s \in Path, Spelt(s), NEW n \in 1..(Len(s) - 1), s[n] # Sep
  PROVE  LET u == Upto(s, LastSep[s][Len(s)]) IN
           u \in Path /\ u # <<>> /\ IsPrefix(u, s) /\ n <= Len(u)
<1>0. Len(s) \in Nat /\ n \in Nat /\ Len(s) \in (n + 1)..Len(s)
  BY WalkStep
<1> DEFINE k == LastSep[s][Len(s)]
<1>1. k \in (n + 1)..Len(s) /\ s[k] = Sep
  BY <1>0, SeparatorAfter
<1> HIDE DEF k
<1>2. k \in 2..Len(s) /\ n <= k - 1
  BY <1>0, <1>1
<1> QED
  BY <1>1, <1>2, UptoFacts DEF k

LEMMA AboveFacts ==
  ASSUME NEW s \in Path, Spelt(s), NEW n \in 1..Len(s), s[n] # Sep,
         Walk[s][n] # Node(s)
  PROVE  /\ Len(s) >= 2 /\ n < Len(s)
         /\ Above(s) \in Path /\ Above(s) # <<>> /\ IsPrefix(Above(s), s)
         /\ n <= Len(Above(s))
         /\ Node(s) # <<>> /\ IsPrefix(Node(Above(s)), Node(s))
         /\ Node(Above(s)) = Node(s) \/ Node(Above(s)) = Front(Node(s))
         /\ ~(s[Len(s)] = Sep /\ s[Len(s) - 1] = Sep) => Node(Above(s)) = Front(Node(s))
<1> DEFINE l == Len(s)
<1>0. l \in Nat /\ n \in Nat
  BY WalkStep
<1>1. n # l
  BY DEF Node
<1>2. n \in 1..(l - 1) /\ n + 1 \in 1..l
  BY <1>0, <1>1
<1>3. l # n + 1
  <2> SUFFICES ASSUME l = n + 1 PROVE FALSE
    OBVIOUS
  <2>1. s[l] = Sep /\ l - 1 = n
    BY <1>0, <1>2 DEF Spelt
  <2>2. Walk[s][l] = Walk[s][n]
    BY <1>2, <2>1, WalkStep
  <2> QED
    BY <2>2 DEF Node
<1>4. l - 1 \in (n + 1)..l /\ l \in 1..l /\ l - 1 \in 1..l /\ l - 2 \in 1..l
  BY <1>0, <1>2, <1>3
<1> DEFINE k == LastSep[s][l - 1]
<1>5. k \in (n + 1)..(l - 1) /\ s[k] = Sep
  BY <1>2, <1>4, SeparatorAfter
<1>6. Above(s) = Upto(s, k)
  BY DEF Above
<1>7. \A i \in (k + 1)..(l - 1) : s[i] # Sep
  <2>1. l - 1 \in 0..Len(s)
    BY <1>4
  <2> QED
    BY <2>1, LastSepRange
<1> HIDE DEF k
<1>8. k \in 2..l /\ k \in 1..l /\ k \in 0..l /\ n <= k - 1 /\ k <= l - 1 /\ k \in Nat
  BY <1>0, <1>5
<1>9. /\ Above(s) \in Path /\ IsPrefix(Above(s), s) /\ Above(s) # <<>>
      /\ Len(Above(s)) = k - 1 /\ Node(Above(s)) = Walk[s][k]
  BY <1>5, <1>6, <1>8, UptoFacts
<1>10. \A i \in 0..l : Walk[s][i] \in Seq(Names)
  BY WalkType
<1>11. \A i \in 1..l : s[i] # Sep => s[i] \in Names
  BY DEF Path
<1>12. \/ s[l] = Sep /\ s[l - 1] = Sep /\ Node(s) = Walk[s][k]
       \/ \E e \in Names : Node(s) = Append(Walk[s][k], e)
  <2>1. CASE k = l - 1
    <3>1. Walk[s][l] = IF s[l] = Sep THEN Walk[s][k] ELSE Append(Walk[s][k], s[l])
      BY <1>4, <2>1, WalkStep
    <3> QED
      BY <1>4, <1>5, <1>11, <2>1, <3>1 DEF Node
  <2>2. CASE k # l - 1
    <3>1. s[l - 1] # Sep
      BY <1>7, <1>8, <2>2
    <3>2. k = l - 2
      <4> SUFFICES ASSUME k # l - 2 PROVE FALSE
        OBVIOUS
      <4>1. l - 2 \in (k + 1)..(l - 1) /\ l - 2 \in 1..(l - 1) /\ (l - 2) + 1 = l - 1
        BY <1>0, <1>8, <2>2
      <4>2. s[l - 2] # Sep
        BY <1>7, <4>1
      <4> QED
        BY <3>1, <4>1, <4>2 DEF Spelt
    <3>3. s[l] = Sep
      <4>1. l - 1 \in 1..(l - 1) /\ (l - 1) + 1 = l
        BY <1>0, <1>4
      <4> QED
        BY <3>1, <4>1 DEF Spelt
    <3>4. Walk[s][l] = Walk[s][l - 1]
      BY <1>4, <3>3, WalkStep
    <3>5. Walk[s][l - 1] = Append(Walk[s][k], s[l - 1])
      <4>1. (l - 1) - 1 = k
        BY <1>0, <3>2
      <4> QED
        BY <1>4, <3>1, <4>1, WalkStep
    <3> QED
      BY <1>4, <1>11, <3>1, <3>4, <3>5 DEF Node
  <2> QED
    BY <2>1, <2>2
<1>13. Walk[s][k] \in Seq(Names) /\ Node(s) \in Seq(Names)
  BY <1>8, <1>10, NodeType
<1>14. ASSUME NEW e \in Names, Node(s) = Append(Walk[s][k], e)
       PROVE  Node(s) # <<>> /\ Front(Node(s)) = Walk[s][k]
  BY <1>13, <1>14, FrontOfAppended
<1>15. Node(s) # <<>>
  <2>1. IsPrefix(Walk[s][n], Node(s))
    <3>1. n \in 0..l /\ l \in n..l
      BY <1>0, <1>2
    <3> QED
      BY <3>1, WalkPrefix DEF Node
  <2>2. Walk[s][n] \in Seq(Names)
    BY <1>0, <1>2, <1>10
  <2> QED
    BY <1>13, <2>1, <2>2, PrefixOfFront
<1>16. IsPrefix(Node(Above(s)), Node(s))
  <2>1. l \in k..l
    BY <1>0, <1>8
  <2> QED
    BY <1>8, <1>9, <2>1, WalkPrefix DEF Node
<1>17. Len(s) >= 2 /\ n < Len(s) /\ n <= Len(Above(s))
  BY <1>0, <1>2, <1>8, <1>9
<1> HIDE DEF l
<1>18. Node(Above(s)) = Node(s) \/ Node(Above(s)) = Front(Node(s))
  BY <1>9, <1>12, <1>14
<1>19. ~(s[Len(s)] = Sep /\ s[Len(s) - 1] = Sep) => Node(Above(s)) = Front(Node(s))
  BY <1>9, <1>12, <1>14 DEF l
<1> QED
  BY <1>9, <1>15, <1>16, <1>17, <1>18, <1>19

-----------------------------------------------------------------------------
(* A sound call, and the beginnings of its path. *)

LEMMA OnWayDir ==
  ASSUME IInv, NEW p \in Procs, FoundInv(p), Sound(p),
         NEW node \in DOMAIN fs, IsPrefix(node, target(p))
  PROVE  Dir(node)
<1>1. fs[node] \in {"dir", "file"}
  BY DEF IInv, Types, Tree, Kinds
<1>2. fs[node] # "file"
  BY DEF FoundInv, Sound, Blocked
<1> QED
  BY <1>1, <1>2 DEF Dir

LEMMA StatOnWay ==
  ASSUME IInv, NEW p \in Procs, FoundInv(p), Sound(p),
         NEW s, s # <<>>, IsPrefix(Node(s), target(p))
  PROVE  \/ Stat(s) = "dir" /\ Dir(Node(s))
         \/ Stat(s) = "none" /\ Node(s) \notin DOMAIN fs
<1>1. CASE Node(s) \in DOMAIN fs
  <2>1. Dir(Node(s))
    BY <1>1, OnWayDir
  <2> QED
    BY <2>1 DEF Stat, Dir
<1>2. CASE Node(s) \notin DOMAIN fs
  BY <1>2 DEF Stat
<1> QED
  BY <1>1, <1>2

LEMMA PathFacts ==
  ASSUME IInv, NEW p \in Procs
  PROVE  /\ call[p].path \in Path /\ Spelt(call[p].path)
         /\ target(p) \in Seq(Names) /\ call[p].createParents \in BOOLEAN
<1>1. call[p].path \in Targets \union Removals /\ call[p].createParents \in BOOLEAN
  BY DEF IInv, Types, Calls
<1>2. call[p].path \in Path /\ target(p) \in Seq(Names)
  BY TargetType DEF IInv
<1> QED
  BY <1>1, <1>2, SpellingAssumption

LEMMA AnchorFacts ==
  ASSUME IInv, NEW p \in Procs, FoundInv(p), Sound(p)
  PROVE  /\ Anchors(p) # {} /\ call[p].path # <<>>
         /\ \A n \in Anchors(p) :
              /\ n \in 1..(Len(call[p].path) - 1) /\ call[p].path[n] # Sep
              /\ Dir(Walk[call[p].path][n])
<1> DEFINE path == call[p].path
<1>1. path \in Path
  BY PathFacts
<1>2. Len(path) \in Nat
  BY <1>1, WalkStep
<1>3. PICK n \in 1..(Len(path) - 1) :
         /\ Last(SubSeq(path, 1, n)) # Sep
         /\ Node(SubSeq(path, 1, n)) \in DOMAIN found[p]
         /\ found[p][Node(SubSeq(path, 1, n))] = "dir"
  BY DEF Sound, Anchored
<1>4. n \in 1..Len(path) /\ n \in 0..Len(path) /\ n \in 1..n
  BY <1>2, <1>3
<1>5. Node(SubSeq(path, 1, n)) = Walk[path][n]
  <2> HIDE DEF path
  <2> QED
    BY <1>1, <1>4, NodeOfBeginning
<1>6. Last(SubSeq(path, 1, n)) = path[n]
  <2> HIDE DEF path
  <2>1. Len(SubSeq(path, 1, n)) = n /\ SubSeq(path, 1, n)[n] = path[n]
    BY <1>1, <1>4, Beginning DEF Path
  <2> QED
    BY <2>1 DEF Last
<1>7. n \in Anchors(p)
  BY <1>3, <1>5, <1>6 DEF Anchors
<1>8. path # <<>>
  BY <1>2, <1>4
<1> QED
  BY <1>7, <1>8 DEF Anchors, FoundInv

LEMMA BeginsFacts ==
  ASSUME IInv, NEW p \in Procs, FoundInv(p), Sound(p), NEW s \in Path, Begins(p, s)
  PROVE  /\ s # <<>> /\ Spelt(s) /\ IsPrefix(Node(s), target(p))
         /\ Len(s) \in Nat /\ Node(s) \in Seq(Names)
         /\ \A n \in Anchors(p) :
              n \in 1..Len(s) /\ s[n] # Sep /\ Dir(Walk[s][n])
<1> DEFINE path == call[p].path
<1>1. path \in Path /\ Spelt(path) /\ Len(s) \in Nat /\ Node(s) \in Seq(Names)
  BY PathFacts, WalkStep, NodeType
<1>2. IsPrefix(s, path) /\ \A n \in Anchors(p) : n <= Len(s)
  BY DEF Begins
<1>3. /\ Anchors(p) # {}
      /\ \A n \in Anchors(p) :
           n \in 1..(Len(path) - 1) /\ path[n] # Sep /\ Dir(Walk[path][n])
  BY AnchorFacts
<1> HIDE DEF path
<1>4. \A n \in Anchors(p) : n \in 1..Len(s) /\ n \in 0..Len(s)
  <2>1. Len(path) \in Nat
    BY <1>1, WalkStep
  <2> QED
    BY <1>1, <1>2, <1>3, <2>1
<1>5. s # <<>>
  BY <1>1, <1>3, <1>4
<1>6. /\ \A i \in 1..Len(s) : s[i] = path[i]
      /\ \A n \in 0..Len(s) : Walk[s][n] = Walk[path][n]
      /\ IsPrefix(Node(s), Node(path)) /\ Spelt(s)
  BY <1>1, <1>2, <1>5, BeginningWalk
<1> QED
  BY <1>1, <1>3, <1>4, <1>5, <1>6 DEF target, path

(* Above a beginning that leads to nothing there is another. *)
LEMMA MissingAbove ==
  ASSUME IInv, NEW p \in Procs, FoundInv(p), Sound(p), NEW s \in Path, Begins(p, s),
         Node(s) \notin DOMAIN fs
  PROVE  /\ Len(s) >= 2 /\ \A n \in Anchors(p) : n < Len(s)
         /\ Above(s) \in Path /\ Begins(p, Above(s))
         /\ Node(s) # <<>> /\ IsPrefix(Node(Above(s)), Node(s))
         /\ Node(Above(s)) = Node(s) \/ Node(Above(s)) = Front(Node(s))
         /\ ~(s[Len(s)] = Sep /\ s[Len(s) - 1] = Sep) => Node(Above(s)) = Front(Node(s))
<1>1. /\ s # <<>> /\ Spelt(s) /\ Len(s) \in Nat
      /\ \A n \in Anchors(p) : n \in 1..Len(s) /\ s[n] # Sep /\ Dir(Walk[s][n])
  BY BeginsFacts
<1>2. \A n \in Anchors(p) : Walk[s][n] # Node(s)
  BY <1>1 DEF Dir
<1>3. \A n \in Anchors(p) :
        /\ Len(s) >= 2 /\ n < Len(s)
        /\ Above(s) \in Path /\ Above(s) # <<>> /\ IsPrefix(Above(s), s)
        /\ n <= Len(Above(s))
        /\ Node(s) # <<>> /\ IsPrefix(Node(Above(s)), Node(s))
        /\ Node(Above(s)) = Node(s) \/ Node(Above(s)) = Front(Node(s))
        /\ ~(s[Len(s)] = Sep /\ s[Len(s) - 1] = Sep) => Node(Above(s)) = Front(Node(s))
  BY <1>1, <1>2, AboveFacts
<1>4. Anchors(p) # {}
  BY AnchorFacts
<1>5. IsPrefix(Above(s), call[p].path)
  <2>1. IsPrefix(Above(s), s) /\ IsPrefix(s, call[p].path) /\ Above(s) \in Path
    BY <1>3, <1>4 DEF Begins
  <2> QED
    BY <2>1, PathFacts, PrefixTransitive DEF Path
<1>6. Begins(p, Above(s))
  BY <1>3, <1>5 DEF Begins
<1> QED
  BY <1>3, <1>4, <1>6

LEMMA NewFileBegins ==
  ASSUME IInv, NEW p \in Procs, FoundInv(p), Sound(p), NEW s \in Path, Begins(p, s)
  PROVE  /\ NewFile(s) \in Files /\ Begins(p, NewFile(s).path)
         /\ Node(NewFile(s).path) = Node(s)
<1>1. /\ s # <<>> /\ IsPrefix(Node(s), target(p)) /\ Len(s) \in Nat
      /\ \A n \in Anchors(p) : n \in 1..Len(s) /\ s[n] # Sep
  BY BeginsFacts
<1>2. NewFile(s) \in Files /\ Node(NewFile(s).path) = Node(s)
  BY <1>1, PathFacts, NewFileLeads DEF Leads
<1>3. NewFile(s).path = s \/ (NewFile(s).path = Front(s) /\ Len(s) > 1 /\ Last(s) = Sep)
  <2>1. CASE Stat(s) = "dir"
    <3> DEFINE pruned == IF Len(s) > 1 /\ Last(s) = Sep THEN Front(s) ELSE s
    <3>1. NewFile(s) = [path |-> pruned, dir |-> Append(pruned, Sep)]
      BY <2>1 DEF NewFile
    <3>2. NewFile(s).path = pruned
      BY <3>1
    <3> QED
      BY <3>2
  <2>2. CASE Stat(s) # "dir"
    BY <2>2 DEF NewFile
  <2> QED
    BY <2>1, <2>2
<1>4. CASE NewFile(s).path = Front(s) /\ Len(s) > 1 /\ Last(s) = Sep
  <2>1. /\ Front(s) \in Path /\ Len(Front(s)) = Len(s) - 1 /\ IsPrefix(Front(s), s)
    BY <1>1, FrontFacts DEF Path
  <2>2. s[Len(s)] = Sep
    BY <1>4 DEF Last
  <2>3. \A n \in Anchors(p) : n # Len(s)
    BY <1>1, <2>2
  <2>4. \A n \in Anchors(p) : n <= Len(Front(s))
    BY <1>1, <2>1, <2>3
  <2>5. IsPrefix(Front(s), call[p].path)
    <3>1. IsPrefix(s, call[p].path)
      BY DEF Begins
    <3> QED
      BY <2>1, <3>1, PathFacts, PrefixTransitive DEF Path
  <2> QED
    BY <1>2, <1>4, <2>4, <2>5 DEF Begins
<1> QED
  BY <1>2, <1>3, <1>4

(* File::getParentDir on the way: of what is missing, and of a directory. *)
LEMMA ParentBegins ==
  ASSUME IInv, NEW p \in Procs, FoundInv(p), Sound(p),
         NEW file \in Files, Begins(p, file.path)
  PROVE  LET parent == ParentDir(file) IN
         /\ Node(file.path) \notin DOMAIN fs =>
              /\ parent \in Files /\ Begins(p, parent.path)
              /\ Node(parent.path) = Node(Above(file.path))
         /\ Dir(Node(file.path)) /\ (\A n \in Anchors(p) : n < Len(file.path)) =>
              /\ parent \in Files /\ Begins(p, parent.path)
              /\ IsPrefix(Node(parent.path), Node(file.path))
<1> DEFINE s == file.path
           parent == ParentDir(file)
<1>0. s \in Path
  BY DEF Files
<1>1. /\ s # <<>> /\ Spelt(s) /\ Len(s) \in Nat /\ IsPrefix(Node(s), target(p))
      /\ \A n \in Anchors(p) : n \in 1..Len(s) /\ s[n] # Sep
  BY <1>0, BeginsFacts
<1>2. \/ Stat(s) = "dir" /\ Dir(Node(s))
      \/ Stat(s) = "none" /\ Node(s) \notin DOMAIN fs
  BY <1>1, StatOnWay
<1>3. ASSUME Node(s) \notin DOMAIN fs
      PROVE  /\ parent \in Files /\ Begins(p, parent.path)
             /\ Node(parent.path) = Node(Above(s))
  <2>1. Stat(s) = "none"
    BY <1>2, <1>3 DEF Dir
  <2>2. Len(s) >= 2 /\ Above(s) \in Path /\ Begins(p, Above(s))
    BY <1>0, <1>3, MissingAbove
  <2>3. parent = NewFile(Above(s))
    <3>1. ~(Len(s) < 2)
      BY <1>1, <2>2
    <3> QED
      BY <2>1, <3>1 DEF ParentDir, Above
  <2> QED
    BY <2>2, <2>3, NewFileBegins
<1>4. ASSUME Dir(Node(s)), \A n \in Anchors(p) : n < Len(s)
      PROVE  /\ parent \in Files /\ Begins(p, parent.path)
             /\ IsPrefix(Node(parent.path), Node(s))
  <2> DEFINE u == Upto(s, LastSep[s][Len(s)])
  <2>1. Stat(s) = "dir"
    BY <1>2, <1>4 DEF Dir
  <2>2. parent = NewFile(u)
    BY <2>1 DEF ParentDir
  <2>3. \A n \in Anchors(p) : n \in 1..(Len(s) - 1) /\ s[n] # Sep
    BY <1>1, <1>4
  <2>4. \A n \in Anchors(p) : u \in Path /\ u # <<>> /\ IsPrefix(u, s) /\ n <= Len(u)
    <3> HIDE DEF s
    <3> QED
      BY <1>0, <1>1, <2>3, ParentPath
  <2>5. Anchors(p) # {}
    BY AnchorFacts
  <2> HIDE DEF u
  <2>6. IsPrefix(u, call[p].path)
    <3>1. IsPrefix(s, call[p].path) /\ IsPrefix(u, s) /\ u \in Path
      BY <2>4, <2>5 DEF Begins
    <3> QED
      BY <1>0, <3>1, PathFacts, PrefixTransitive DEF Path
  <2>7. u \in Path /\ Begins(p, u) /\ IsPrefix(Node(u), Node(s))
    BY <1>0, <2>4, <2>5, <2>6, BeginningWalk DEF Begins
  <2> QED
    BY <2>2, <2>7, NewFileBegins
<1> QED
  BY <1>3, <1>4

-----------------------------------------------------------------------------
(* What the clauses rely on: that directories stay, and that a call keeps   *)
(* what it found.                                                           *)

Steady(p) ==
  /\ call' = call /\ found'[p] = found[p]
  /\ \A node \in DOMAIN fs : fs[node] = "dir" => node \in DOMAIN fs' /\ fs'[node] = "dir"

LEMMA SoundKept ==
  ASSUME NEW p, Steady(p)
  PROVE  /\ Sound(p)' <=> Sound(p)
         /\ Anchors(p)' = Anchors(p) /\ target(p)' = target(p)
         /\ \A s : Begins(p, s)' <=> Begins(p, s)
         /\ \A node : Dir(node) => Dir(node)'
         /\ \A file : Ready(file) => Ready(file)'
<1>1. call'[p] = call[p] /\ Makers' = Makers /\ found'[p] = found[p]
  BY DEF Steady, Makers
<1>2. target(p)' = target(p) /\ Anchors(p)' = Anchors(p)
  BY <1>1 DEF target, Anchors
<1>3. Sound(p)' <=> Sound(p)
  BY <1>1, <1>2 DEF Sound, Anchored, Blocked, OwnParent
<1>4. \A s : Begins(p, s)' <=> Begins(p, s)
  BY <1>1, <1>2 DEF Begins
<1>5. \A node : Dir(node) => Dir(node)'
  BY DEF Dir, Steady
<1>6. \A file : Ready(file) => Ready(file)'
  BY <1>5 DEF Ready
<1> QED
  BY <1>2, <1>3, <1>4, <1>5, <1>6

LEMMA FirstKept ==
  ASSUME NEW p, NEW f, Steady(p), FirstWay(p, f)
  PROVE  FirstWay(p, f)'
<1>1. /\ Sound(p)' <=> Sound(p)
      /\ Anchors(p)' = Anchors(p) /\ target(p)' = target(p)
      /\ \A s : Begins(p, s)' <=> Begins(p, s)
      /\ \A node : Dir(node) => Dir(node)'
      /\ call' = call
  BY SoundKept DEF Steady
<1> QED
  BY <1>1 DEF FirstWay

LEMMA SecondKept ==
  ASSUME NEW p, NEW f, NEW g, Steady(p), SecondWay(p, f, g)
  PROVE  SecondWay(p, f, g)'
<1>1. /\ target(p)' = target(p)
      /\ \A s : Begins(p, s)' <=> Begins(p, s)
      /\ \A node : Dir(node) => Dir(node)'
      /\ \A file : Ready(file) => Ready(file)'
  BY SoundKept
<1> QED
  BY <1>1 DEF SecondWay

LEMMA WayKept ==
  ASSUME NEW p, Steady(p), stack'[p] = stack[p], WayInv(p)
  PROVE  WayInv(p)'
<1>1. stack[p] # <<>> => FirstWay(p, stack[p][1])'
  BY FirstKept DEF WayInv
<1>2. Sound(p) /\ Len(stack[p]) = 2 => SecondWay(p, stack[p][1], stack[p][2])'
  BY SecondKept DEF WayInv
<1>3. /\ Sound(p)' <=> Sound(p)
      /\ \A file : Ready(file) => Ready(file)'
  BY SoundKept
<1>4. Sound(p) /\ Len(stack[p]) = 1 /\ stack[p][1].pc = "descend" =>
        Ready(Line(stack[p][1])[1])'
  BY <1>3 DEF WayInv
<1> QED
  BY <1>1, <1>2, <1>3, <1>4 DEF WayInv

(* The innermost activation goes on. *)
LEMMA WayReplace ==
  ASSUME IInv, NEW p \in Procs, Running(p), WayInv(p), Steady(p),
         NEW f \in Frames, Replace(p, f), f.pc \notin {"exists", "rm"},
         Len(stack[p]) = 1 => FirstWay(p, f),
         Len(stack[p]) = 1 /\ Sound(p) /\ f.pc = "descend" => Ready(Line(f)[1]),
         Len(stack[p]) = 2 /\ Sound(p) => SecondWay(p, stack[p][1], f)
  PROVE  WayInv(p)' /\ ~Waiting(p)'
<1> DEFINE n == Len(stack[p])
           st == Append(Front(stack[p]), f)
<1>1. /\ n = 1 \/ n = 2
      /\ Front(stack[p]) \in Seq(Frames) /\ Len(Front(stack[p])) = n - 1
      /\ \A i \in 1..(n - 1) : Front(stack[p])[i] = stack[p][i]
  BY Innermost
<1>2. /\ st \in Seq(Frames) /\ Len(st) = (n - 1) + 1
      /\ \A i \in 1..(n - 1) : st[i] = Front(stack[p])[i]
      /\ st[(n - 1) + 1] = f
  BY <1>1, Extended
<1>3. stack'[p] = st
  BY DEF Replace, IInv, Types
<1> HIDE DEF st, n
<1>4. /\ Len(st) = n /\ st[n] = f /\ st # <<>>
      /\ n = 2 => st[1] = stack[p][1]
  BY <1>1, <1>2
<1>5. /\ Sound(p)' <=> Sound(p)
      /\ \A file : Ready(file) => Ready(file)'
  BY SoundKept
<1>6. frame(p)' = f
  BY <1>3, <1>4 DEF frame, Last
<1>7. ~Waiting(p)'
  BY <1>6 DEF Waiting
<1>8. CASE n = 1
  <2>1. FirstWay(p, f)'
    BY <1>8, FirstKept DEF n
  <2>2. Sound(p) /\ f.pc = "descend" => Ready(Line(f)[1])'
    BY <1>5, <1>8 DEF n
  <2>3. stack'[p][1] = f /\ Len(stack'[p]) # 2
    BY <1>3, <1>4, <1>8
  <2>4. WayInv(p)'
    BY <1>5, <2>1, <2>2, <2>3 DEF WayInv
  <2> QED
    BY <1>7, <2>4
<1>9. CASE n = 2
  <2>1. PICK first : first = stack[p][1]
    OBVIOUS
  <2>2. FirstWay(p, first)
    BY <2>1 DEF WayInv, Running
  <2>3. FirstWay(p, first)'
    BY <2>2, FirstKept
  <2>4. Sound(p) => SecondWay(p, first, f)'
    BY <1>9, <2>1, SecondKept DEF n
  <2>5. stack'[p][1] = first /\ stack'[p][2] = f /\ Len(stack'[p]) # 1
    BY <1>3, <1>4, <1>9, <2>1
  <2>6. WayInv(p)'
    BY <1>5, <2>3, <2>4, <2>5 DEF WayInv
  <2> QED
    BY <1>7, <2>6
<1> QED
  BY <1>1, <1>8, <1>9

(* The path of a sound call begins itself, and so does what is in the line. *)
LEMMA LineFacts ==
  ASSUME IInv, NEW p \in Procs, FoundInv(p), Sound(p),
         NEW f \in Frames, FirstWay(p, f), f.pc \in {"parent", "climb", "up", "descend"}
  PROVE  /\ f.file.path = call[p].path /\ Begins(p, f.file.path)
         /\ Line(f) \in Seq(Files) /\ Len(Line(f)) = Len(f.ancestors) + 1
         /\ Len(f.ancestors) \in Nat /\ DOMAIN f.ancestors = 1..Len(f.ancestors)
         /\ \A k \in DOMAIN f.ancestors :
              Line(f)[k] = f.ancestors[k] /\ f.ancestors[k] \in Files
         /\ Line(f)[Len(f.ancestors) + 1] = f.file
         /\ \A k \in 1..(Len(f.ancestors) + 1) :
              Line(f)[k] \in Files /\ Begins(p, Line(f)[k].path)
<1>1. f.ancestors \in Seq(Files) /\ f.file \in Files
  BY DEF Frames
<1>2. /\ Line(f) \in Seq(Files) /\ Len(Line(f)) = Len(f.ancestors) + 1
      /\ Len(f.ancestors) \in Nat /\ DOMAIN f.ancestors = 1..Len(f.ancestors)
      /\ \A k \in 1..Len(f.ancestors) :
           Line(f)[k] = f.ancestors[k] /\ f.ancestors[k] \in Files
      /\ Line(f)[Len(f.ancestors) + 1] = f.file
  BY <1>1, Extended DEF Line
<1>3. f.file.path = call[p].path
  BY DEF FirstWay, Labels
<1>4. Begins(p, call[p].path)
  <2>1. call[p].path \in Path
    BY PathFacts
  <2>2. IsPrefix(call[p].path, call[p].path)
    BY <2>1, PrefixItself DEF Path
  <2>3. Len(call[p].path) \in Nat
    BY <2>1, WalkStep
  <2>4. \A n \in Anchors(p) : n <= Len(call[p].path)
    BY <2>3, AnchorFacts
  <2> QED
    BY <2>2, <2>4 DEF Begins
<1>5. \A k \in 1..Len(f.ancestors) : Begins(p, f.ancestors[k].path)
  BY <1>2 DEF FirstWay
<1>6. ASSUME NEW k \in 1..(Len(f.ancestors) + 1)
      PROVE  Line(f)[k] \in Files /\ Begins(p, Line(f)[k].path)
  <2>1. k \in 1..Len(f.ancestors) \/ k = Len(f.ancestors) + 1
    BY <1>2
  <2> QED
    BY <1>1, <1>2, <1>3, <1>4, <1>5, <2>1
<1> QED
  BY <1>2, <1>3, <1>4, <1>6

LEMMA AboveType ==
  ASSUME NEW s \in Path, s # <<>>
  PROVE  Above(s) \in Path /\ Node(Above(s)) \in Seq(Names)
<1>1. Len(s) \in Nat /\ Len(s) # 0
  BY WalkStep DEF Path
<1>2. Len(s) - 1 \in 0..Len(s)
  BY <1>1
<1> DEFINE k == LastSep[s][Len(s) - 1]
<1>3. k \in 0..(Len(s) - 1)
  BY <1>2, LastSepRange
<1>4. Above(s) = Upto(s, k) /\ k \in 0..Len(s)
  BY <1>1, <1>3 DEF Above
<1>5. Leads(s, Node(s)) /\ Node(s) \in Seq(Names)
  BY NodeType, PrefixItself DEF Leads
<1> HIDE DEF k
<1>6. Above(s) \in Path
  BY <1>4, <1>5, UptoLeads
<1> QED
  BY <1>6, NodeType

(* It returns, its directory being there. *)
LEMMA WayReturn ==
  ASSUME IInv, NEW p \in Procs, Running(p), FoundInv(p), WayInv(p), Steady(p), Return(p),
         Sound(p) => Dir(Node(frame(p).file.path))
  PROVE  WayInv(p)' /\ ~Waiting(p)'
<1> DEFINE n == Len(stack[p])
           st == Front(stack[p])
<1>1. /\ stack[p] \in Seq(Frames) /\ (n = 1 \/ n = 2) /\ frame(p) = stack[p][n]
      /\ st \in Seq(Frames) /\ Len(st) = n - 1
      /\ \A i \in 1..(n - 1) : st[i] = stack[p][i]
  BY Innermost
<1>2. stack'[p] = st
  BY DEF Return, IInv, Types
<1>3. StackInv(p)
  BY DEF IInv
<1> HIDE DEF st, n
<1>4. CASE n = 1
  <2>1. st = <<>> /\ Len(st) # 1 /\ Len(st) # 2
    BY <1>1, <1>4
  <2> QED
    BY <1>2, <2>1 DEF WayInv, Waiting, Running
<1>5. CASE n = 2
  <2>f. PICK f : f = stack[p][1]
    OBVIOUS
  <2>g. PICK file : file = Line(f)[1]
    OBVIOUS
  <2>1. Len(st) = 1 /\ st # <<>> /\ st[1] = f /\ frame(p) = stack[p][2] /\ f \in Frames
    <3>1. Len(st) = 1 /\ 1 \in 1..(n - 1) /\ 1 \in DOMAIN stack[p]
      BY <1>1, <1>5 DEF n
    <3>2. stack[p][1] \in Frames /\ st # <<>> /\ st[1] = stack[p][1]
      BY <1>1, <3>1
    <3> QED
      BY <1>1, <1>5, <2>f, <3>1, <3>2
  <2>2. f.pc = "descend"
    BY <1>3, <1>5, <2>f DEF StackInv, n
  <2>3. FirstWay(p, f)'
    <3>1. FirstWay(p, f)
      BY <2>f DEF WayInv, Running
    <3> QED
      BY <3>1, FirstKept
  <2>4. /\ Sound(p)' <=> Sound(p)
        /\ \A g : Ready(g) => Ready(g)'
    BY SoundKept
  <2>5. ASSUME Sound(p) PROVE Ready(file)
    <3>1. SecondWay(p, f, frame(p))
      BY <1>5, <2>f, <2>1, <2>5 DEF WayInv, n
    <3>2. IsPrefix(Node(Above(file.path)), Node(frame(p).file.path))
      BY <2>g, <3>1 DEF SecondWay, Link
    <3>3. Dir(Node(frame(p).file.path))
      BY <2>5
    <3>4. Node(Above(file.path)) \in Seq(Names)
      <4>1. FirstWay(p, f)
        BY <2>f DEF WayInv, Running
      <4>2. Len(f.ancestors) \in Nat
        BY <2>1, <2>2, <2>5, <4>1, LineFacts
      <4>3. 1 \in 1..(Len(f.ancestors) + 1)
        BY <4>2
      <4>4. file \in Files /\ Begins(p, file.path)
        BY <2>g, <2>1, <2>2, <2>5, <4>1, <4>3, LineFacts
      <4>5. file.path \in Path /\ file.path # <<>>
        BY <2>5, <4>4, BeginsFacts DEF Files
      <4> QED
        BY <4>5, AboveType
    <3>5. Dir(Node(Above(file.path)))
      BY <3>2, <3>3, <3>4, TreeClosed DEF Dir, IInv, Types
    <3> QED
      BY <3>5 DEF Ready
  <2>6. Sound(p) => Ready(file)'
    BY <2>4, <2>5
  <2>7. WayInv(p)'
    <3>1. Len(st) # 2
      BY <2>1
    <3> QED
      BY <1>2, <2>g, <2>1, <2>3, <2>4, <2>6, <3>1 DEF WayInv
  <2>8. frame(p)' = f
    BY <1>2, <2>1 DEF frame, Last
  <2> QED
    BY <2>2, <2>7, <2>8 DEF Waiting
<1> QED
  BY <1>1, <1>4, <1>5

(* It throws. *)
LEMMA WayThrow ==
  ASSUME IInv, NEW p \in Procs, Throw(p)
  PROVE  WayInv(p)' /\ ~Running(p)'
<1>1. stack'[p] = <<>>
  BY DEF Throw, IInv, Types
<1>2. Len(<<>>) # 1 /\ Len(<<>>) # 2
  OBVIOUS
<1> QED
  BY <1>1, <1>2 DEF WayInv, Running

-----------------------------------------------------------------------------
(* The steps of a process itself. *)

LEMMA QuietSteady ==
  ASSUME NEW p, UNCHANGED <<fs, history>>
  PROVE  Steady(p)
BY DEF Steady, history, others

(* The innermost activation goes to another place, and is the same else. *)
LEMMA WayGoto ==
  ASSUME IInv, NEW p \in Procs, Running(p), WayInv(p), Steady(p),
         NEW label \in Labels \ {"exists", "rm"}, Goto(p, label),
         ASSUME NEW f \in Frames, f.pc = label, f.file = frame(p).file,
                f.parentDir = frame(p).parentDir, f.ancestors = frame(p).ancestors
         PROVE  /\ Len(stack[p]) = 1 => FirstWay(p, f)
                /\ Len(stack[p]) = 1 /\ Sound(p) /\ label = "descend" => Ready(Line(f)[1])
                /\ Len(stack[p]) = 2 /\ Sound(p) => SecondWay(p, stack[p][1], f)
  PROVE  WayInv(p)' /\ ~Waiting(p)'
<1>1. frame(p) \in Frames
  BY Innermost
<1>2. PICK f : f = [frame(p) EXCEPT !.pc = label]
  OBVIOUS
<1>3. /\ f \in Frames /\ f.pc = label /\ f.file = frame(p).file
      /\ f.parentDir = frame(p).parentDir /\ f.ancestors = frame(p).ancestors
  BY <1>1, <1>2 DEF Frames
<1>4. Replace(p, f)
  BY <1>2 DEF Goto
<1>5. /\ Len(stack[p]) = 1 => FirstWay(p, f)
      /\ Len(stack[p]) = 1 /\ Sound(p) /\ label = "descend" => Ready(Line(f)[1])
      /\ Len(stack[p]) = 2 /\ Sound(p) => SecondWay(p, stack[p][1], f)
  BY <1>3
<1> QED
  BY <1>3, <1>4, <1>5, WayReplace

LEMMA CheckSelfWay ==
  ASSUME IInv, NEW p \in Procs, FoundInv(p), WayInv(p), CheckSelf(p)
  PROVE  WayInv(p)' /\ ~Waiting(p)'
<1> DEFINE path == frame(p).file.path
<1>1. Running(p) /\ frame(p).pc = "exists" /\ UNCHANGED <<fs, history>> /\ Steady(p)
  BY QuietSteady DEF CheckSelf, At
<1>2. \/ Stat(path) = "dir" /\ Return(p)
      \/ Stat(path) = "file" /\ Throw(p)
      \/ Stat(path) = "none" /\ Goto(p, "parent") /\ UNCHANGED result
  BY DEF CheckSelf
<1>3. CASE Stat(path) = "dir" /\ Return(p)
  <2>1. Dir(Node(path))
    BY <1>3, StatFacts DEF Dir, IInv, Types
  <2> QED
    BY <1>1, <1>3, <2>1, WayReturn
<1>4. CASE Stat(path) = "file" /\ Throw(p)
  BY <1>4, WayThrow DEF Waiting
<1>5. CASE Stat(path) = "none" /\ Goto(p, "parent") /\ UNCHANGED result
  <2>1. ASSUME NEW f \in Frames, f.pc = "parent", f.file = frame(p).file,
               f.parentDir = frame(p).parentDir, f.ancestors = frame(p).ancestors
        PROVE  /\ Len(stack[p]) = 1 => FirstWay(p, f)
               /\ Len(stack[p]) = 2 /\ Sound(p) => SecondWay(p, stack[p][1], f)
    <3>1. CASE Len(stack[p]) = 1
      <4>1. frame(p) = stack[p][1]
        BY <1>1, <3>1, Innermost
      <4>2. FirstWay(p, frame(p)) /\ FirstInv(p, frame(p))
        BY <1>1, <4>1, Innermost DEF WayInv, Running
      <4>3. path = call[p].path
        <5> SUFFICES ASSUME path # <<>>, Dir(target(p)) PROVE FALSE
          BY <1>1, <4>2 DEF FirstWay
        <5>1. Node(path) = target(p)
          BY <4>2 DEF FirstInv
        <5>2. Stat(path) = "dir"
          BY <5>1 DEF Stat, Dir
        <5> QED
          BY <1>5, <5>2
      <4>4. f.ancestors = <<>> /\ DOMAIN f.ancestors = {}
        BY <1>1, <2>1, <4>2 DEF FirstWay
      <4>5. FirstWay(p, f)
        BY <2>1, <4>3, <4>4 DEF FirstWay
      <4> QED
        BY <3>1, <4>5
    <3>2. CASE Len(stack[p]) = 2
      <4>1. frame(p) = stack[p][2]
        BY <1>1, <3>2, Innermost
      <4>2. Sound(p) => SecondWay(p, stack[p][1], frame(p))
        BY <3>2, <4>1 DEF WayInv
      <4>3. Sound(p) => SecondWay(p, stack[p][1], f)
        BY <1>1, <2>1, <4>2 DEF SecondWay
      <4> QED
        BY <3>2, <4>3
    <3> QED
      BY <3>1, <3>2
  <2>2. "parent" \in Labels \ {"exists", "rm"} /\ "parent" # "descend"
    BY DEF Labels
  <2> HIDE DEF path
  <2> QED
    BY <1>1, <1>5, <2>1, <2>2, WayGoto
<1> QED
  BY <1>2, <1>3, <1>4, <1>5

(* What a process that is at a label of mkdir works for. *)
LEMMA SeparatorsApart ==
  ASSUME IInv, NEW p \in Procs, FoundInv(p), Sound(p), target(p) \notin DOMAIN fs,
         Begins(p, call[p].path)
  PROVE  /\ Node(Above(call[p].path)) = Front(target(p)) /\ target(p) # <<>>
         /\ Front(target(p)) # target(p) /\ Front(target(p)) \in Seq(Names)
<1> DEFINE s == call[p].path
<1>1. s \in Path /\ Node(s) = target(p)
  BY PathFacts DEF target
<1>2. /\ Len(s) >= 2 /\ Node(s) # <<>>
      /\ ~(s[Len(s)] = Sep /\ s[Len(s) - 1] = Sep) => Node(Above(s)) = Front(Node(s))
  BY <1>1, MissingAbove
<1>3. Len(s) \in Nat
  BY <1>1, WalkStep
<1>4. ~(s[Len(s)] = Sep /\ s[Len(s) - 1] = Sep)
  BY <1>2, <1>3 DEF Sound, OwnParent
<1>5. Front(target(p)) # target(p) /\ Front(target(p)) \in Seq(Names)
  BY <1>1, <1>2, PathFacts, FrontFacts
<1> QED
  BY <1>1, <1>2, <1>4, <1>5

LEMMA FindParentWay ==
  ASSUME IInv, NEW p \in Procs, FoundInv(p), WayInv(p), FindParent(p)
  PROVE  WayInv(p)' /\ ~Waiting(p)'
<1>1. Running(p) /\ frame(p).pc = "parent" /\ UNCHANGED <<fs, history>> /\ Steady(p)
  BY QuietSteady DEF FindParent, At
<1>2. frame(p) \in Frames /\ ActivationInv(p, frame(p))
  BY <1>1, Innermost
<1> DEFINE parent == ParentDir(frame(p).file)
           label == IF frame(p).createParents THEN "climb" ELSE "check"
<1>3. parent \in Files
  BY <1>2, ParentLeads, TargetType DEF IInv, Frames, ActivationInv
<1>4. PICK f : f = [frame(p) EXCEPT !.parentDir = parent, !.pc = label]
  OBVIOUS
<1>5. Replace(p, f)
  BY <1>4 DEF FindParent
<1> HIDE DEF parent
<1>6. f = [file |-> frame(p).file, createParents |-> frame(p).createParents,
           parentDir |-> parent, ancestors |-> frame(p).ancestors, pc |-> label]
  BY <1>2, <1>4 DEF Frames
<1>7. /\ f \in Frames /\ f.pc = label /\ f.file = frame(p).file
      /\ f.createParents = frame(p).createParents
      /\ f.parentDir = parent /\ f.ancestors = frame(p).ancestors
  BY <1>2, <1>3, <1>6 DEF Frames, Labels
<1>8. CASE Len(stack[p]) = 1
  <2>1. FirstWay(p, frame(p))
    BY <1>1, <1>8, Innermost DEF WayInv, Running
  <2>2. f.file.path = call[p].path /\ f.ancestors = <<>>
    BY <1>1, <1>7, <2>1 DEF FirstWay, Labels
  <2>3. DOMAIN f.ancestors = {} /\ Line(f) = <<f.file>> /\ Line(f)[1] = f.file
    BY <2>2 DEF Line
  <2>4. ASSUME Sound(p)
        PROVE  /\ Begins(p, parent.path)
               /\ \/ Dir(Node(f.file.path)) /\ Dir(Node(parent.path))
                  \/ Link(parent, f.file)
               /\ Dir(target(p)) \/ Node(parent.path) = Front(target(p))
               /\ Dir(target(p)) \/ Node(parent.path) # target(p)
    <3>1. f.file \in Files /\ Begins(p, f.file.path) /\ Node(f.file.path) = target(p)
      <4>1. Begins(p, frame(p).file.path)
        BY <1>1, <1>2, <2>1, <2>4, LineFacts
      <4> QED
        BY <1>7, <2>2, <4>1 DEF Frames, target
    <3>2. parent = ParentDir(f.file)
      BY <1>7 DEF parent
    <3>3. CASE target(p) \notin DOMAIN fs
      <4>1. Begins(p, parent.path) /\ Node(parent.path) = Node(Above(f.file.path))
        BY <2>4, <3>1, <3>2, <3>3, ParentBegins
      <4>2. /\ Node(Above(f.file.path)) = Front(target(p))
            /\ Front(target(p)) # target(p) /\ Front(target(p)) \in Seq(Names)
        BY <2>2, <2>4, <3>1, <3>3, SeparatorsApart
      <4>3. Link(parent, f.file)
        BY <4>1, <4>2, PrefixItself DEF Link
      <4> QED
        BY <4>1, <4>2, <4>3
    <3>4. CASE target(p) \in DOMAIN fs
      <4>1. IsPrefix(target(p), target(p))
        BY PathFacts, PrefixItself
      <4>2. Dir(target(p))
        BY <2>4, <3>4, <4>1, OnWayDir
      <4>3. \A n \in Anchors(p) : n < Len(f.file.path)
        <5>1. Len(call[p].path) \in Nat
          BY PathFacts, WalkStep
        <5> QED
          BY <2>2, <2>4, <5>1, AnchorFacts
      <4>4. Begins(p, parent.path) /\ IsPrefix(Node(parent.path), target(p))
        BY <2>4, <3>1, <3>2, <4>2, <4>3, ParentBegins
      <4>5. Dir(Node(parent.path))
        <5>1. Node(parent.path) \in Seq(Names)
          BY <1>3, NodeType DEF Files
        <5> QED
          BY <4>2, <4>4, <5>1, TreeClosed DEF Dir, IInv, Types
      <4> QED
        BY <3>1, <4>2, <4>4, <4>5
    <3> QED
      BY <3>3, <3>4
  <2>5. FirstWay(p, f)
    BY <1>7, <2>2, <2>3, <2>4 DEF FirstWay
  <2>6. f.pc \notin {"exists", "rm", "descend"} /\ Len(stack[p]) # 2
    BY <1>7, <1>8
  <2> QED
    BY <1>1, <1>5, <1>7, <2>5, <2>6, WayReplace
<1>9. CASE Len(stack[p]) = 2
  <2>1. frame(p) = stack[p][2] /\ ~frame(p).createParents
    BY <1>1, <1>9, Innermost DEF IInv, StackInv
  <2>2. f.pc = "check"
    BY <1>7, <2>1
  <2>3. ASSUME Sound(p) PROVE SecondWay(p, stack[p][1], f)
    <3> DEFINE s == f.file.path
    <3>1. SecondWay(p, stack[p][1], frame(p))
      BY <1>9, <2>1, <2>3 DEF WayInv
    <3>2. /\ Begins(p, s) /\ Node(s) # target(p)
          /\ Link(f.file, Line(stack[p][1])[1]) /\ Ready(f.file)
      BY <1>1, <1>7, <3>1 DEF SecondWay
    <3>3. f.file \in Files /\ s \in Path /\ parent = ParentDir(f.file)
      BY <1>7 DEF Frames, Files, parent
    <3>4. \/ Dir(Node(s))
          \/ /\ parent.path # <<>> /\ Dir(Node(parent.path))
             /\ Node(parent.path) = Front(Node(s))
      <4> HIDE DEF s
      <4>1. CASE Node(s) \in DOMAIN fs
        <5>1. IsPrefix(Node(s), target(p))
          BY <2>3, <3>2, <3>3, BeginsFacts
        <5> QED
          BY <2>3, <4>1, <5>1, OnWayDir
      <4>2. CASE Node(s) \notin DOMAIN fs
        <5>1. Begins(p, parent.path) /\ Node(parent.path) = Node(Above(s))
          BY <2>3, <3>2, <3>3, <4>2, ParentBegins DEF s
        <5>2. parent.path # <<>>
          BY <1>3, <2>3, <5>1, BeginsFacts DEF Files
        <5>3. Dir(Node(Above(s)))
          BY <3>2, <4>2 DEF Ready, Dir, s
        <5>4. Node(Above(s)) # Node(s)
          BY <4>2, <5>3 DEF Dir
        <5>5. Node(Above(s)) = Front(Node(s))
          BY <2>3, <3>2, <3>3, <4>2, <5>4, MissingAbove
        <5> QED
          BY <5>1, <5>2, <5>3, <5>5
      <4> QED
        BY <4>1, <4>2
    <3> QED
      BY <1>7, <2>2, <3>2, <3>4 DEF SecondWay
  <2>4. Len(stack[p]) # 1
    BY <1>9
  <2> QED
    BY <1>1, <1>5, <1>7, <2>2, <2>3, <2>4, WayReplace
<1> QED
  BY <1>1, <1>8, <1>9, Innermost

(* A line that has one more in front. *)
LEMMA LineShift ==
  ASSUME NEW f \in Frames, NEW g \in Frames, g.file = f.file,
         Len(g.ancestors) = Len(f.ancestors) + 1,
         \A k \in 1..Len(f.ancestors) : g.ancestors[k + 1] = f.ancestors[k]
  PROVE  /\ Line(g)[1] = g.ancestors[1]
         /\ \A k \in 1..(Len(f.ancestors) + 1) : Line(g)[k + 1] = Line(f)[k]
<1> DEFINE n == Len(f.ancestors)
<1>1. /\ f.ancestors \in Seq(Files) /\ g.ancestors \in Seq(Files) /\ f.file \in Files
      /\ n \in Nat
  BY DEF Frames
<1>2. /\ \A k \in 1..n : Line(f)[k] = f.ancestors[k]
      /\ Line(f)[n + 1] = f.file
  BY <1>1, Extended DEF Line
<1>3. /\ \A k \in 1..(n + 1) : Line(g)[k] = g.ancestors[k]
      /\ Line(g)[(n + 1) + 1] = f.file
  BY <1>1, Extended DEF Line
<1> HIDE DEF n
<1>4. 1 \in 1..(n + 1)
  BY <1>1
<1>5. ASSUME NEW k \in 1..(n + 1) PROVE Line(g)[k + 1] = Line(f)[k]
  <2>1. CASE k = n + 1
    BY <1>2, <1>3, <2>1
  <2>2. CASE k # n + 1
    <3>1. k \in 1..n /\ k + 1 \in 1..(n + 1)
      BY <1>1, <2>2
    <3> QED
      BY <1>2, <1>3, <3>1 DEF n
  <2> QED
    BY <2>1, <2>2
<1> QED
  BY <1>3, <1>4, <1>5 DEF n

LEMMA ClimbWay ==
  ASSUME IInv, NEW p \in Procs, FoundInv(p), WayInv(p), Climb(p)
  PROVE  WayInv(p)' /\ ~Waiting(p)'
<1>1. Running(p) /\ frame(p).pc = "climb" /\ UNCHANGED <<fs, history>> /\ Steady(p)
  BY QuietSteady DEF Climb, At
<1>2. Len(stack[p]) = 1 /\ frame(p) = stack[p][1]
  BY <1>1, ClimbsFirst
<1>3. PICK f : f = frame(p)
  OBVIOUS
<1>4. f \in Frames /\ f.pc = "climb" /\ FirstWay(p, f)
  BY <1>1, <1>2, <1>3, Innermost DEF WayInv, Running
<1>5. PICK parent : parent = f.parentDir
  OBVIOUS
<1>6. parent \in Files /\ parent.path \in Path /\ f.file.path = call[p].path
  BY <1>4, <1>5 DEF Frames, Files, FirstWay, Labels
<1>7. \/ Stat(parent.path) # "none" /\ Goto(p, "descend")
      \/ /\ Stat(parent.path) = "none"
         /\ Replace(p, [f EXCEPT !.ancestors = Ahead(parent, @), !.pc = "up"])
  BY <1>3, <1>5 DEF Climb
<1>8. ASSUME Sound(p)
      PROVE  /\ Begins(p, parent.path)
             /\ \/ Stat(parent.path) = "dir" /\ Dir(Node(parent.path))
                \/ Stat(parent.path) = "none" /\ Node(parent.path) \notin DOMAIN fs
  <2>1. Begins(p, parent.path)
    BY <1>4, <1>5, <1>8 DEF FirstWay
  <2>2. parent.path # <<>> /\ IsPrefix(Node(parent.path), target(p))
    BY <1>6, <1>8, <2>1, BeginsFacts
  <2> QED
    BY <1>8, <2>1, <2>2, StatOnWay
<1>9. ASSUME Sound(p)
      PROVE  /\ Line(f)[1] \in Files /\ Line(f)[1].path \in Path /\ Line(f)[1].path # <<>>
             /\ Len(f.ancestors) \in Nat
  <2>1. Len(f.ancestors) \in Nat
    BY <1>4, <1>9, LineFacts
  <2>2. 1 \in 1..(Len(f.ancestors) + 1)
    BY <2>1
  <2>3. Line(f)[1] \in Files /\ Begins(p, Line(f)[1].path)
    BY <1>4, <1>9, <2>2, LineFacts
  <2>4. Line(f)[1].path \in Path
    BY <2>3 DEF Files
  <2> QED
    BY <1>9, <2>1, <2>3, <2>4, BeginsFacts
<1>10. CASE Stat(parent.path) # "none" /\ Goto(p, "descend")
  <2>1. ASSUME NEW g \in Frames, g.pc = "descend", g.file = frame(p).file,
               g.parentDir = frame(p).parentDir, g.ancestors = frame(p).ancestors
        PROVE  FirstWay(p, g) /\ (Sound(p) => Ready(Line(g)[1]))
    <3>1. Line(g) = Line(f)
      BY <1>3, <2>1 DEF Line
    <3>2. FirstWay(p, g)
      BY <1>3, <1>4, <1>6, <2>1, <3>1 DEF FirstWay
    <3>3. ASSUME Sound(p) PROVE Ready(Line(f)[1])
      <4>1. Dir(Node(parent.path))
        BY <1>8, <1>10, <3>3
      <4>2. \/ Dir(Node(Line(f)[1].path))
            \/ IsPrefix(Node(Above(Line(f)[1].path)), Node(parent.path))
        BY <1>4, <1>5, <3>3 DEF FirstWay, Link
      <4>3. Node(Above(Line(f)[1].path)) \in Seq(Names)
        BY <1>9, <3>3, AboveType
      <4>4. CASE IsPrefix(Node(Above(Line(f)[1].path)), Node(parent.path))
        <5>1. Dir(Node(Above(Line(f)[1].path)))
          BY <4>1, <4>3, <4>4, TreeClosed DEF Dir, IInv, Types
        <5> QED
          BY <5>1 DEF Ready
      <4> QED
        BY <4>2, <4>4 DEF Ready
    <3> QED
      BY <3>1, <3>2, <3>3
  <2>2. "descend" \in Labels \ {"exists", "rm"} /\ Len(stack[p]) # 2
    BY <1>2 DEF Labels
  <2> QED
    BY <1>1, <1>2, <1>10, <2>1, <2>2, WayGoto
<1>11. CASE /\ Stat(parent.path) = "none"
            /\ Replace(p, [f EXCEPT !.ancestors = Ahead(parent, @), !.pc = "up"])
  <2>1. PICK g : g = [f EXCEPT !.ancestors = Ahead(parent, @), !.pc = "up"]
    OBVIOUS
  <2>2. g = [file |-> f.file, createParents |-> f.createParents,
             parentDir |-> f.parentDir, ancestors |-> Ahead(parent, f.ancestors),
             pc |-> "up"]
    BY <1>4, <2>1 DEF Frames
  <2>3. f.ancestors \in Seq(Files) /\ Len(f.ancestors) \in Nat
    BY <1>4 DEF Frames
  <2>4. Ahead(parent, f.ancestors) \in Seq(Files)
    BY <1>6, <2>3 DEF Ahead
  <2>5. /\ g \in Frames /\ g.pc = "up" /\ g.file = f.file
        /\ g.parentDir = parent /\ g.ancestors = Ahead(parent, f.ancestors)
    BY <1>4, <1>5, <2>2, <2>4 DEF Frames, Labels
  <2>6. Replace(p, g)
    BY <1>11, <2>1
  <2>7. \/ f.ancestors # <<>> /\ f.ancestors[1] = parent /\ g.ancestors = f.ancestors
        \/ g.ancestors = <<parent>> \o f.ancestors
    BY <2>3, <2>5 DEF Ahead
  <2>8. ASSUME Sound(p)
        PROVE  /\ Begins(p, parent.path)
               /\ \A n \in Anchors(p) : n < Len(parent.path)
               /\ Node(parent.path) # target(p) /\ Link(parent, Line(f)[1])
    <3>1. Begins(p, parent.path) /\ Node(parent.path) \notin DOMAIN fs
      BY <1>8, <1>11, <2>8
    <3>2. \A n \in Anchors(p) : n < Len(parent.path)
      BY <1>6, <2>8, <3>1, MissingAbove
    <3>3. Link(parent, Line(f)[1])
      BY <1>4, <1>5, <2>8, <3>1 DEF FirstWay, Dir
    <3>4. Node(parent.path) # target(p)
      BY <1>4, <1>5, <2>8, <3>1 DEF FirstWay, Dir
    <3> QED
      BY <3>1, <3>2, <3>3, <3>4
  <2>9. ASSUME Sound(p)
        PROVE  /\ g.ancestors # <<>> /\ g.ancestors[1] = parent
               /\ \A k \in DOMAIN g.ancestors :
                    /\ Begins(p, g.ancestors[k].path)
                    /\ Node(g.ancestors[k].path) # target(p)
                    /\ Link(Line(g)[k], Line(g)[k + 1])
    <3>1. CASE f.ancestors # <<>> /\ f.ancestors[1] = parent /\ g.ancestors = f.ancestors
      <4>1. Line(g) = Line(f)
        BY <2>5, <3>1 DEF Line
      <4> QED
        BY <1>4, <2>9, <3>1, <4>1 DEF FirstWay
    <3>2. CASE g.ancestors = <<parent>> \o f.ancestors
      <4>1. /\ Len(g.ancestors) = Len(f.ancestors) + 1 /\ g.ancestors # <<>>
            /\ g.ancestors[1] = parent
            /\ \A k \in 1..Len(f.ancestors) : g.ancestors[k + 1] = f.ancestors[k]
            /\ DOMAIN g.ancestors = 1..(Len(f.ancestors) + 1)
        BY <1>6, <2>3, <3>2
      <4>2. /\ Line(g)[1] = parent
            /\ \A k \in 1..(Len(f.ancestors) + 1) : Line(g)[k + 1] = Line(f)[k]
        BY <1>4, <2>5, <4>1, LineShift
      <4>3. ASSUME NEW k \in DOMAIN g.ancestors
            PROVE  /\ Begins(p, g.ancestors[k].path)
                   /\ Node(g.ancestors[k].path) # target(p)
                   /\ Link(Line(g)[k], Line(g)[k + 1])
        <5>1. CASE k = 1
          <6>1. Line(g)[k] = parent /\ g.ancestors[k] = parent
            BY <4>1, <4>2, <5>1
          <6>2. Line(g)[k + 1] = Line(f)[1]
            BY <4>1, <4>2, <4>3, <5>1
          <6> QED
            BY <2>8, <2>9, <6>1, <6>2
        <5>2. CASE k # 1
          <6>1. PICK j \in 1..Len(f.ancestors) : k = j + 1
            <7>1. k - 1 \in 1..Len(f.ancestors) /\ k = (k - 1) + 1
              BY <2>3, <4>1, <4>3, <5>2
            <7> QED
              BY <7>1
          <6>2. j \in 1..(Len(f.ancestors) + 1) /\ j + 1 \in 1..(Len(f.ancestors) + 1)
            BY <2>3, <6>1
          <6>3. /\ g.ancestors[k] = f.ancestors[j]
                /\ Line(g)[k] = Line(f)[j] /\ Line(g)[k + 1] = Line(f)[j + 1]
            BY <4>1, <4>2, <6>1, <6>2
          <6>4. j \in DOMAIN f.ancestors
            BY <2>3, <6>1
          <6> QED
            BY <1>4, <2>9, <6>3, <6>4 DEF FirstWay
        <5> QED
          BY <5>1, <5>2
      <4> QED
        BY <4>1, <4>3
    <3> QED
      BY <2>7, <3>1, <3>2
  <2>10. FirstWay(p, g)
    BY <1>6, <2>5, <2>8, <2>9 DEF FirstWay
  <2>11. g.pc \notin {"exists", "rm", "descend"} /\ Len(stack[p]) # 2
    BY <1>2, <2>5
  <2> QED
    BY <1>1, <2>5, <2>6, <2>10, <2>11, WayReplace
<1> QED
  BY <1>7, <1>10, <1>11

LEMMA ClimbUpWay ==
  ASSUME IInv, NEW p \in Procs, FoundInv(p), WayInv(p), ClimbUp(p)
  PROVE  WayInv(p)' /\ ~Waiting(p)'
<1>1. Running(p) /\ frame(p).pc = "up" /\ UNCHANGED <<fs, history>> /\ Steady(p)
  BY QuietSteady DEF ClimbUp, At
<1>2. Len(stack[p]) = 1 /\ frame(p) = stack[p][1]
  BY <1>1, ClimbsFirst
<1>3. PICK f : f = frame(p)
  OBVIOUS
<1>4. /\ f \in Frames /\ f.pc = "up" /\ FirstWay(p, f) /\ ActivationInv(p, f)
  BY <1>1, <1>2, <1>3, Innermost DEF WayInv, Running
<1>5. PICK old : old = f.parentDir
  OBVIOUS
<1>6. PICK parent : parent = ParentDir(old)
  OBVIOUS
<1>7. old \in Files /\ parent \in Files /\ f.file.path = call[p].path
  <2>1. old \in Files /\ FileLeads(old, target(p))
    BY <1>4, <1>5 DEF Frames, ActivationInv
  <2> QED
    BY <1>4, <1>6, <2>1, ParentLeads, TargetType DEF IInv, FirstWay, Labels
<1>8. PICK g : g = [f EXCEPT !.parentDir = ParentDir(@), !.pc = "climb"]
  OBVIOUS
<1>9. Replace(p, g)
  BY <1>3, <1>8 DEF ClimbUp
<1>10. g = [file |-> f.file, createParents |-> f.createParents, parentDir |-> parent,
            ancestors |-> f.ancestors, pc |-> "climb"]
  BY <1>4, <1>5, <1>6, <1>8 DEF Frames
<1>11. /\ g \in Frames /\ g.pc = "climb" /\ g.file = f.file /\ g.parentDir = parent
       /\ g.ancestors = f.ancestors /\ Line(g) = Line(f)
  BY <1>4, <1>7, <1>10 DEF Frames, Labels, Line
<1>12. ASSUME Sound(p)
       PROVE  /\ Begins(p, parent.path)
              /\ \/ Dir(Node(Line(f)[1].path)) /\ Dir(Node(parent.path))
                 \/ Link(parent, Line(f)[1])
              /\ Node(parent.path) # target(p)
  <2>1. /\ Begins(p, old.path) /\ f.ancestors # <<>> /\ f.ancestors[1] = old
        /\ \A n \in Anchors(p) : n < Len(old.path)
    BY <1>4, <1>5, <1>12 DEF FirstWay
  <2>2. 1 \in DOMAIN f.ancestors
    BY <1>4, <2>1 DEF Frames
  <2>3. Line(f)[1] = old /\ Node(old.path) # target(p)
    BY <1>4, <1>12, <2>1, <2>2, LineFacts DEF FirstWay
  <2>4. /\ old.path \in Path /\ parent.path \in Path
        /\ Node(old.path) \in Seq(Names) /\ Node(parent.path) \in Seq(Names)
    BY <1>7, NodeType DEF Files
  <2>5. old.path # <<>> /\ IsPrefix(Node(old.path), target(p))
    BY <1>12, <2>1, <2>4, BeginsFacts
  <2>6. ASSUME IsPrefix(Node(parent.path), Node(old.path))
        PROVE  Node(parent.path) # target(p)
    BY <2>3, <2>4, <2>5, <2>6, PathFacts, PrefixBoth
  <2>7. CASE Node(old.path) \notin DOMAIN fs
    <3>1. Begins(p, parent.path) /\ Node(parent.path) = Node(Above(old.path))
      BY <1>6, <1>7, <1>12, <2>1, <2>7, ParentBegins
    <3>2. IsPrefix(Node(parent.path), Node(old.path))
      BY <1>12, <2>1, <2>4, <2>7, <3>1, MissingAbove
    <3>3. Link(parent, old)
      BY <2>4, <3>1, PrefixItself DEF Link
    <3> QED
      BY <2>3, <2>6, <3>1, <3>2, <3>3
  <2>8. CASE Node(old.path) \in DOMAIN fs
    <3>1. Dir(Node(old.path))
      BY <1>12, <2>5, <2>8, OnWayDir
    <3>2. Begins(p, parent.path) /\ IsPrefix(Node(parent.path), Node(old.path))
      BY <1>6, <1>7, <1>12, <2>1, <3>1, ParentBegins
    <3>3. Dir(Node(parent.path))
      BY <2>4, <3>1, <3>2, TreeClosed DEF Dir, IInv, Types
    <3> QED
      BY <2>3, <2>6, <3>1, <3>2, <3>3
  <2> QED
    BY <2>7, <2>8
<1>13. FirstWay(p, g)
  BY <1>4, <1>7, <1>11, <1>12 DEF FirstWay
<1>14. g.pc \notin {"exists", "rm", "descend"} /\ Len(stack[p]) # 2
  BY <1>2, <1>11
<1> QED
  BY <1>1, <1>9, <1>11, <1>13, <1>14, WayReplace

LEMMA DescendWay ==
  ASSUME IInv, NEW p \in Procs, FoundInv(p), WayInv(p), Descend(p)
  PROVE  WayInv(p)' /\ ~Waiting(p)'
<1>1. Running(p) /\ frame(p).pc = "descend" /\ UNCHANGED <<fs, history>> /\ Steady(p)
  BY QuietSteady DEF Descend, At
<1>2. Len(stack[p]) = 1 /\ frame(p) = stack[p][1]
  BY <1>1, ClimbsFirst
<1>3. PICK f : f = frame(p)
  OBVIOUS
<1>4. f \in Frames /\ f.pc = "descend" /\ FirstWay(p, f) /\ f.file.path = call[p].path
  BY <1>1, <1>2, <1>3, Innermost DEF WayInv, Running, FirstWay, Labels
<1>5. Sound(p) => Ready(Line(f)[1])
  BY <1>2, <1>3, <1>4 DEF WayInv
<1>6. f.ancestors \in Seq(Files) /\ Len(f.ancestors) \in Nat
  BY <1>4 DEF Frames
<1>7. CASE f.ancestors = <<>>
  <2>1. ASSUME NEW g \in Frames, g.pc = "mkdir", g.file = frame(p).file,
               g.parentDir = frame(p).parentDir, g.ancestors = frame(p).ancestors
        PROVE  FirstWay(p, g)
    <3>1. g.ancestors = <<>> /\ DOMAIN g.ancestors = {} /\ Line(f) = <<f.file>>
      BY <1>3, <1>7, <2>1 DEF Line
    <3>2. ASSUME Sound(p) PROVE Dir(target(p)) \/ Dir(Front(target(p)))
      <4>1. Ready(f.file)
        BY <1>5, <3>1, <3>2
      <4>2. Dir(target(p)) \/ Dir(Node(Above(call[p].path)))
        BY <1>4, <4>1 DEF Ready, target
      <4>3. CASE target(p) \in DOMAIN fs
        <5>1. IsPrefix(target(p), target(p))
          BY PathFacts, PrefixItself
        <5> QED
          BY <3>2, <4>3, <5>1, OnWayDir
      <4>4. CASE target(p) \notin DOMAIN fs
        <5>1. Begins(p, call[p].path)
          BY <1>4, <3>2, LineFacts
        <5>2. Node(Above(call[p].path)) = Front(target(p))
          BY <3>2, <4>4, <5>1, SeparatorsApart
        <5> QED
          BY <4>2, <5>2
      <4> QED
        BY <4>3, <4>4
    <3> QED
      BY <1>3, <1>4, <2>1, <3>1, <3>2 DEF FirstWay
  <2>2. "mkdir" \in Labels \ {"exists", "rm"} /\ "mkdir" # "descend" /\ Len(stack[p]) # 2
    BY <1>2 DEF Labels
  <2>3. Goto(p, "mkdir")
    BY <1>3, <1>7 DEF Descend
  <2> QED
    BY <1>1, <1>2, <2>1, <2>2, <2>3, WayGoto
<1>8. CASE f.ancestors # <<>>
  <2>1. PICK head : head = Head(f.ancestors)
    OBVIOUS
  <2>2. PICK g : g = [f EXCEPT !.ancestors = Tail(@)]
    OBVIOUS
  <2>3. PICK h : h = Frame(head, FALSE)
    OBVIOUS
  <2>4. stack' = [stack EXCEPT ![p] = Append(Append(Front(stack[p]), g), h)]
    BY <1>3, <1>8, <2>1, <2>2, <2>3 DEF Descend
  <2>5. Front(stack[p]) = <<>>
    <3>1. Front(stack[p]) \in Seq(Frames) /\ Len(Front(stack[p])) = 1 - 1
      BY <1>1, <1>2, Innermost
    <3> QED
      BY <3>1
  <2>6. PICK st : st = Append(Append(<<>>, g), h)
    OBVIOUS
  <2>7. head = f.ancestors[1] /\ head \in Files /\ Tail(f.ancestors) \in Seq(Files)
    BY <1>6, <1>8, <2>1
  <2>8. g = [file |-> f.file, createParents |-> f.createParents,
             parentDir |-> f.parentDir, ancestors |-> Tail(f.ancestors), pc |-> "descend"]
    BY <1>4, <2>2 DEF Frames
  <2>9. /\ g \in Frames /\ g.pc = "descend" /\ g.file = f.file
        /\ g.ancestors = Tail(f.ancestors)
    BY <1>4, <2>7, <2>8 DEF Frames, Labels
  <2>10. h \in Frames /\ h.pc = "exists" /\ h.file = head
    BY <2>3, <2>7 DEF Frame, Frames, Labels
  <2>11. /\ Len(f.ancestors) = Len(g.ancestors) + 1 /\ Len(g.ancestors) \in Nat
         /\ DOMAIN g.ancestors = 1..Len(g.ancestors)
         /\ DOMAIN f.ancestors = 1..(Len(g.ancestors) + 1)
         /\ \A k \in 1..Len(g.ancestors) : f.ancestors[k + 1] = g.ancestors[k]
    BY <1>6, <1>8, <2>9
  <2>12. /\ Line(f)[1] = head
         /\ \A k \in 1..(Len(g.ancestors) + 1) : Line(f)[k + 1] = Line(g)[k]
    <3>1. /\ Line(f)[1] = f.ancestors[1]
          /\ \A k \in 1..(Len(g.ancestors) + 1) : Line(f)[k + 1] = Line(g)[k]
      BY <1>4, <2>9, <2>11, LineShift
    <3> QED
      BY <2>7, <3>1
  <2>13. ASSUME Sound(p)
         PROVE  \A k \in DOMAIN f.ancestors :
                  /\ Begins(p, f.ancestors[k].path)
                  /\ Node(f.ancestors[k].path) # target(p)
                  /\ Link(Line(f)[k], Line(f)[k + 1])
    BY <1>4, <2>13 DEF FirstWay
  <2>14. FirstWay(p, g)
    <3>1. ASSUME Sound(p), NEW k \in DOMAIN g.ancestors
          PROVE  /\ Begins(p, g.ancestors[k].path)
                 /\ Node(g.ancestors[k].path) # target(p)
                 /\ Link(Line(g)[k], Line(g)[k + 1])
      <4>1. /\ k + 1 \in DOMAIN f.ancestors /\ k \in 1..Len(g.ancestors)
            /\ k \in 1..(Len(g.ancestors) + 1) /\ k + 1 \in 1..(Len(g.ancestors) + 1)
        BY <2>11, <3>1
      <4>2. /\ f.ancestors[k + 1] = g.ancestors[k]
            /\ Line(f)[k + 1] = Line(g)[k] /\ Line(f)[(k + 1) + 1] = Line(g)[k + 1]
        BY <2>11, <2>12, <4>1
      <4> QED
        BY <2>13, <3>1, <4>1, <4>2
    <3> QED
      BY <1>4, <2>9, <3>1 DEF FirstWay
  <2>15. ASSUME Sound(p) PROVE SecondWay(p, g, h)
    <3>1. 1 \in DOMAIN f.ancestors /\ 1 \in 1..(Len(g.ancestors) + 1)
      BY <2>11
    <3>2. Begins(p, head.path) /\ Node(head.path) # target(p) /\ Link(head, Line(g)[1])
      BY <2>7, <2>12, <2>13, <2>15, <3>1
    <3>3. Ready(head)
      BY <1>5, <2>12, <2>15
    <3> QED
      BY <2>10, <3>2, <3>3 DEF SecondWay
  <2>16. Sound(p)' <=> Sound(p)
    BY <1>1, SoundKept
  <2>17. FirstWay(p, g)' /\ (Sound(p) => SecondWay(p, g, h)')
    BY <1>1, <2>14, <2>15, FirstKept, SecondKept
  <2>18. stack'[p] = st
    BY <2>4, <2>5, <2>6 DEF IInv, Types
  <2>19. Len(st) = 2 /\ Len(st) # 1 /\ st # <<>> /\ st[1] = g /\ st[2] = h
    BY <2>6, <2>9, <2>10
  <2> QED
    BY <2>16, <2>17, <2>18, <2>19 DEF WayInv, Waiting
<1> QED
  BY <1>7, <1>8

LEMMA CheckParentWay ==
  ASSUME IInv, NEW p \in Procs, FoundInv(p), WayInv(p), CheckParent(p)
  PROVE  WayInv(p)' /\ ~Waiting(p)'
<1>1. Running(p) /\ frame(p).pc = "check" /\ UNCHANGED <<fs, history>> /\ Steady(p)
  BY QuietSteady DEF CheckParent, At
<1>2. PICK f : f = frame(p)
  OBVIOUS
<1>3. f \in Frames /\ f.pc = "check" /\ f.parentDir.path \in Path
  BY <1>1, <1>2, Innermost DEF Frames, Files
<1>4. CASE Stat(f.parentDir.path) = "none"
  BY <1>2, <1>4, WayThrow DEF CheckParent, Waiting
<1>5. CASE Stat(f.parentDir.path) # "none"
  <2>1. ASSUME NEW g \in Frames, g.pc = "mkdir", g.file = frame(p).file,
               g.parentDir = frame(p).parentDir, g.ancestors = frame(p).ancestors
        PROVE  /\ Len(stack[p]) = 1 => FirstWay(p, g)
               /\ Len(stack[p]) = 2 /\ Sound(p) => SecondWay(p, stack[p][1], g)
    <3>1. CASE Len(stack[p]) = 1
      <4>1. FirstWay(p, f) /\ f.file.path = call[p].path
        BY <1>1, <1>2, <1>3, <3>1, Innermost DEF WayInv, Running, FirstWay, Labels
      <4>2. Line(g) = Line(f)
        BY <1>2, <2>1 DEF Line
      <4>3. ASSUME Sound(p) PROVE Dir(target(p)) \/ Dir(Front(target(p)))
        <5>1. Begins(p, f.parentDir.path)
          BY <1>3, <4>1, <4>3 DEF FirstWay
        <5>2. f.parentDir.path # <<>> /\ IsPrefix(Node(f.parentDir.path), target(p))
          BY <1>3, <4>3, <5>1, BeginsFacts
        <5>3. Dir(Node(f.parentDir.path))
          BY <1>5, <4>3, <5>2, StatOnWay
        <5> QED
          BY <1>3, <4>1, <4>3, <5>3 DEF FirstWay
      <4>4. FirstWay(p, g)
        BY <1>2, <1>3, <2>1, <4>1, <4>2, <4>3 DEF FirstWay
      <4> QED
        BY <3>1, <4>4
    <3>2. CASE Len(stack[p]) = 2
      <4>1. ASSUME Sound(p) PROVE SecondWay(p, stack[p][1], g)
        <5>1. SecondWay(p, stack[p][1], f)
          BY <1>1, <1>2, <3>2, <4>1, Innermost DEF WayInv
        <5> QED
          BY <1>2, <1>3, <2>1, <5>1 DEF SecondWay
      <4> QED
        BY <3>2, <4>1
    <3> QED
      BY <1>1, <3>1, <3>2, Innermost
  <2>2. "mkdir" \in Labels \ {"exists", "rm"} /\ "mkdir" # "descend"
    BY DEF Labels
  <2>3. Goto(p, "mkdir")
    BY <1>2, <1>5 DEF CheckParent
  <2> QED
    BY <1>1, <2>1, <2>2, <2>3, WayGoto
<1> QED
  BY <1>4, <1>5

-----------------------------------------------------------------------------
(* What a step does to the tree, and to what the others rely on. *)

(* p's system call makes a node, or takes it away. *)
Makes(p) == SystemMkdir(p) /\ Vacant(frame(p).file.path)
Unmakes(p) == Unlink(p) /\ Stat(frame(p).file.path) = "file"
Subject(p) == Node(frame(p).file.path)

LEMMA MakesFacts ==
  ASSUME IInv, NEW p \in Procs, Makes(p)
  PROVE  /\ Running(p) /\ frame(p).pc = "mkdir" /\ p \in Makers /\ ~Waiting(p)
         /\ frame(p).file.path # <<>> /\ Subject(p) \in Seq(Names)
         /\ Subject(p) \notin DOMAIN fs /\ Dir(Front(Subject(p)))
         /\ IsPrefix(Subject(p), target(p))
         /\ DOMAIN fs' = DOMAIN fs \union {Subject(p)} /\ fs'[Subject(p)] = "dir"
         /\ \A node \in DOMAIN fs : fs'[node] = fs[node]
         /\ DOMAIN maker' = DOMAIN maker \union {Subject(p)}
         /\ call' = call /\ result' = result /\ Goto(p, "chmod")
         /\ \A q \in Procs :
              /\ found'[q] = IF Waiting(q) THEN fs' ELSE found[q]
              /\ raced'[q] = raced[q] \union
                   IF q = p \/ ~Running(q) \/ Waiting(q) THEN {} ELSE {Subject(p)}
<1> DEFINE path == frame(p).file.path
           node == Node(path)
<1>1. Running(p) /\ frame(p).pc = "mkdir" /\ call' = call
  BY DEF Makes, SystemMkdir, At
<1>2. p \in Makers /\ ~Waiting(p)
  BY <1>1, MakersAt DEF Waiting
<1>3. /\ Make(path, "dir") /\ Found /\ Goto(p, "chmod") /\ result' = result
      /\ maker' = [m \in DOMAIN maker \union {node} |->
                     IF m = node THEN p ELSE maker[m]]
      /\ raced' = [q \in Procs |-> raced[q] \union
                     IF q = p \/ ~Running(q) \/ Waiting(q) THEN {} ELSE {node}]
  BY DEF Makes, SystemMkdir
<1>4. /\ path # <<>> /\ path \in Path /\ node \in Seq(Names)
      /\ node \notin DOMAIN fs /\ Dir(Front(node))
  <2>1. path \in Path
    BY <1>1, Innermost DEF Frames, Files
  <2> QED
    BY <2>1, NodeType DEF Makes, Vacant, Dir
<1>5. IsPrefix(node, target(p))
  BY <1>1, <1>4, Innermost DEF ActivationInv, FileLeads, Leads
<1> HIDE DEF path
<1>6. DOMAIN fs' = DOMAIN fs \union {node} /\ fs'[node] = "dir"
      /\ \A m \in DOMAIN fs : fs'[m] = fs[m]
  <2>1. fs' = [m \in DOMAIN fs \union {node} |-> IF m = node THEN "dir" ELSE fs[m]]
    BY <1>3 DEF Make
  <2> HIDE DEF node
  <2> QED
    BY <1>4, <2>1
<1>7. DOMAIN maker' = DOMAIN maker \union {node}
  BY <1>3
<1>8. \A q \in Procs :
        /\ found'[q] = IF Waiting(q) THEN fs' ELSE found[q]
        /\ raced'[q] = raced[q] \union
             IF q = p \/ ~Running(q) \/ Waiting(q) THEN {} ELSE {node}
  BY <1>3 DEF Found
<1>9. Subject(p) = node
  BY DEF Subject, path
<1> HIDE DEF node
<1> QED
  BY <1>1, <1>2, <1>3, <1>4, <1>5, <1>6, <1>7, <1>8, <1>9 DEF path

LEMMA UnmakesFacts ==
  ASSUME IInv, NEW p \in Procs, Unmakes(p)
  PROVE  /\ Running(p) /\ frame(p).pc = "unlink" /\ p \notin Makers /\ ~Waiting(p)
         /\ Subject(p) \in DOMAIN fs /\ fs[Subject(p)] = "file"
         /\ DOMAIN fs' = DOMAIN fs \ {Subject(p)}
         /\ \A node \in DOMAIN fs' : fs'[node] = fs[node]
         /\ call' = call /\ maker' = maker /\ raced' = raced /\ Return(p)
         /\ \A q \in Procs : found'[q] = IF Waiting(q) THEN fs' ELSE found[q]
<1> DEFINE path == frame(p).file.path
           node == Node(path)
<1>1. Running(p) /\ frame(p).pc = "unlink" /\ call' = call /\ maker' = maker
  BY DEF Unmakes, Unlink, At
<1>2. p \notin Makers /\ ~Waiting(p)
  BY <1>1, MakersAt DEF Waiting
<1>3. Unmake(p, path) /\ Return(p)
  BY DEF Unmakes, Unlink
<1>4. node \in DOMAIN fs /\ fs[node] = "file"
  BY StatFacts DEF Unmakes, IInv, Types
<1>5. fs' = [m \in DOMAIN fs \ {node} |-> fs[m]] /\ Found /\ raced' = raced
  BY <1>3 DEF Unmake
<1>6. Subject(p) = node
  BY DEF Subject
<1> HIDE DEF node
<1> QED
  BY <1>1, <1>2, <1>3, <1>4, <1>5, <1>6 DEF Found

(* The steps but these leave the tree and its history alone. *)
LEMMA StepKinds ==
  ASSUME NEW p \in Procs, Step(p)
  PROVE  UNCHANGED <<fs, history>> \/ Makes(p) \/ Unmakes(p)
<1>1. CASE SystemMkdir(p)
  BY <1>1 DEF SystemMkdir, Makes, history
<1>2. CASE Unlink(p)
  BY <1>2 DEF Unlink, Unmakes, history
<1>3. CASE \/ CheckSelf(p) \/ FindParent(p) \/ Climb(p) \/ ClimbUp(p)
           \/ Descend(p) \/ CheckParent(p) \/ Chmod(p) \/ CheckFile(p)
  BY <1>3 DEF CheckSelf, FindParent, Climb, ClimbUp, Descend, CheckParent, Chmod, CheckFile
<1> QED
  BY <1>1, <1>2, <1>3 DEF Step

LEMMA StepLocal ==
  ASSUME IInv, NEW p \in Procs, Step(p)
  PROVE  Running(p) /\ \A q \in Procs \ {p} : stack'[q] = stack[q] /\ result'[q] = result[q]
<1>1. Running(p)
  BY DEF Step, CheckSelf, FindParent, Climb, ClimbUp, Descend, CheckParent, SystemMkdir,
         Chmod, CheckFile, Unlink, At
<1>2. \/ result' = result \/ Return(p) \/ Throw(p)
  BY DEF Step, CheckSelf, FindParent, Climb, ClimbUp, Descend, CheckParent, SystemMkdir,
         Chmod, CheckFile, Unlink
<1>3. \E s : stack' = [stack EXCEPT ![p] = s]
  <2>1. \/ Return(p) \/ Throw(p)
        \/ \E f : Replace(p, f)
        \/ \E s : stack' = [stack EXCEPT ![p] = s]
    BY DEF Step, CheckSelf, FindParent, Climb, ClimbUp, Descend, CheckParent, SystemMkdir,
           Chmod, CheckFile, Unlink, Goto
  <2> QED
    BY <2>1 DEF Return, Throw, Replace
<1>4. ASSUME NEW q \in Procs \ {p} PROVE stack'[q] = stack[q] /\ result'[q] = result[q]
  <2>1. stack'[q] = stack[q]
    BY <1>3 DEF IInv, Types
  <2>2. result'[q] = result[q]
    BY <1>2 DEF Return, Throw, IInv, Types
  <2> QED
    BY <2>1, <2>2
<1> QED
  BY <1>1, <1>4

(* No directory goes, no file comes, and those that wait find the tree as   *)
(* it is.                                                                   *)
LEMMA Effects ==
  ASSUME IInv, \A q \in Procs : FoundInv(q), NEW p \in Procs, Step(p)
  PROVE  /\ call' = call
         /\ \A node : Dir(node) => Dir(node)'
         /\ \A node \in DOMAIN fs' :
              fs'[node] = "file" => node \in DOMAIN fs /\ fs[node] = "file"
         /\ \A q \in Procs :
              /\ found'[q] = IF Waiting(q) THEN fs' ELSE found[q]
              /\ Waiting(q) \/ q = p => raced'[q] = raced[q]
              /\ raced[q] \subseteq raced'[q]
         /\ found'[p] = found[p] /\ Steady(p)
         /\ ~Makes(p) => maker' = maker /\ raced' = raced /\ DOMAIN fs' \subseteq DOMAIN fs
<1>1. CASE UNCHANGED <<fs, history>>
  <2>1. fs' = fs /\ call' = call /\ maker' = maker /\ found' = found /\ raced' = raced
    BY <1>1 DEF history, others
  <2>2. \A q \in Procs : Waiting(q) => found[q] = fs
    BY DEF FoundInv
  <2> QED
    BY <2>1, <2>2 DEF Dir, Steady
<1>2. CASE Makes(p)
  <2>1. /\ ~Waiting(p) /\ call' = call
        /\ DOMAIN fs' = DOMAIN fs \union {Subject(p)} /\ fs'[Subject(p)] = "dir"
        /\ \A node \in DOMAIN fs : fs'[node] = fs[node]
        /\ \A q \in Procs :
             /\ found'[q] = IF Waiting(q) THEN fs' ELSE found[q]
             /\ raced'[q] = raced[q] \union
                  IF q = p \/ ~Running(q) \/ Waiting(q) THEN {} ELSE {Subject(p)}
    BY <1>2, MakesFacts
  <2> QED
    BY <1>2, <2>1 DEF Dir, Steady
<1>3. CASE Unmakes(p)
  <2>1. /\ ~Waiting(p) /\ call' = call /\ maker' = maker /\ raced' = raced
        /\ fs[Subject(p)] = "file" /\ DOMAIN fs' = DOMAIN fs \ {Subject(p)}
        /\ \A node \in DOMAIN fs' : fs'[node] = fs[node]
        /\ \A q \in Procs : found'[q] = IF Waiting(q) THEN fs' ELSE found[q]
    BY <1>3, UnmakesFacts
  <2> QED
    BY <2>1 DEF Dir, Steady
<1> QED
  BY <1>1, <1>2, <1>3, StepKinds

LEMMA SystemMkdirWay ==
  ASSUME IInv, NEW p \in Procs, FoundInv(p), WayInv(p), SystemMkdir(p), Steady(p)
  PROVE  WayInv(p)' /\ ~Waiting(p)'
<1>1. Running(p) /\ frame(p).pc = "mkdir"
  BY DEF SystemMkdir, At
<1>2. CASE Throw(p)
  BY <1>2, WayThrow DEF Waiting
<1>3. CASE Goto(p, "chmod")
  <2>1. ASSUME NEW g \in Frames, g.pc = "chmod", g.file = frame(p).file,
               g.parentDir = frame(p).parentDir, g.ancestors = frame(p).ancestors
        PROVE  /\ Len(stack[p]) = 1 => FirstWay(p, g)
               /\ Len(stack[p]) = 2 /\ Sound(p) => SecondWay(p, stack[p][1], g)
    <3>1. CASE Len(stack[p]) = 1
      <4>1. FirstWay(p, frame(p))
        BY <1>1, <3>1, Innermost DEF WayInv, Running
      <4>2. Line(g) = Line(frame(p))
        BY <2>1 DEF Line
      <4>3. FirstWay(p, g)
        BY <2>1, <4>1, <4>2 DEF FirstWay
      <4> QED
        BY <3>1, <4>3
    <3>2. CASE Len(stack[p]) = 2
      <4>1. ASSUME Sound(p) PROVE SecondWay(p, stack[p][1], g)
        <5>1. SecondWay(p, stack[p][1], frame(p))
          BY <1>1, <3>2, <4>1, Innermost DEF WayInv
        <5> QED
          BY <2>1, <5>1 DEF SecondWay
      <4> QED
        BY <3>2, <4>1
    <3> QED
      BY <1>1, <3>1, <3>2, Innermost
  <2>2. "chmod" \in Labels \ {"exists", "rm"} /\ "chmod" # "descend"
    BY DEF Labels
  <2> QED
    BY <1>1, <1>3, <2>1, <2>2, WayGoto
<1> QED
  BY <1>2, <1>3 DEF SystemMkdir

LEMMA ChmodWay ==
  ASSUME IInv, NEW p \in Procs, FoundInv(p), WayInv(p), Chmod(p)
  PROVE  WayInv(p)' /\ ~Waiting(p)'
<1>1. /\ Running(p) /\ frame(p).pc = "chmod" /\ UNCHANGED <<fs, history>> /\ Steady(p)
      /\ Return(p)
  BY QuietSteady DEF Chmod, At
<1>2. Dir(Node(frame(p).file.path))
  BY <1>1, Innermost DEF ActivationInv, Dir
<1> QED
  BY <1>1, <1>2, WayReturn

LEMMA CheckFileWay ==
  ASSUME IInv, NEW p \in Procs, FoundInv(p), WayInv(p), CheckFile(p)
  PROVE  WayInv(p)' /\ ~Waiting(p)'
<1>1. Running(p) /\ frame(p).pc = "rm" /\ UNCHANGED <<fs, history>> /\ Steady(p)
  BY QuietSteady DEF CheckFile, At
<1>2. ~Sound(p) /\ Len(stack[p]) = 1 /\ frame(p) = stack[p][1]
  BY <1>1, MakersAt, RmIsFirst, Innermost DEF Sound
<1>3. CASE Throw(p)
  BY <1>3, WayThrow DEF Waiting
<1>4. CASE Goto(p, "unlink")
  <2>1. ASSUME NEW g \in Frames, g.pc = "unlink", g.file = frame(p).file,
               g.parentDir = frame(p).parentDir, g.ancestors = frame(p).ancestors
        PROVE  FirstWay(p, g)
    BY <1>2, <2>1 DEF FirstWay
  <2>2. "unlink" \in Labels \ {"exists", "rm"} /\ "unlink" # "descend" /\ Len(stack[p]) # 2
    BY <1>2 DEF Labels
  <2> QED
    BY <1>1, <1>4, <2>1, <2>2, WayGoto
<1> QED
  BY <1>3, <1>4 DEF CheckFile

LEMMA UnlinkWay ==
  ASSUME IInv, NEW p \in Procs, FoundInv(p), WayInv(p), Unlink(p), Steady(p)
  PROVE  WayInv(p)' /\ ~Waiting(p)'
<1>1. Running(p) /\ frame(p).pc = "unlink"
  BY DEF Unlink, At
<1>2. ~Sound(p)
  BY <1>1, MakersAt DEF Sound
<1>3. CASE Throw(p)
  BY <1>3, WayThrow DEF Waiting
<1>4. CASE Return(p)
  BY <1>1, <1>2, <1>4, WayReturn
<1> QED
  BY <1>3, <1>4 DEF Unlink

LEMMA OwnWay ==
  ASSUME IInv, \A q \in Procs : FoundInv(q), NEW p \in Procs, WayInv(p), Step(p)
  PROVE  WayInv(p)' /\ ~Waiting(p)'
<1>1. FoundInv(p) /\ Steady(p)
  BY Effects
<1> QED
  BY <1>1, CheckSelfWay, FindParentWay, ClimbWay, ClimbUpWay, DescendWay, CheckParentWay,
     SystemMkdirWay, ChmodWay, CheckFileWay, UnlinkWay DEF Step

LEMMA OthersWay ==
  ASSUME IInv, \A r \in Procs : FoundInv(r), NEW p \in Procs, Step(p),
         NEW q \in Procs \ {p}, WayInv(q)
  PROVE  WayInv(q)'
<1>1. /\ stack'[q] = stack[q] /\ call' = call
      /\ found'[q] = IF Waiting(q) THEN fs' ELSE found[q]
      /\ \A node : Dir(node) => Dir(node)'
  BY StepLocal, Effects
<1>2. CASE ~Waiting(q)
  <2>1. Steady(q)
    BY <1>1, <1>2 DEF Steady, Dir
  <2> QED
    BY <1>1, <2>1, WayKept
<1>3. CASE Waiting(q)
  <2>1. PICK f : f = stack[q][1]
    OBVIOUS
  <2>2. Running(q) /\ Len(stack[q]) = 1 /\ f.pc \in {"exists", "rm"} /\ frame(q) = f
    BY <1>3, <2>1, Innermost DEF Waiting
  <2>3. FirstWay(q, f)
    BY <2>1, <2>2 DEF WayInv, Running
  <2>4. target(q)' = target(q) /\ Makers' = Makers
    BY <1>1 DEF target, Makers
  <2>5. f.pc = "rm" => ~Sound(q)'
    BY <2>2, <2>4, MakersAt DEF Sound
  <2>6. f.pc = "exists" => f.ancestors = <<>> /\ DOMAIN f.ancestors = {}
    BY <2>3 DEF FirstWay
  <2>7. FirstWay(q, f)'
    BY <1>1, <2>2, <2>3, <2>4, <2>5, <2>6 DEF FirstWay
  <2>8. Len(stack'[q]) # 2 /\ f.pc # "descend" /\ stack'[q][1] = f
    BY <1>1, <2>1, <2>2
  <2> QED
    BY <2>7, <2>8 DEF WayInv
<1> QED
  BY <1>2, <1>3

LEMMA FoundStep ==
  ASSUME IInv, \A r \in Procs : FoundInv(r), NEW p \in Procs, Step(p), ~Waiting(p)',
         NEW q \in Procs
  PROVE  FoundInv(q)'
<1>1. /\ found'[q] = IF Waiting(q) THEN fs' ELSE found[q]
      /\ Waiting(q) => raced'[q] = raced[q]
      /\ \A node : Dir(node) => Dir(node)'
      /\ \A node \in DOMAIN fs' :
           fs'[node] = "file" => node \in DOMAIN fs /\ fs[node] = "file"
  BY Effects
<1>2. Waiting(q)' => Waiting(q)
  <2>1. q # p => stack'[q] = stack[q]
    BY StepLocal
  <2> QED
    BY <2>1 DEF Waiting, Running, frame
<1>3. FoundInv(q)
  OBVIOUS
<1>4. CASE Waiting(q)
  BY <1>1, <1>2, <1>3, <1>4 DEF FoundInv, Dir
<1>5. CASE ~Waiting(q)
  BY <1>1, <1>2, <1>3, <1>5 DEF FoundInv
<1> QED
  BY <1>4, <1>5

-----------------------------------------------------------------------------
(* What a step does to the activations. *)

LEMMA WiderSeq ==
  ASSUME NEW A, NEW B, A \subseteq B, NEW s \in Seq(A)
  PROVE  s \in Seq(B)
OBVIOUS

LEMMA ReplaceShape ==
  ASSUME IInv, NEW p \in Procs, Running(p), NEW f, Replace(p, f)
  PROVE  /\ Len(stack'[p]) = Len(stack[p])
         /\ Len(stack[p]) = 1 => stack'[p][1] = f
         /\ Len(stack[p]) = 2 => stack'[p][1] = stack[p][1] /\ stack'[p][2] = f
<1> DEFINE n == Len(stack[p])
           T == Frames \union {f}
           st == Append(Front(stack[p]), f)
<1>1. /\ n = 1 \/ n = 2
      /\ Front(stack[p]) \in Seq(Frames) /\ Len(Front(stack[p])) = n - 1
      /\ \A i \in 1..(n - 1) : Front(stack[p])[i] = stack[p][i]
  BY Innermost
<1>2. Front(stack[p]) \in Seq(T) /\ f \in T
  <2>1. Frames \subseteq T /\ f \in T
    OBVIOUS
  <2> HIDE DEF T
  <2> QED
    BY <1>1, <2>1, WiderSeq
<1>3. stack'[p] = st
  BY DEF Replace, IInv, Types
<1> HIDE DEF T
<1>4. /\ Len(st) = (n - 1) + 1
      /\ \A i \in 1..(n - 1) : st[i] = Front(stack[p])[i]
      /\ st[(n - 1) + 1] = f
  BY <1>1, <1>2, Extended
<1> HIDE DEF st
<1> QED
  BY <1>1, <1>3, <1>4

LEMMA ReturnShape ==
  ASSUME IInv, NEW p \in Procs, Running(p), Return(p)
  PROVE  /\ Len(stack[p]) = 1 => stack'[p] = <<>>
         /\ Len(stack[p]) = 2 =>
              /\ Len(stack'[p]) = 1 /\ stack'[p][1] = stack[p][1]
              /\ stack[p][1].pc = "descend"
<1> DEFINE n == Len(stack[p])
           st == Front(stack[p])
<1>1. /\ n = 1 \/ n = 2
      /\ st \in Seq(Frames) /\ Len(st) = n - 1
      /\ \A i \in 1..(n - 1) : st[i] = stack[p][i]
  BY Innermost
<1>2. stack'[p] = st
  BY DEF Return, IInv, Types
<1>3. n = 2 => stack[p][1].pc = "descend"
  BY DEF IInv, StackInv
<1> HIDE DEF st
<1>4. CASE n = 1
  BY <1>1, <1>2, <1>4
<1>5. CASE n = 2
  <2>1. Len(st) = 1 /\ 1 \in 1..(n - 1)
    BY <1>1, <1>5
  <2>2. st[1] = stack[p][1]
    BY <1>1, <2>1
  <2> QED
    BY <1>2, <1>3, <1>5, <2>1, <2>2
<1> QED
  BY <1>1, <1>4, <1>5

(* An activation calls mkdir again. *)
Push(p, g, h) == stack'[p] = Append(Append(Front(stack[p]), g), h)

LEMMA PushShape ==
  ASSUME IInv, NEW p \in Procs, Running(p), Len(stack[p]) = 1, NEW g, NEW h, Push(p, g, h)
  PROVE  Len(stack'[p]) = 2 /\ stack'[p][1] = g /\ stack'[p][2] = h
<1>1. Front(stack[p]) = <<>>
  <2>1. Front(stack[p]) \in Seq(Frames) /\ Len(Front(stack[p])) = 1 - 1
    BY Innermost
  <2> QED
    BY <2>1
<1>2. PICK st : st = Append(Append(<<>>, g), h)
  OBVIOUS
<1>3. stack'[p] = st
  BY <1>1, <1>2 DEF Push
<1>4. PICK T : g \in T /\ h \in T
  <2>1. g \in {g, h} /\ h \in {g, h}
    OBVIOUS
  <2> QED
    BY <2>1
<1>5. PICK one : one = Append(<<>>, g)
  OBVIOUS
<1>6. one \in Seq(T) /\ Len(one) = 1 /\ one[1] = g
  BY <1>4, <1>5
<1>7. Len(st) = 2 /\ st[1] = g /\ st[2] = h
  BY <1>2, <1>4, <1>5, <1>6
<1> QED
  BY <1>3, <1>7

-----------------------------------------------------------------------------
(* What is in nobody's way stays so, until another process makes it. *)

(* What p finds to exist, or not, is its target, or lies before it. *)
LEMMA FileOnWay ==
  ASSUME IInv, NEW p \in Procs, FoundInv(p), WayInv(p), Sound(p), Running(p),
         frame(p).pc \in {"exists", "mkdir"}
  PROVE  LET path == frame(p).file.path IN
         /\ path # <<>> /\ IsPrefix(Node(path), target(p)) /\ Node(path) \in Seq(Names)
         /\ Len(stack[p]) = 1 => Node(path) = target(p)
         /\ Len(stack[p]) = 2 => Node(path) # target(p)
<1> DEFINE path == frame(p).file.path
<1>1. path \in Path /\ (Len(stack[p]) = 1 \/ Len(stack[p]) = 2)
  BY Innermost DEF Frames, Files
<1>2. target(p) \in Seq(Names) /\ call[p].path # <<>> /\ Node(path) \in Seq(Names)
  BY <1>1, PathFacts, AnchorFacts, NodeType
<1>3. CASE Len(stack[p]) = 1
  <2>1. frame(p) = stack[p][1] /\ FirstInv(p, frame(p)) /\ FirstWay(p, frame(p))
    BY <1>3, Innermost DEF WayInv, Running
  <2>2. path # <<>>
    BY <1>2, <2>1 DEF FirstWay, Labels
  <2>3. Node(path) = target(p)
    BY <2>1, <2>2 DEF FirstInv
  <2> QED
    BY <1>2, <1>3, <2>2, <2>3, PrefixItself
<1>4. CASE Len(stack[p]) = 2
  <2>1. Begins(p, path) /\ Node(path) # target(p)
    BY <1>4, Innermost DEF WayInv, SecondWay
  <2>2. path # <<>> /\ IsPrefix(Node(path), target(p))
    BY <1>1, <2>1, BeginsFacts
  <2> QED
    BY <1>2, <1>4, <2>1, <2>2
<1> QED
  BY <1>1, <1>3, <1>4

LEMMA ClearReturn ==
  ASSUME IInv, NEW p \in Procs, Running(p), Clear(p), Return(p), Running(p)',
         DOMAIN fs' \subseteq DOMAIN fs, call' = call
  PROVE  Clear(p)'
<1>1. Len(stack[p]) = 2
  BY Innermost, ReturnShape DEF Running
<1>2. Len(stack'[p]) = 1 /\ stack'[p][1] = stack[p][1] /\ stack[p][1].pc = "descend"
  BY <1>1, ReturnShape
<1>3. target(p)' = target(p)
  BY DEF target
<1>4. Len(stack'[p]) # 2
  BY <1>2
<1> QED
  BY <1>2, <1>3, <1>4 DEF Clear

LEMMA ClearReplace ==
  ASSUME IInv, NEW p \in Procs, Running(p), Clear(p), NEW f, Replace(p, f),
         DOMAIN fs' \subseteq DOMAIN fs, call' = call,
         Len(stack[p]) = 1 => target(p) \notin DOMAIN fs,
         Len(stack[p]) = 2 => Node(f.file.path) \notin DOMAIN fs
  PROVE  Clear(p)'
<1>1. target(p)' = target(p)
  BY DEF target
<1>2. /\ Len(stack'[p]) = Len(stack[p])
      /\ Len(stack[p]) = 2 => stack'[p][1] = stack[p][1] /\ stack'[p][2] = f
  BY ReplaceShape
<1>3. Len(stack[p]) = 1 \/ Len(stack[p]) = 2
  BY Innermost
<1>4. CASE Len(stack[p]) = 1
  <2>1. Len(stack'[p]) # 2
    BY <1>2, <1>4
  <2> QED
    BY <1>1, <1>4, <2>1 DEF Clear
<1>5. CASE Len(stack[p]) = 2
  <2>1. stack[p][1].pc = "descend"
    BY <1>5 DEF IInv, StackInv
  <2>2. target(p) \notin DOMAIN fs
    BY <2>1 DEF Clear
  <2> QED
    BY <1>1, <1>2, <1>5, <2>2 DEF Clear
<1> QED
  BY <1>3, <1>4, <1>5

LEMMA OwnClear ==
  ASSUME IInv, \A q \in Procs : FoundInv(q), NEW p \in Procs, WayInv(p), Sound(p), Clear(p),
         Step(p), ~Makes(p), Running(p)'
  PROVE  Clear(p)'
<1>1. /\ Running(p) /\ DOMAIN fs' \subseteq DOMAIN fs /\ call' = call /\ FoundInv(p)
      /\ frame(p) \in Frames /\ p \in Makers
      /\ \/ Len(stack[p]) = 1 /\ frame(p) = stack[p][1]
         \/ Len(stack[p]) = 2 /\ frame(p) = stack[p][2]
  BY StepLocal, Effects, Innermost DEF Sound
<1>2. ~Throw(p)
  BY WayThrow
<1>3. ASSUME frame(p).pc \in Labels \ {"exists", "chmod"}
      PROVE  /\ Len(stack[p]) = 1 => target(p) \notin DOMAIN fs
             /\ Len(stack[p]) = 2 => Node(frame(p).file.path) \notin DOMAIN fs
  BY <1>1, <1>3 DEF Clear
<1>4. CASE Return(p)
  BY <1>1, <1>4, ClearReturn
<1>5. CASE CheckSelf(p) /\ Stat(frame(p).file.path) = "none" /\ Goto(p, "parent")
  <2>1. frame(p).pc = "exists"
    BY <1>5 DEF CheckSelf, At
  <2>2. /\ frame(p).file.path # <<>> /\ IsPrefix(Node(frame(p).file.path), target(p))
        /\ Len(stack[p]) = 1 => Node(frame(p).file.path) = target(p)
    BY <1>1, <2>1, FileOnWay
  <2>3. Node(frame(p).file.path) \notin DOMAIN fs
    BY <1>1, <1>5, <2>2, StatOnWay
  <2>4. PICK f : f = [frame(p) EXCEPT !.pc = "parent"]
    OBVIOUS
  <2>5. Replace(p, f) /\ f.file = frame(p).file
    BY <1>1, <1>5, <2>4 DEF Goto, Frames
  <2> QED
    BY <1>1, <2>2, <2>3, <2>5, ClearReplace
<1>6. CASE FindParent(p) \/ Climb(p) \/ ClimbUp(p) \/ CheckParent(p)
           \/ (Descend(p) /\ frame(p).ancestors = <<>>)
  <2>1. frame(p).pc \in Labels \ {"exists", "chmod"}
    BY <1>6 DEF FindParent, Climb, ClimbUp, CheckParent, Descend, At, Labels
  <2>2. \E f : Replace(p, f) /\ f.file = frame(p).file
    <3>1. \A label : [frame(p) EXCEPT !.pc = label].file = frame(p).file
      BY <1>1 DEF Frames
    <3>2. \A dir, label :
            [frame(p) EXCEPT !.parentDir = dir, !.pc = label].file = frame(p).file
      BY <1>1 DEF Frames
    <3>3. \A list, label :
            [frame(p) EXCEPT !.ancestors = list, !.pc = label].file = frame(p).file
      BY <1>1 DEF Frames
    <3>4. CASE FindParent(p) \/ ClimbUp(p)
      <4>1. PICK dir, label : Replace(p, [frame(p) EXCEPT !.parentDir = dir, !.pc = label])
        BY <3>4 DEF FindParent, ClimbUp
      <4>2. PICK f : f = [frame(p) EXCEPT !.parentDir = dir, !.pc = label]
        OBVIOUS
      <4>3. Replace(p, f) /\ f.file = frame(p).file
        BY <3>2, <4>1, <4>2
      <4> QED
        BY <4>3
    <3>5. CASE \E label : Goto(p, label)
      <4>1. PICK label : Goto(p, label)
        BY <3>5
      <4>2. PICK f : f = [frame(p) EXCEPT !.pc = label]
        OBVIOUS
      <4>3. Replace(p, f) /\ f.file = frame(p).file
        BY <3>1, <4>1, <4>2 DEF Goto
      <4> QED
        BY <4>3
    <3>6. CASE \E list, label :
                 Replace(p, [frame(p) EXCEPT !.ancestors = list, !.pc = label])
      <4>1. PICK list, label :
              Replace(p, [frame(p) EXCEPT !.ancestors = list, !.pc = label])
        BY <3>6
      <4>2. PICK f : f = [frame(p) EXCEPT !.ancestors = list, !.pc = label]
        OBVIOUS
      <4>3. Replace(p, f) /\ f.file = frame(p).file
        BY <3>3, <4>1, <4>2
      <4> QED
        BY <4>3
    <3>7. Climb(p) =>
            \/ \E label : Goto(p, label)
            \/ \E list, label :
                 Replace(p, [frame(p) EXCEPT !.ancestors = list, !.pc = label])
      BY DEF Climb
    <3>8. CheckParent(p) \/ (Descend(p) /\ frame(p).ancestors = <<>>) =>
            \E label : Goto(p, label)
      BY <1>2 DEF CheckParent, Descend
    <3> QED
      BY <1>6, <3>4, <3>5, <3>6, <3>7, <3>8
  <2> QED
    BY <1>1, <1>3, <2>1, <2>2, ClearReplace
<1>7. CASE Descend(p) /\ frame(p).ancestors # <<>>
  <2>1. frame(p).pc = "descend" /\ Len(stack[p]) = 1
    BY <1>1, <1>7, ClimbsFirst DEF Descend, At
  <2>2. target(p) \notin DOMAIN fs
    BY <1>3, <2>1 DEF Labels
  <2>3. PICK g, h : Push(p, g, h) /\ h.pc = "exists"
    <3>1. PICK g : g = [frame(p) EXCEPT !.ancestors = Tail(@)]
      OBVIOUS
    <3>2. PICK h : h = Frame(Head(frame(p).ancestors), FALSE)
      OBVIOUS
    <3>3. stack' = [stack EXCEPT ![p] = Append(Append(Front(@), g), h)]
      BY <1>7, <3>1, <3>2 DEF Descend
    <3>4. Push(p, g, h) /\ h.pc = "exists"
      BY <3>2, <3>3 DEF Push, Frame, IInv, Types
    <3> QED
      BY <3>4
  <2>4. stack'[p][2] = h
    <3>1. Running(p) /\ Len(stack[p]) = 1 /\ Push(p, g, h)
      BY <1>1, <2>1, <2>3
    <3> QED
      BY <3>1, PushShape
  <2>5. target(p)' = target(p)
    BY <1>1 DEF target
  <2> QED
    BY <1>1, <2>2, <2>3, <2>4, <2>5 DEF Clear
<1>8. CASE SystemMkdir(p)
  BY <1>2, <1>8 DEF SystemMkdir, Makes
<1>9. CASE CheckFile(p) \/ Unlink(p)
  <2>1. frame(p).pc \in {"rm", "unlink"}
    BY <1>9 DEF CheckFile, Unlink, At
  <2> QED
    BY <1>1, <2>1, MakersAt
<1>10. CASE CheckSelf(p)
  BY <1>2, <1>4, <1>5, <1>10 DEF CheckSelf
<1>11. CASE Chmod(p)
  BY <1>4, <1>11 DEF Chmod
<1> QED
  BY <1>6, <1>7, <1>8, <1>9, <1>10, <1>11 DEF Step

LEMMA MakesClear ==
  ASSUME IInv, NEW p \in Procs, FoundInv(p), WayInv(p), Sound(p), Makes(p)
  PROVE  Clear(p)' /\ Running(p)'
<1>1. /\ Running(p) /\ frame(p).pc = "mkdir" /\ call' = call /\ Goto(p, "chmod")
      /\ Subject(p) \in Seq(Names) /\ Subject(p) \notin DOMAIN fs
      /\ IsPrefix(Subject(p), target(p)) /\ DOMAIN fs' = DOMAIN fs \union {Subject(p)}
  BY MakesFacts
<1>2. frame(p) \in Frames /\ (Len(stack[p]) = 1 \/ Len(stack[p]) = 2)
  BY <1>1, Innermost
<1>3. PICK f : f = [frame(p) EXCEPT !.pc = "chmod"]
  OBVIOUS
<1>4. Replace(p, f) /\ f.pc = "chmod"
  BY <1>1, <1>2, <1>3 DEF Goto, Frames
<1>5. /\ Len(stack'[p]) = Len(stack[p])
      /\ Len(stack[p]) = 1 => stack'[p][1] = f
      /\ Len(stack[p]) = 2 => stack'[p][1] = stack[p][1] /\ stack'[p][2] = f
  BY <1>1, <1>4, ReplaceShape
<1>6. Running(p)'
  <2>1. Len(<<>>) # 1 /\ Len(<<>>) # 2
    OBVIOUS
  <2> QED
    BY <1>2, <1>5, <2>1 DEF Running
<1>7. target(p)' = target(p)
  BY <1>1 DEF target
<1>8. CASE Len(stack[p]) = 1
  <2>1. Len(stack'[p]) # 2
    BY <1>5, <1>8
  <2> QED
    BY <1>4, <1>5, <1>6, <1>8, <2>1 DEF Clear
<1>9. CASE Len(stack[p]) = 2
  <2>1. Subject(p) # target(p)
    BY <1>1, <1>9, FileOnWay DEF Subject
  <2>2. target(p) \notin DOMAIN fs
    BY <1>1, <2>1, TreeClosed DEF IInv, Types
  <2>3. target(p) \notin DOMAIN fs'
    BY <1>1, <2>1, <2>2
  <2> QED
    BY <1>4, <1>5, <1>6, <1>7, <1>9, <2>3 DEF Clear
<1> QED
  BY <1>2, <1>8, <1>9

-----------------------------------------------------------------------------
(* The causes of a failure. *)

LEMMA ThrowCause ==
  ASSUME IInv, NEW p \in Procs, FoundInv(p), WayInv(p), Sound(p), Step(p),
         result'[p] = "thrown", Clear(p)
  PROVE  ~call[p].createParents /\ Front(target(p)) \notin DOMAIN found[p]
<1> DEFINE path == frame(p).file.path
           node == Node(path)
<1>1. /\ Running(p) /\ result[p] = "running" /\ p \in Makers /\ target(p) \in Seq(Names)
      /\ \/ Len(stack[p]) = 1 /\ frame(p) = stack[p][1]
         \/ Len(stack[p]) = 2 /\ frame(p) = stack[p][2]
  BY StepLocal, Innermost, PathFacts DEF Sound
<1>2. frame(p).pc \notin {"rm", "unlink"}
  BY <1>1, MakersAt
<1>3. \/ CheckSelf(p) /\ Stat(path) = "file"
      \/ CheckParent(p) /\ Stat(frame(p).parentDir.path) = "none"
      \/ SystemMkdir(p) /\ ~Vacant(path)
  <2>1. result' # result /\ ~Return(p)
    BY <1>1 DEF Return, IInv, Types
  <2> QED
    BY <1>2, <2>1
    DEF Step, CheckSelf, FindParent, Climb, ClimbUp, Descend, CheckParent, SystemMkdir,
        Chmod, CheckFile, Unlink, At
<1>4. CASE CheckSelf(p) /\ Stat(path) = "file"
  <2>1. frame(p).pc = "exists"
    BY <1>4 DEF CheckSelf, At
  <2>2. path # <<>> /\ IsPrefix(node, target(p))
    BY <1>1, <2>1, FileOnWay
  <2>3. Stat(path) # "file"
    BY <2>2, StatOnWay
  <2> QED
    BY <1>4, <2>3
<1>5. CASE CheckParent(p) /\ Stat(frame(p).parentDir.path) = "none"
  <2>1. frame(p).pc = "check" /\ frame(p).parentDir.path \in Path
    BY <1>1, <1>5, Innermost DEF CheckParent, At, Frames, Files
  <2>2. CASE Len(stack[p]) = 2
    <3>1. node \notin DOMAIN fs
      BY <1>1, <2>1, <2>2 DEF Clear
    <3>2. SecondWay(p, stack[p][1], frame(p))
      BY <1>1, <2>2 DEF WayInv
    <3>3. /\ frame(p).parentDir.path # <<>> /\ Dir(Node(frame(p).parentDir.path))
      BY <2>1, <3>1, <3>2 DEF SecondWay, Dir
    <3>4. Stat(frame(p).parentDir.path) = "dir"
      BY <3>3 DEF Stat, Dir
    <3> QED
      BY <1>5, <3>4
  <2>3. CASE Len(stack[p]) = 1
    <3>1. FirstWay(p, frame(p)) /\ FirstInv(p, frame(p)) /\ target(p) \notin DOMAIN fs
      BY <1>1, <2>1, <2>3, Innermost DEF WayInv, Clear, Running
    <3>2. ~call[p].createParents
      BY <2>1, <3>1 DEF FirstWay, FirstInv
    <3>3. Begins(p, frame(p).parentDir.path) /\ Node(frame(p).parentDir.path) = Front(target(p))
      BY <2>1, <3>1 DEF FirstWay, Dir
    <3>4. /\ frame(p).parentDir.path # <<>>
          /\ IsPrefix(Node(frame(p).parentDir.path), target(p))
      BY <2>1, <3>3, BeginsFacts
    <3>5. Front(target(p)) \notin DOMAIN fs
      BY <1>5, <3>3, <3>4, StatOnWay
    <3>6. IsPrefix(Front(target(p)), target(p))
      BY <3>3, <3>4
    <3>7. ASSUME Front(target(p)) \in DOMAIN found[p] PROVE FALSE
      <4>1. found[p][Front(target(p))] \in {"dir", "file"}
        BY <3>7 DEF IInv, Types, Tree, Kinds
      <4>2. found[p][Front(target(p))] # "file"
        BY <3>6, <3>7 DEF Sound, Blocked
      <4>3. found[p][Front(target(p))] # "dir"
        BY <3>5, <3>7 DEF FoundInv, Dir
      <4> QED
        BY <4>1, <4>2, <4>3
    <3> QED
      BY <3>2, <3>7
  <2> QED
    BY <1>1, <2>2, <2>3
<1>6. CASE SystemMkdir(p) /\ ~Vacant(path)
  <2>1. frame(p).pc = "mkdir"
    BY <1>6 DEF SystemMkdir, At
  <2>2. path # <<>> /\ (Len(stack[p]) = 1 => node = target(p))
    BY <1>1, <2>1, FileOnWay
  <2>3. node \notin DOMAIN fs
    BY <1>1, <2>1, <2>2 DEF Clear
  <2>4. Dir(Front(node))
    <3>1. CASE Len(stack[p]) = 1
      BY <1>1, <2>1, <2>2, <2>3, <3>1 DEF WayInv, FirstWay, Dir, Running
    <3>2. CASE Len(stack[p]) = 2
      BY <1>1, <2>1, <2>3, <3>2 DEF WayInv, SecondWay, Dir
    <3> QED
      BY <1>1, <3>1, <3>2
  <2>5. Vacant(path)
    BY <2>2, <2>3, <2>4 DEF Vacant, Dir
  <2> QED
    BY <1>6, <2>5
<1> QED
  BY <1>3, <1>4, <1>5, <1>6

(* A step leaves alone what is known of a call that has begun. *)
LEMMA BegunKept ==
  ASSUME IInv, \A r \in Procs : FoundInv(r), NEW p \in Procs, Step(p),
         NEW q \in Procs, q = p \/ ~Waiting(q)
  PROVE  /\ Sound(q)' <=> Sound(q)
         /\ found'[q] = found[q] /\ target(q)' = target(q) /\ call'[q] = call[q]
<1>1. Steady(q)
  BY Effects DEF Steady, Dir
<1> QED
  BY <1>1, SoundKept DEF Steady

LEMMA WaitingKept ==
  ASSUME IInv, NEW p \in Procs, Step(p), ~Waiting(p)', NEW q \in Procs
  PROVE  Waiting(q)' => Waiting(q) /\ q # p
<1>1. q # p => stack'[q] = stack[q]
  BY StepLocal
<1> QED
  BY <1>1 DEF Waiting, Running, frame

LEMMA ThrownStep ==
  ASSUME IInv, RaceInv, NEW p \in Procs, Step(p)
  PROVE  ThrownForCause'
<1>0. /\ \A q \in Procs : FoundInv(q) /\ WayInv(q) /\ RacedInv(q)
      /\ ThrownForCause
  BY DEF RaceInv
<1>1. call' = call /\ Makers' = Makers /\ \A q \in Procs : raced[q] \subseteq raced'[q]
  BY <1>0, Effects DEF Makers
<1>2. ASSUME NEW q \in Makers, result'[q] = "thrown", Anchored(q)'
      PROVE  \/ Blocked(q)' \/ OwnParent(q)'
             \/ ~call'[q].createParents /\ Front(target(q)') \notin DOMAIN found'[q]
             \/ \E node \in raced'[q] : IsPrefix(node, target(q)')
  <2>1. q \in Procs /\ (OwnParent(q)' <=> OwnParent(q))
    BY <1>1 DEF Makers, OwnParent
  <2>2. q = p \/ ~Waiting(q)
    <3>1. CASE q # p
      <4>1. result[q] = "thrown"
        BY <1>2, <2>1, <3>1, StepLocal
      <4>2. ~Running(q)
        BY <2>1, <4>1 DEF Running, IInv, StackInv
      <4> QED
        BY <4>2 DEF Waiting
    <3> QED
      BY <3>1
  <2>3. found'[q] = found[q] /\ target(q)' = target(q) /\ call'[q] = call[q]
    BY <1>0, <2>1, <2>2, BegunKept
  <2>4. (Anchored(q)' <=> Anchored(q)) /\ (Blocked(q)' <=> Blocked(q))
    BY <2>3 DEF Anchored, Blocked
  <2>5. CASE result[q] = "thrown"
    <3>1. \/ Blocked(q) \/ OwnParent(q)
          \/ ~call[q].createParents /\ Front(target(q)) \notin DOMAIN found[q]
          \/ \E node \in raced[q] : IsPrefix(node, target(q))
      BY <1>0, <1>2, <2>4, <2>5 DEF ThrownForCause
    <3> QED
      BY <1>1, <2>1, <2>3, <2>4, <3>1
  <2>6. CASE result[q] # "thrown"
    <3>1. q = p
      BY <1>2, <2>1, <2>6, StepLocal
    <3>2. CASE Blocked(q) \/ OwnParent(q)
      BY <2>1, <2>4, <3>2
    <3>3. CASE ~Blocked(q) /\ ~OwnParent(q)
      <4>1. Sound(p)
        BY <1>2, <2>4, <3>1, <3>3 DEF Sound
      <4>2. CASE Clear(p)
        <5>1. ~call[p].createParents /\ Front(target(p)) \notin DOMAIN found[p]
          BY <1>0, <1>2, <3>1, <4>1, <4>2, ThrowCause
        <5> QED
          BY <2>3, <3>1, <5>1
      <4>3. CASE ~Clear(p)
        <5>1. Running(p)
          BY StepLocal
        <5>2. \E node \in raced[p] : IsPrefix(node, target(p))
          BY <1>0, <4>1, <4>3, <5>1 DEF RacedInv
        <5> QED
          BY <1>1, <2>1, <2>3, <3>1, <5>2
      <4> QED
        BY <4>2, <4>3
    <3> QED
      BY <3>2, <3>3
  <2> QED
    BY <2>5, <2>6
<1> QED
  BY <1>1, <1>2 DEF ThrownForCause

(* Who is overtaken has seen it. *)
LEMMA RacedStep ==
  ASSUME IInv, RaceInv, NEW p \in Procs, Step(p), NEW q \in Procs
  PROVE  RacedInv(q)'
<1>0. \A r \in Procs : FoundInv(r) /\ WayInv(r) /\ RacedInv(r)
  BY DEF RaceInv
<1>1. /\ call' = call /\ target(q)' = target(q) /\ raced[q] \subseteq raced'[q]
      /\ ~Makes(p) => DOMAIN fs' \subseteq DOMAIN fs
      /\ q # p => stack'[q] = stack[q]
  BY <1>0, Effects, StepLocal DEF target
<1> SUFFICES ASSUME Sound(q)', Running(q)'
             PROVE  Clear(q)' \/ \E node \in raced'[q] : IsPrefix(node, target(q))
  BY <1>1 DEF RacedInv
<1>2. CASE q = p
  <2>1. Sound(p) /\ Running(p)
    BY <1>0, <1>2, BegunKept, StepLocal
  <2>2. CASE Makes(p)
    BY <1>0, <1>2, <2>1, <2>2, MakesClear
  <2>3. CASE ~Makes(p) /\ Clear(p)
    BY <1>0, <1>2, <2>1, <2>3, OwnClear
  <2>4. CASE ~Clear(p)
    BY <1>0, <1>1, <1>2, <2>1, <2>4 DEF RacedInv
  <2> QED
    BY <2>2, <2>3, <2>4
<1>3. CASE q # p /\ Waiting(q)
  <2>1. Running(q) /\ Len(stack[q]) = 1 /\ frame(q) = stack[q][1]
    BY <1>3, Innermost DEF Waiting
  <2>2. q \in Makers
    BY <1>1 DEF Sound, Makers
  <2>3. stack[q][1].pc = "exists"
    BY <1>3, <2>1, <2>2, MakersAt DEF Waiting
  <2>4. Len(stack'[q]) # 2 /\ stack'[q][1].pc = "exists"
    BY <1>1, <1>3, <2>1, <2>3
  <2> QED
    BY <2>4 DEF Clear
<1>4. CASE q # p /\ ~Waiting(q)
  <2>1. Sound(q) /\ Running(q) /\ stack'[q] = stack[q]
    BY <1>0, <1>1, <1>4, BegunKept DEF Running
  <2>2. CASE ~Clear(q)
    BY <1>0, <1>1, <2>1, <2>2 DEF RacedInv
  <2>3. CASE Clear(q) /\ ~Makes(p)
    BY <1>1, <2>1, <2>3 DEF Clear
  <2>4. CASE Clear(q) /\ Makes(p)
    <3>1. /\ DOMAIN fs' = DOMAIN fs \union {Subject(p)}
          /\ Subject(p) \in raced'[q]
      <4>1. /\ DOMAIN fs' = DOMAIN fs \union {Subject(p)}
            /\ raced'[q] = raced[q] \union
                 IF q = p \/ ~Running(q) \/ Waiting(q) THEN {} ELSE {Subject(p)}
        BY <2>4, MakesFacts
      <4> QED
        BY <1>4, <2>1, <4>1
    <3>2. target(q) \in Seq(Names) /\ IsPrefix(target(q), target(q))
      BY PathFacts, PrefixItself
    <3>3. Len(stack[q]) = 2 => IsPrefix(Node(stack[q][2].file.path), target(q))
      <4> SUFFICES ASSUME Len(stack[q]) = 2
                   PROVE  IsPrefix(Node(stack[q][2].file.path), target(q))
        OBVIOUS
      <4>1. Begins(q, stack[q][2].file.path)
        BY <1>0, <2>1 DEF WayInv, SecondWay
      <4>2. stack[q][2].file.path \in Path
        BY <2>1, Innermost DEF Frames, Files
      <4> QED
        BY <1>0, <2>1, <4>1, <4>2, BeginsFacts
    <3>4. CASE Subject(p) = target(q)
      BY <3>1, <3>2, <3>4
    <3>5. CASE Len(stack[q]) = 2 /\ Subject(p) = Node(stack[q][2].file.path)
      BY <3>1, <3>3, <3>5
    <3>6. CASE /\ Subject(p) # target(q)
               /\ Len(stack[q]) = 2 => Subject(p) # Node(stack[q][2].file.path)
      BY <1>1, <2>1, <2>4, <3>1, <3>6 DEF Clear
    <3> QED
      BY <3>4, <3>5, <3>6
  <2> QED
    BY <2>2, <2>3, <2>4
<1> QED
  BY <1>2, <1>3, <1>4

(* Who makes a directory is not overtaken, until someone else makes one. *)
LEMMA SomeStep ==
  ASSUME IInv, IInv', RaceInv, NEW p \in Procs, Step(p), ~Waiting(p)'
  PROVE  SomeInv'
<1>0. (\A r \in Procs : FoundInv(r) /\ WayInv(r) /\ RacedInv(r)) /\ SomeInv
  BY DEF RaceInv
<1>1. call' = call /\ Makers' = Makers
  BY <1>0, Effects DEF Makers
<1>2. CASE Makes(p)
  <2>1. p \in Makers
    BY <1>2, MakesFacts
  <2>2. Sound(p)' => Running(p)' /\ Clear(p)'
    BY <1>0, <1>2, BegunKept, MakesClear
  <2> QED
    BY <1>1, <2>1, <2>2 DEF SomeInv
<1>3. CASE ~Makes(p)
  <2>1. maker' = maker /\ DOMAIN fs' \subseteq DOMAIN fs
    BY <1>0, <1>3, Effects
  <2> SUFFICES ASSUME DOMAIN maker # {} PROVE SomeInv'
    BY <2>1 DEF SomeInv
  <2>2. PICK r \in Procs :
          /\ r \in Makers /\ ~Waiting(r)
          /\ Sound(r) /\ call[r].createParents =>
               result[r] = "returned" \/ (Running(r) /\ Clear(r))
    BY <1>0 DEF SomeInv
  <2>3. ~Waiting(r)' /\ (Sound(r)' <=> Sound(r)) /\ target(r)' = target(r)
    BY <1>0, <2>2, BegunKept, WaitingKept
  <2>4. ASSUME Sound(r), call[r].createParents
        PROVE  result'[r] = "returned" \/ (Running(r)' /\ Clear(r)')
    <3>1. CASE result[r] = "returned"
      <4>1. r # p
        BY <3>1, StepLocal, Innermost
      <4> QED
        BY <3>1, <4>1, StepLocal
    <3>2. CASE Running(r) /\ Clear(r) /\ r # p
      <4>1. stack'[r] = stack[r]
        BY <3>2, StepLocal
      <4> QED
        BY <2>1, <2>3, <3>2, <4>1 DEF Clear, Running
    <3>3. CASE Running(r) /\ Clear(r) /\ r = p
      <4>1. CASE Running(p)'
        BY <1>0, <1>3, <2>4, <3>3, <4>1, OwnClear
      <4>2. CASE ~Running(p)'
        <5>1. result'[p] # "running" /\ result'[p] \in {"running", "returned", "thrown"}
          BY <4>2 DEF IInv, StackInv, Types, Running
        <5>2. result'[p] # "thrown"
          BY <1>0, <2>4, <3>3, ThrowCause
        <5> QED
          BY <3>3, <5>1, <5>2
      <4> QED
        BY <3>3, <4>1, <4>2
    <3> QED
      BY <2>2, <2>4, <3>1, <3>2, <3>3
  <2> QED
    BY <1>1, <2>2, <2>3, <2>4 DEF SomeInv
<1> QED
  BY <1>2, <1>3

LEMMA RaceNext ==
  ASSUME IInv, RaceInv, [Next]_vars
  PROVE  RaceInv'
<1>0. (\A q \in Procs : FoundInv(q) /\ WayInv(q) /\ RacedInv(q)) /\ ThrownForCause /\ SomeInv
  BY DEF RaceInv
<1>1. ASSUME NEW p \in Procs, Step(p) PROVE RaceInv'
  <2>1. IInv'
    BY <1>1, NextStep DEF Next
  <2>2. WayInv(p)' /\ ~Waiting(p)'
    BY <1>0, <1>1, OwnWay
  <2>3. \A q \in Procs : WayInv(q)'
    BY <1>0, <1>1, <2>2, OthersWay
  <2>4. \A q \in Procs : FoundInv(q)' /\ RacedInv(q)'
    BY <1>0, <1>1, <2>2, FoundStep, RacedStep
  <2>5. ThrownForCause' /\ SomeInv'
    BY <1>1, <2>1, <2>2, ThrownStep, SomeStep
  <2> QED
    BY <2>3, <2>4, <2>5 DEF RaceInv
<1>2. CASE UNCHANGED vars
  <2>1. /\ fs' = fs /\ stack' = stack /\ result' = result /\ call' = call
        /\ maker' = maker /\ found' = found /\ raced' = raced
    BY <1>2 DEF vars, history, others
  <2>2. \A q \in Procs : Steady(q)
    BY <2>1 DEF Steady
  <2>3. \A q \in Procs : WayInv(q)' /\ (Sound(q)' <=> Sound(q))
    BY <1>0, <2>1, <2>2, WayKept, SoundKept
  <2>4. \A q \in Procs : /\ Waiting(q)' <=> Waiting(q)
                         /\ Clear(q)' <=> Clear(q)
                         /\ target(q)' = target(q) /\ (Running(q)' <=> Running(q))
    BY <2>1 DEF Waiting, Running, frame, Clear, target
  <2>5. \A q \in Procs : FoundInv(q)' /\ RacedInv(q)'
    BY <1>0, <2>1, <2>3, <2>4 DEF FoundInv, RacedInv, Dir
  <2>6. SomeInv'
    BY <1>0, <2>1, <2>3, <2>4 DEF SomeInv, Makers
  <2>7. ThrownForCause'
    BY <1>0, <2>1 DEF ThrownForCause, Makers, Anchored, Blocked, OwnParent, target
  <2> QED
    BY <2>3, <2>5, <2>6, <2>7 DEF RaceInv
<1> QED
  BY <1>1, <1>2 DEF Next

LEMMA RaceInit ==
  ASSUME Init
  PROVE  RaceInv
<1>0. IInv
  BY InitIInv
<1>1. /\ DOMAIN maker = {} /\ \A q \in Procs : result[q] = "running"
  BY DEF Init
<1>2. ASSUME NEW p \in Procs PROVE FoundInv(p) /\ WayInv(p) /\ RacedInv(p)
  <2>1. FoundInv(p)
    BY DEF Init, FoundInv, Dir
  <2>2. PICK f : f = Activation(call[p])
    OBVIOUS
  <2>3. stack[p] = <<f>> /\ Len(stack[p]) = 1 /\ Len(stack[p]) # 2 /\ stack[p][1] = f
    BY <2>2 DEF Init
  <2>4. /\ f.file = NewFile(call[p].path) /\ f.ancestors = <<>>
        /\ f.pc = IF call[p].op = "rm" THEN "rm" ELSE "exists"
    BY <2>2 DEF Activation, Frame
  <2>5. f.file.path = call[p].path \/ (f.file.path # <<>> /\ Dir(target(p)))
    <3> DEFINE path == call[p].path
               pruned == IF Len(path) > 1 /\ Last(path) = Sep THEN Front(path) ELSE path
    <3>1. path \in Path
      BY <1>0, PathFacts
    <3>2. CASE Stat(path) = "dir"
      <4>1. NewFile(path) = [path |-> pruned, dir |-> Append(pruned, Sep)]
        BY <3>2 DEF NewFile
      <4>2. f.file.path = pruned
        BY <2>4, <4>1
      <4>3. Dir(target(p))
        BY <1>0, <3>2, StatFacts DEF IInv, Types, Dir, target
      <4>4. Len(path) > 1 => Front(path) # <<>>
        <5> HIDE DEF path
        <5> SUFFICES ASSUME Len(path) > 1 PROVE Front(path) # <<>>
          OBVIOUS
        <5>1. path # <<>> /\ Len(path) \in Nat
          BY <3>1 DEF Path
        <5>2. Len(Front(path)) = Len(path) - 1
          BY <3>1, <5>1, FrontFacts DEF Path
        <5> QED
          BY <5>1, <5>2
      <4> QED
        BY <4>2, <4>3, <4>4
    <3>3. CASE Stat(path) # "dir"
      BY <2>4, <3>3 DEF NewFile
    <3> QED
      BY <3>2, <3>3
  <2>6. DOMAIN f.ancestors = {}
    BY <2>4
  <2>7. FirstWay(p, f)
    BY <2>4, <2>5, <2>6 DEF FirstWay
  <2>8. WayInv(p)
    BY <2>3, <2>4, <2>7 DEF WayInv
  <2>9. Sound(p) => f.pc = "exists"
    BY <2>4 DEF Sound, Makers
  <2>10. RacedInv(p)
    BY <2>3, <2>9 DEF RacedInv, Clear
  <2> QED
    BY <2>1, <2>8, <2>10
<1>3. ThrownForCause /\ SomeInv
  BY <1>1 DEF ThrownForCause, SomeInv, Makers
<1> QED
  BY <1>2, <1>3 DEF RaceInv

(* Wherever the processes' system calls interleave, what mkdir has found to *)
(* be there is there when it needs it, and what it found missing is missing *)
(* until another process makes it.                                          *)
THEOREM RaceInvariant == Spec => [](IInv /\ RaceInv)
<1>1. Init => IInv /\ RaceInv
  BY InitIInv, RaceInit
<1>2. IInv /\ RaceInv /\ [Next]_vars => (IInv /\ RaceInv)'
  BY NextStep, RaceNext
<1> QED
  BY <1>1, <1>2, PTL DEF Spec

(* On a path with an anchor mkdir never fails without one of the causes     *)
(* that there are: something in the way, a parent it was not to create,     *)
(* another process on the same way, or separators at the end.               *)
THEOREM CauseOfThrow == Spec => []ThrownForCause
<1>1. RaceInv => ThrownForCause
  BY DEF RaceInv
<1> QED
  BY <1>1, RaceInvariant, PTL

(* Any number of processes that make directories, however they race: if     *)
(* nothing is in their way, one of them has made its directory when all     *)
(* have ended.                                                              *)
THEOREM NotAllFail == Spec => []SomeoneSucceeds
<1>1. IInv /\ RaceInv => SomeoneSucceeds
  <2> SUFFICES ASSUME IInv, RaceInv, Makers # {},
                      \A p \in Makers : /\ result[p] # "running"
                                        /\ Anchored(p) /\ ~Blocked(p) /\ ~OwnParent(p)
                                        /\ call[p].createParents
               PROVE  \E p \in Makers : result[p] = "returned"
    BY DEF SomeoneSucceeds
  <2>1. Makers \subseteq Procs /\ \A p \in Makers : Sound(p)
    BY DEF Makers, Sound
  <2>2. CASE DOMAIN maker = {}
    <3>1. PICK p \in Makers : TRUE
      OBVIOUS
    <3>2. raced[p] = {} /\ result[p] \in {"running", "returned", "thrown"}
      BY <2>1, <2>2 DEF IInv, Types
    <3>3. result[p] # "thrown"
      BY <3>1, <3>2 DEF RaceInv, ThrownForCause
    <3> QED
      BY <3>1, <3>2, <3>3
  <2>3. CASE DOMAIN maker # {}
    <3>1. PICK p \in Makers : result[p] = "returned" \/ Running(p)
      BY <2>1, <2>3 DEF RaceInv, SomeInv
    <3>2. ~Running(p)
      BY <2>1 DEF IInv, StackInv, Running
    <3> QED
      BY <3>1, <3>2
  <2> QED
    BY <2>2, <2>3
<1> QED
  BY <1>1, RaceInvariant, PTL

-----------------------------------------------------------------------------
(***************************************************************************)
(* OutputDir: several invocations that make their output directories, the  *)
(* directory of a header below it with File::mkdir, and the header.  The   *)
(* invariant says more of mkdir than its result, so it has one activation  *)
(* after the other again, for a target that the caller composed.           *)
(***************************************************************************)

MainSteps ==
  {"construct", "check", "shell", "validate", "compose", "parents", "making", "open",
   "failed", "exited"}

MainTypes ==
  /\ Tree(fs) /\ Tree(before)
  /\ stack \in [Procs -> Seq(Frames)]
  /\ result \in [Procs -> {"running", "returned", "thrown"}]
  /\ call \in [Procs -> [op : {"mkdir"}, path : Path, createParents : {TRUE}]]
  /\ maker \in [DOMAIN maker -> Procs]
  /\ step \in [Procs -> MainSteps] /\ arg \in [Procs -> Targets]
  /\ outputDir \in [Procs -> Files] /\ hFile \in [Procs -> Files]

(* The tree consists of what was there, as it was, and of what was made. *)
MainTreeInv ==
  /\ DOMAIN fs = DOMAIN before \union DOMAIN maker
  /\ \A node \in DOMAIN before : node \notin DOMAIN maker /\ fs[node] = before[node]

(* The path of a node with a separator at its end. *)
Closed(path, node) == path # <<>> /\ Last(path) = Sep /\ Node(path) = node

(* The way of an invocation to the path of its header: from the output      *)
(* directory, which is there, to the header and the directory it lies in    *)
(* (or, if a directory has the header's name, to that).                     *)
ComposeInv(p) ==
  /\ step[p] \in {"compose", "parents", "making", "open", "exited"} =>
       arg[p] # <<>> /\ asked(p) \in DOMAIN fs
  /\ step[p] \in {"check", "shell", "validate", "compose"} /\ WellSpelt(p) /\ arg[p] # <<>>
       => Closed(outputDir[p].dir, asked(p))
  /\ step[p] \in {"parents", "making", "open", "exited"} /\ WellSpelt(p) =>
       /\ hFile[p].path # <<>> /\ Node(hFile[p].path) = header(p)
       /\ \/ Closed(hFile[p].dir, Front(header(p)))
          \/ Closed(hFile[p].dir, header(p)) /\ Dir(header(p))

(* An activation of the generator's mkdir. *)
MakingInv(p, f) ==
  /\ FileLeads(f.file, target(p)) /\ FileLeads(f.parentDir, target(p))
  /\ \A k \in DOMAIN f.ancestors : FileLeads(f.ancestors[k], target(p))
  /\ f.pc \notin {"rm", "unlink"}
  /\ f.pc = "chmod" => Dir(Node(f.file.path))

(* The generator's mkdir is about the directory that the header lies in. *)
MkdirInv(p) ==
  /\ step[p] \notin {"making", "open", "failed", "exited"} => result[p] = "running"
  /\ step[p] = "making" =>
       /\ \A i \in DOMAIN stack[p] : MakingInv(p, stack[p][i])
       /\ stack[p] # <<>> => Node(stack[p][1].file.path) = target(p)
       /\ result[p] = "returned" => Dir(target(p))
       /\ WellSpelt(p) => target(p) = Front(header(p))

(* What an invocation has made, and what is there when it opens the header. *)
WrittenInv(p) ==
  /\ step[p] = "open" /\ WellSpelt(p) => Dir(Front(header(p)))
  /\ step[p] = "exited" /\ WellSpelt(p) => header(p) \in DOMAIN fs
  /\ \A node \in DOMAIN maker :
       maker[node] = p /\ WellSpelt(p) =>
         IsPrefix(asked(p), node) /\ (node = header(p) => fs[node] = "file")

OwnInv(p) == ComposeInv(p) /\ MkdirInv(p) /\ WrittenInv(p)

MainInv == MainTypes /\ MainTreeInv /\ \A p \in Procs : OwnInv(p)

-----------------------------------------------------------------------------
(* The path of the header. *)

LEMMA HeaderType ==
  /\ Header \in Path /\ Len(Header) \in Nat \ {0} /\ Header[Len(Header)] # Sep
  /\ Spelt(Header)
<1>1. Header \in Path /\ Header # <<>> /\ Last(Header) # Sep /\ Spelt(Header)
  BY HeaderPathAssumption
<1>2. Len(Header) \in Nat /\ Len(Header) # 0
  BY <1>1 DEF Path
<1> QED
  BY <1>1, <1>2 DEF Last

LEMMA Joined ==
  ASSUME NEW T, NEW s \in Seq(T), NEW t \in Seq(T)
  PROVE  /\ s \o t \in Seq(T) /\ Len(s \o t) = Len(s) + Len(t)
         /\ \A i \in 1..Len(s) : (s \o t)[i] = s[i]
         /\ \A i \in 1..Len(t) : (s \o t)[Len(s) + i] = t[i]
OBVIOUS

LEMMA JoinedEmpty ==
  ASSUME NEW T, NEW s \in Seq(T)
  PROVE  s \o <<>> = s
<1>1. <<>> \in Seq(T) /\ Len(<<>>) = 0
  OBVIOUS
<1>2. PICK u \in Seq(T) : u = s \o <<>>
  BY <1>1, Joined
<1>3. Len(u) = Len(s) /\ \A i \in 1..Len(s) : u[i] = s[i]
  BY <1>1, <1>2, Joined
<1> QED
  BY <1>2, <1>3

LEMMA JoinedAppend ==
  ASSUME NEW T, NEW s \in Seq(T), NEW t \in Seq(T), NEW e \in T
  PROVE  s \o Append(t, e) = Append(s \o t, e)
<1>1. PICK te \in Seq(T) : te = Append(t, e)
  BY Extended
<1>2. /\ Len(te) = Len(t) + 1 /\ te[Len(t) + 1] = e
      /\ \A i \in 1..Len(t) : te[i] = t[i]
  BY <1>1, Extended
<1>3. PICK st \in Seq(T) : st = s \o t
  BY Joined
<1>4. /\ Len(st) = Len(s) + Len(t)
      /\ \A i \in 1..Len(s) : st[i] = s[i]
      /\ \A i \in 1..Len(t) : st[Len(s) + i] = t[i]
  BY <1>3, Joined
<1>5. PICK u \in Seq(T) : u = s \o te
  BY Joined
<1>6. /\ Len(u) = Len(s) + Len(te)
      /\ \A i \in 1..Len(s) : u[i] = s[i]
      /\ \A i \in 1..Len(te) : u[Len(s) + i] = te[i]
  BY <1>5, Joined
<1>7. PICK v \in Seq(T) : v = Append(st, e)
  BY Extended
<1>8. /\ Len(v) = Len(st) + 1 /\ v[Len(st) + 1] = e
      /\ \A i \in 1..Len(st) : v[i] = st[i]
  BY <1>7, Extended
<1>9. Len(s) \in Nat /\ Len(t) \in Nat
  OBVIOUS
<1>10. Len(u) = Len(v)
  BY <1>2, <1>4, <1>6, <1>8, <1>9
<1>11. ASSUME NEW i \in 1..Len(u) PROVE u[i] = v[i]
  <2>1. CASE i <= Len(s)
    BY <1>2, <1>4, <1>6, <1>8, <1>9, <2>1
  <2>2. CASE i > Len(s)
    <3>1. PICK j \in 1..Len(te) : i = Len(s) + j
      <4>1. i - Len(s) \in 1..Len(te) /\ i = Len(s) + (i - Len(s))
        BY <1>2, <1>6, <1>9, <2>2
      <4> QED
        BY <4>1
    <3>2. u[i] = te[j]
      BY <1>6, <3>1
    <3>3. CASE j = Len(t) + 1
      BY <1>2, <1>4, <1>8, <1>9, <3>1, <3>2, <3>3
    <3>4. CASE j # Len(t) + 1
      <4>1. j \in 1..Len(t)
        BY <1>2, <1>9, <3>4
      <4>2. i \in 1..Len(st)
        BY <1>4, <1>9, <3>1, <4>1
      <4> QED
        BY <1>2, <1>4, <1>8, <3>1, <3>2, <4>1, <4>2
    <3> QED
      BY <3>3, <3>4
  <2> QED
    BY <1>9, <2>1, <2>2
<1>12. u = v
  BY <1>10, <1>11
<1> QED
  BY <1>1, <1>3, <1>5, <1>7, <1>12

(* A path that goes on behind a separator goes on from the node it is at.   *)
LEMMA NodeOfJoined ==
  ASSUME NEW d \in Path, d # <<>>, NEW h \in Path
  PROVE  /\ d \o h \in Path /\ <<Sep>> \o h \in Path
         /\ \A j \in 0..Len(h) :
              Walk[d \o h][Len(d) + j] = Node(d) \o Walk[<<Sep>> \o h][1 + j]
<1> DEFINE s == d \o h
           r == <<Sep>> \o h
           S == {j \in Nat : j <= Len(h) =>
                               Walk[s][Len(d) + j] = Node(d) \o Walk[r][1 + j]}
<1>0. Len(d) \in Nat /\ Len(d) # 0 /\ Len(h) \in Nat /\ Node(d) \in Seq(Names)
  BY WalkStep, NodeType DEF Path
<1>1. /\ s \in Path /\ Len(s) = Len(d) + Len(h)
      /\ \A i \in 1..Len(d) : s[i] = d[i]
      /\ \A i \in 1..Len(h) : s[Len(d) + i] = h[i]
  BY Joined DEF Path
<1>2. <<Sep>> \in Path /\ Len(<<Sep>>) = 1 /\ <<Sep>>[1] = Sep
  BY DEF Path
<1>3. /\ r \in Path /\ Len(r) = 1 + Len(h) /\ r[1] = Sep
      /\ \A i \in 1..Len(h) : r[1 + i] = h[i]
  <2> PICK one \in Path : one = <<Sep>> /\ Len(one) = 1 /\ one[1] = Sep
    BY <1>2
  <2>1. /\ one \o h \in Path /\ Len(one \o h) = 1 + Len(h)
        /\ \A i \in 1..1 : (one \o h)[i] = one[i]
        /\ \A i \in 1..Len(h) : (one \o h)[1 + i] = h[i]
    BY Joined DEF Path
  <2> QED
    BY <2>1
<1> HIDE DEF s, r
<1>4. \A n \in 0..Len(s) : Walk[s][n] \in Seq(Names)
  BY <1>1, WalkType
<1>5. \A n \in 0..Len(r) : Walk[r][n] \in Seq(Names)
  BY <1>3, WalkType
<1>6. 0 \in S
  <2>1. Absolute(s) <=> Absolute(d)
    <3>1. 1 \in 1..Len(d) /\ s # <<>>
      BY <1>0, <1>1 DEF Path
    <3> QED
      BY <1>1, <3>1 DEF Absolute
  <2>2. Walk[s][Len(d)] = Node(d)
    <3>0. Len(d) <= Len(s) /\ Len(d) <= Len(d) /\ s \in Path
      BY <1>0, <1>1
    <3>1. \A n \in 0..Len(d) : Walk[s][n] = Walk[d][n]
      BY <1>0, <1>1, <2>1, <3>0, WalkSame
    <3>2. Len(d) \in 0..Len(d)
      BY <1>0
    <3>3. Walk[s][Len(d)] = Walk[d][Len(d)]
      BY <3>1, <3>2
    <3> QED
      BY <3>3 DEF Node
  <2>3. Walk[r][1] = <<>>
    <3>1. r # <<>> /\ 1 \in 1..Len(r) /\ 1 - 1 = 0
      BY <1>0, <1>3 DEF Path
    <3>2. Walk[r][0] = <<>>
      BY <1>3, <3>1, WalkStep DEF Absolute
    <3>3. Walk[r][1] = Walk[r][0]
      BY <1>3, <3>1, WalkStep
    <3> QED
      BY <3>2, <3>3
  <2>4. Node(d) \o <<>> = Node(d)
    BY <1>0, JoinedEmpty
  <2>5. Len(d) + 0 = Len(d) /\ 1 + 0 = 1
    BY <1>0
  <2> QED
    BY <2>2, <2>3, <2>4, <2>5
<1>7. ASSUME NEW j \in Nat, j \in S PROVE j + 1 \in S
  <2> SUFFICES ASSUME j + 1 <= Len(h)
               PROVE  Walk[s][Len(d) + (j + 1)] = Node(d) \o Walk[r][1 + (j + 1)]
    OBVIOUS
  <2>1. /\ Len(d) + (j + 1) \in 1..Len(s) /\ (Len(d) + (j + 1)) - 1 = Len(d) + j
        /\ 1 + (j + 1) \in 1..Len(r) /\ (1 + (j + 1)) - 1 = 1 + j /\ 1 + j \in 0..Len(r)
        /\ j + 1 \in 1..Len(h)
    BY <1>0, <1>1, <1>3
  <2>2. Walk[s][Len(d) + j] = Node(d) \o Walk[r][1 + j]
    BY <1>7
  <2>3. s[Len(d) + (j + 1)] = h[j + 1] /\ r[1 + (j + 1)] = h[j + 1]
    BY <1>1, <1>3, <2>1
  <2>4. Walk[s][Len(d) + (j + 1)] =
          IF h[j + 1] = Sep THEN Walk[s][Len(d) + j]
          ELSE Append(Walk[s][Len(d) + j], h[j + 1])
    BY <1>1, <2>1, <2>3, WalkStep
  <2>5. Walk[r][1 + (j + 1)] =
          IF h[j + 1] = Sep THEN Walk[r][1 + j] ELSE Append(Walk[r][1 + j], h[j + 1])
    BY <1>3, <2>1, <2>3, WalkStep
  <2>6. CASE h[j + 1] = Sep
    BY <2>2, <2>4, <2>5, <2>6
  <2>7. CASE h[j + 1] # Sep
    <3>1. h[j + 1] \in Names
      BY <2>1, <2>7 DEF Path
    <3>2. Walk[r][1 + j] \in Seq(Names)
      BY <1>5, <2>1
    <3>3. PICK u \in Seq(Names) : u = Node(d)
      BY <1>0
    <3>4. PICK v \in Seq(Names) : v = Walk[r][1 + j]
      BY <3>2
    <3>5. PICK e \in Names : e = h[j + 1]
      BY <3>1
    <3>6. u \o Append(v, e) = Append(u \o v, e)
      BY JoinedAppend
    <3> QED
      BY <2>2, <2>4, <2>5, <2>7, <3>3, <3>4, <3>5, <3>6
  <2> QED
    BY <2>6, <2>7
<1> HIDE DEF S
<1>8. Nat \subseteq S
  BY <1>6, <1>7, Induction
<1>9. \A j \in 0..Len(h) : Walk[s][Len(d) + j] = Node(d) \o Walk[r][1 + j]
  BY <1>0, <1>8 DEF S
<1> QED
  BY <1>1, <1>3, <1>9 DEF s, r

LEMMA ClosedAppend ==
  ASSUME NEW u \in Path, u # <<>>
  PROVE  Append(u, Sep) \in Path /\ Closed(Append(u, Sep), Node(u))
<1>1. PICK t \in Path : t = Append(u, Sep) /\ Node(t) = Node(u)
  BY NodeOfAppended
<1>2. Len(t) = Len(u) + 1 /\ t[Len(u) + 1] = Sep /\ Len(u) \in Nat
  BY <1>1, Extended DEF Path
<1>3. t # <<>> /\ Last(t) = Sep
  BY <1>2 DEF Last, Path
<1> QED
  BY <1>1, <1>3 DEF Closed

LEMMA UptoClosed ==
  ASSUME NEW s \in Path, NEW k \in 1..Len(s), s[k] = Sep
  PROVE  /\ Append(Upto(s, k), Sep) \in Path
         /\ Closed(Append(Upto(s, k), Sep), Walk[s][k])
<1>0. Len(s) \in Nat /\ k \in Nat
  BY WalkStep
<1>1. CASE k = 1
  <2>1. Upto(s, k) = <<>>
    <3>1. Upto(s, k) = SubSeq(s, 1, 0)
      BY <1>1 DEF Upto
    <3>2. SubSeq(s, 1, 0) = <<>>
      OBVIOUS
    <3> QED
      BY <3>1, <3>2
  <2>2. PICK t \in Path : t = <<Sep>> /\ Node(t) = <<>>
    BY NodeOfRoot
  <2>3. Append(Upto(s, k), Sep) = t /\ t # <<>> /\ Last(t) = Sep
    BY <2>1, <2>2 DEF Last
  <2>4. Walk[s][k] = <<>>
    <3>1. s # <<>> /\ s[1] = Sep /\ 1 \in 1..Len(s) /\ 1 - 1 = 0
      BY <1>0, <1>1
    <3>2. Walk[s][0] = <<>>
      BY <3>1, WalkStep DEF Absolute
    <3>3. Walk[s][1] = Walk[s][0]
      BY <3>1, WalkStep
    <3> QED
      BY <1>1, <3>2, <3>3
  <2> QED
    BY <2>2, <2>3, <2>4 DEF Closed
<1>2. CASE k # 1
  <2>1. k \in 2..Len(s)
    BY <1>0, <1>2
  <2>2. PICK u \in Path : u = Upto(s, k) /\ u # <<>> /\ Node(u) = Walk[s][k]
    BY <2>1, UptoFacts
  <2>3. Append(u, Sep) \in Path /\ Closed(Append(u, Sep), Node(u))
    BY <2>2, ClosedAppend
  <2> QED
    BY <2>2, <2>3
<1> QED
  BY <1>1, <1>2

(* The path of what is to be a directory, in the spellings that the code    *)
(* gets right.                                                              *)
LEMMA OutputFile ==
  ASSUME Tree(fs), NEW s \in Path, s # <<>>,
         Dir(Node(s)) \/ Last(s) = Sep \/ \A i \in DOMAIN s : s[i] # Sep
  PROVE  NewFile(s) \in Files /\ Closed(NewFile(s).dir, Node(s))
<1>0. Len(s) \in Nat /\ Len(s) # 0 /\ DOMAIN s = 1..Len(s) /\ Last(s) = s[Len(s)]
  BY DEF Path, Last
<1>1. NewFile(s) \in Files
  <2>1. Leads(s, Node(s)) /\ Node(s) \in Seq(Names)
    BY NodeType, PrefixItself DEF Leads
  <2> QED
    BY <2>1, NewFileLeads
<1>2. CASE Stat(s) = "dir"
  <2> DEFINE pruned == IF Len(s) > 1 /\ Last(s) = Sep THEN Front(s) ELSE s
  <2>1. pruned \in Path /\ pruned # <<>> /\ Node(pruned) = Node(s)
    BY NodeOfPruned
  <2>2. NewFile(s).dir = Append(pruned, Sep)
    BY <1>2 DEF NewFile
  <2> HIDE DEF pruned
  <2>3. Closed(Append(pruned, Sep), Node(pruned))
    BY <2>1, ClosedAppend
  <2> QED
    BY <1>1, <2>1, <2>2, <2>3
<1>3. CASE Stat(s) # "dir"
  <2> DEFINE k == LastSep[s][Len(s)]
  <2>1. NewFile(s).dir = Append(Upto(s, k), Sep)
    BY <1>3 DEF NewFile
  <2>2. k \in 0..Len(s) /\ (k # 0 => s[k] = Sep) /\ \A i \in (k + 1)..Len(s) : s[i] # Sep
    <3>1. Len(s) \in 0..Len(s)
      BY <1>0
    <3> QED
      BY <3>1, LastSepRange
  <2> HIDE DEF k
  <2>3. ~Dir(Node(s))
    BY <1>3 DEF Stat, Dir
  <2>4. CASE Last(s) = Sep
    <3>0. PICK n \in Nat : n = Len(s) /\ n # 0 /\ s[n] = Sep
      BY <1>0, <2>4 DEF Last
    <3>1. k = Len(s) /\ k \in 1..Len(s) /\ s[k] = Sep
      <4>1. k \in 0..n /\ \A i \in (k + 1)..n : s[i] # Sep
        BY <2>2, <3>0
      <4>2. n \notin (k + 1)..n
        BY <3>0, <4>1
      <4>3. k = n
        BY <3>0, <4>1, <4>2
      <4> QED
        BY <3>0, <4>3
    <3>2. Closed(Append(Upto(s, k), Sep), Walk[s][k])
      BY <3>1, UptoClosed
    <3>3. Closed(NewFile(s).dir, Walk[s][Len(s)])
      BY <2>1, <3>1, <3>2
    <3> QED
      BY <1>1, <3>3 DEF Node
  <2>5. CASE \A i \in DOMAIN s : s[i] # Sep
    <3>1. k = 0
      BY <1>0, <2>2, <2>5
    <3>2. Upto(s, k) = s
      BY <3>1 DEF Upto
    <3> QED
      BY <1>1, <2>1, <3>2, ClosedAppend
  <2> QED
    BY <2>3, <2>4, <2>5
<1> QED
  BY <1>2, <1>3

(* The header of an output directory lies below it. *)
Tail1 == Node(<<Sep>> \o Header)

LEMMA TailFacts ==
  /\ Tail1 \in Seq(Names) /\ Tail1 # <<>>
  /\ \A d \in Path : d # <<>> => d \o Header \in Path /\ Node(d \o Header) = Node(d) \o Tail1
<1> DEFINE r == <<Sep>> \o Header
           l == Len(Header)
<1>0. Header \in Path /\ l \in Nat \ {0} /\ Header[l] # Sep
  BY HeaderType
<1>1. r \in Path /\ Len(r) = 1 + l /\ r[1 + l] = Header[l]
  <2>1. PICK one \in Path : one = <<Sep>> /\ Len(one) = 1
    BY NodeOfRoot
  <2>2. /\ one \o Header \in Path /\ Len(one \o Header) = 1 + l
        /\ \A i \in 1..l : (one \o Header)[1 + i] = Header[i]
    BY <1>0, <2>1, Joined DEF Path
  <2> QED
    BY <1>0, <2>1, <2>2
<1> HIDE DEF r
<1>2. 1 + l \in 1..Len(r) /\ (1 + l) - 1 = l /\ l \in 0..Len(r)
  BY <1>0, <1>1
<1>3. Walk[r][1 + l] = Append(Walk[r][l], Header[l])
  BY <1>0, <1>1, <1>2, WalkStep
<1>4. Walk[r][l] \in Seq(Names) /\ Header[l] \in Names
  <2>1. l \in DOMAIN Header
    BY <1>0 DEF Path
  <2>2. Header[l] \in Names \union {Sep}
    BY <1>0, <2>1 DEF Path
  <2> QED
    BY <1>0, <1>1, <1>2, <2>2, WalkType
<1>5. Tail1 = Walk[r][1 + l]
  BY <1>1 DEF Tail1, Node, r
<1>6. Tail1 \in Seq(Names) /\ Tail1 # <<>>
  BY <1>3, <1>4, <1>5, Extended, FrontOfAppended
<1>7. ASSUME NEW d \in Path, d # <<>>
      PROVE  d \o Header \in Path /\ Node(d \o Header) = Node(d) \o Tail1
  <2>1. /\ d \o Header \in Path
        /\ \A j \in 0..l : Walk[d \o Header][Len(d) + j] = Node(d) \o Walk[r][1 + j]
    BY <1>0, <1>7, NodeOfJoined DEF r
  <2>2. l \in 0..l
    BY <1>0
  <2>3. Len(d \o Header) = Len(d) + l
    BY <1>0, Joined DEF Path
  <2>4. Walk[d \o Header][Len(d) + l] = Node(d) \o Walk[r][1 + l]
    BY <2>1, <2>2
  <2> QED
    BY <1>5, <2>1, <2>3, <2>4 DEF Node
<1> QED
  BY <1>6, <1>7

(* What lies below a node lies in it, or below what lies in it. *)
LEMMA BelowFacts ==
  ASSUME NEW T, NEW s \in Seq(T), NEW t \in Seq(T), t # <<>>
  PROVE  /\ s \o t \in Seq(T) /\ s \o t # <<>> /\ s \o t # s
         /\ Front(s \o t) \in Seq(T) /\ Front(s \o t) # s \o t
         /\ IsPrefix(s, s \o t) /\ IsPrefix(s, Front(s \o t))
<1>0. Len(s) \in Nat /\ Len(t) \in Nat /\ Len(t) # 0
  OBVIOUS
<1>1. PICK u \in Seq(T) : u = s \o t
  BY Joined
<1>2. Len(u) = Len(s) + Len(t) /\ \A i \in 1..Len(s) : u[i] = s[i]
  BY <1>1, Joined
<1>3. u # <<>> /\ u # s
  BY <1>0, <1>2
<1>4. IsPrefix(s, u)
  BY <1>0, <1>2, PrefixByElements
<1>5. Front(u) \in Seq(T) /\ Front(u) # u
  BY <1>3, FrontFacts
<1>6. IsPrefix(s, Front(u))
  BY <1>3, <1>4, PrefixOfFront
<1> QED
  BY <1>1, <1>3, <1>4, <1>5, <1>6

(* generate: the File of the header, and the directory that it knows of.    *)
LEMMA HeaderFile ==
  ASSUME Tree(fs), NEW d \in Path, NEW n \in Seq(Names), Closed(d, n)
  PROVE  LET file == NewFile(d \o Header) IN
           /\ file \in Files /\ file.path # <<>> /\ Node(file.path) = n \o Tail1
           /\ \/ Closed(file.dir, Front(n \o Tail1))
              \/ Closed(file.dir, n \o Tail1) /\ Dir(n \o Tail1)
<1> DEFINE s == d \o Header
           below == n \o Tail1
<1>0. /\ d # <<>> /\ Len(d) \in Nat /\ Len(d) # 0 /\ d[Len(d)] = Sep /\ Node(d) = n
      /\ Header \in Path /\ Len(Header) \in Nat \ {0} /\ Header[Len(Header)] # Sep
  BY HeaderType DEF Closed, Last, Path
<1>1. /\ s \in Path /\ Node(s) = below /\ Len(s) = Len(d) + Len(Header)
      /\ \A i \in 1..Len(d) : s[i] = d[i]
      /\ \A i \in 1..Len(Header) : s[Len(d) + i] = Header[i]
  <2>1. s \in Path /\ Node(s) = below
    BY <1>0, TailFacts
  <2> QED
    BY <1>0, <2>1, Joined DEF Path
<1> HIDE DEF s
<1>n. /\ Len(s) \in Nat /\ Len(d) \in Nat \ {0} /\ Len(Header) \in Nat \ {0}
      /\ Len(s) = Len(d) + Len(Header)
  BY <1>0, <1>1
<1>2. s # <<>> /\ s[Len(s)] # Sep /\ Last(s) # Sep /\ s[Len(d)] = Sep
  <2>1. Len(Header) \in 1..Len(Header) /\ Len(d) \in 1..Len(d)
    BY <1>0
  <2>2. s[Len(s)] # Sep /\ s[Len(d)] = Sep
    BY <1>0, <1>1, <2>1
  <2>3. s # <<>>
    BY <1>0, <1>1
  <2> QED
    BY <2>2, <2>3 DEF Last
<1>3. NewFile(s) \in Files /\ Node(NewFile(s).path) = below
  <2>1. Leads(s, Node(s)) /\ Node(s) \in Seq(Names)
    BY <1>1, NodeType, PrefixItself DEF Leads
  <2> QED
    BY <1>1, <2>1, NewFileLeads
<1>4. NewFile(s).path = s
  BY <1>2 DEF NewFile
<1>5. CASE Stat(s) = "dir"
  <2>1. NewFile(s).dir = Append(s, Sep)
    BY <1>2, <1>5 DEF NewFile
  <2>2. Closed(Append(s, Sep), Node(s))
    BY <1>1, <1>2, ClosedAppend
  <2>3. Dir(Node(s))
    BY <1>5, StatFacts DEF Dir
  <2> QED
    BY <1>1, <1>2, <1>3, <1>4, <2>1, <2>2, <2>3 DEF s
<1>6. CASE Stat(s) # "dir"
  <2> DEFINE k == LastSep[s][Len(s)]
  <2>1. NewFile(s).dir = Append(Upto(s, k), Sep)
    BY <1>6 DEF NewFile
  <2>2. k \in 0..Len(s) /\ (k # 0 => s[k] = Sep) /\ \A i \in (k + 1)..Len(s) : s[i] # Sep
    <3>1. Len(s) \in 0..Len(s)
      BY <1>0, <1>1
    <3> QED
      BY <1>1, <3>1, LastSepRange
  <2> HIDE DEF k
  <2>3. k \in Nat /\ Len(d) <= k /\ k < Len(s) /\ s[k] = Sep
    <3>1. Len(d) \notin (k + 1)..Len(s)
      BY <1>2, <2>2
    <3>2. k \in Nat /\ Len(d) <= k /\ k # 0
      BY <1>n, <2>2, <3>1
    <3>3. k # Len(s) /\ k <= Len(s)
      BY <1>n, <1>2, <2>2, <3>2
    <3>4. k < Len(s)
      BY <1>n, <3>2, <3>3
    <3> QED
      BY <2>2, <3>2, <3>4
  <2>4. k = Len(s) - 1
    <3> SUFFICES ASSUME k # Len(s) - 1 PROVE FALSE
      OBVIOUS
    <3> DEFINE i == (Len(Header) - 1)
    <3>1. Len(s) - 1 \in (k + 1)..Len(s) /\ Len(s) \in (k + 1)..Len(s)
      BY <1>n, <2>3
    <3>2. i \in 1..Len(Header) /\ i + 1 = Len(Header) /\ Len(d) + i = Len(s) - 1
      BY <1>n, <2>3, <3>1
    <3>3. Header[i] # Sep
      BY <1>1, <2>2, <3>1, <3>2
    <3>4. i \in 1..(Len(Header) - 1)
      BY <1>0, <3>2
    <3>5. Header[i] = Sep \/ Header[i + 1] = Sep
      BY <3>4, HeaderType DEF Spelt
    <3> QED
      BY <1>0, <3>2, <3>3, <3>5
  <2>5. k \in 1..Len(s) /\ k \in 0..Len(s) /\ Len(s) \in 1..Len(s)
    BY <1>n, <2>3
  <2>6. Closed(Append(Upto(s, k), Sep), Walk[s][k])
    BY <1>1, <2>3, <2>5, UptoClosed
  <2>7. Walk[s][Len(s)] = Append(Walk[s][k], s[Len(s)])
    BY <1>1, <1>2, <2>4, <2>5, WalkStep
  <2>8. Walk[s][k] \in Seq(Names) /\ s[Len(s)] \in Names
    <3>1. Len(s) \in DOMAIN s /\ s[Len(s)] \in Names \union {Sep}
      BY <1>1, <2>5 DEF Path
    <3> QED
      BY <1>1, <1>2, <2>5, <3>1, WalkType
  <2>9. Front(Node(s)) = Walk[s][k]
    BY <2>7, <2>8, FrontOfAppended DEF Node
  <2>10. Closed(NewFile(s).dir, Front(below))
    BY <1>1, <2>1, <2>6, <2>9
  <2> QED
    BY <1>2, <1>3, <1>4, <2>10 DEF s
<1> QED
  BY <1>5, <1>6

(* generate: the File of the directory that the header lies in.             *)
LEMMA ParentFile ==
  ASSUME Tree(fs), NEW d \in Path
  PROVE  LET parent == NewFile(d)
             n == Node(d) IN
           /\ parent \in Files /\ FileLeads(parent, n) /\ Node(parent.path) = n
           /\ d # <<>> /\ Last(d) = Sep => (Stat(parent.path) # "none" <=> Dir(n))
<1>1. Leads(d, Node(d)) /\ Node(d) \in Seq(Names)
  BY NodeType, PrefixItself DEF Leads
<1>2. /\ NewFile(d) \in Files /\ FileLeads(NewFile(d), Node(d))
      /\ Node(NewFile(d).path) = Node(d)
  BY <1>1, NewFileLeads
<1>3. ASSUME d # <<>>, Last(d) = Sep
      PROVE  Stat(NewFile(d).path) # "none" <=> Dir(Node(d))
  <2>1. Stat(d) = "dir" <=> Dir(Node(d))
    BY <1>3 DEF Stat, Dir
  <2>2. CASE Stat(d) = "dir"
    <3>1. NewFile(d).path # <<>>
      <4>1. NewFile(d).path = IF Len(d) > 1 /\ Last(d) = Sep THEN Front(d) ELSE d
        BY <2>2 DEF NewFile
      <4> QED
        BY <1>3, <4>1, NodeOfPruned
    <3>2. Stat(NewFile(d).path) = "dir"
      BY <1>2, <2>1, <2>2, <3>1 DEF Stat, Dir
    <3> QED
      BY <2>1, <2>2, <3>2
  <2>3. CASE Stat(d) # "dir"
    <3>1. NewFile(d).path = d
      BY <2>3 DEF NewFile
    <3>2. Stat(d) = "none"
      BY <1>3, <2>1, <2>3 DEF Stat, Dir
    <3> QED
      BY <2>1, <2>3, <3>1, <3>2
  <2> QED
    BY <2>2, <2>3
<1> QED
  BY <1>2, <1>3

-----------------------------------------------------------------------------
(* What the invariant of the invocations rests on. *)

LEMMA PlaceFacts ==
  ASSUME MainTypes, NEW p \in Procs
  PROVE  /\ arg[p] \in Path /\ asked(p) \in Seq(Names)
         /\ header(p) = asked(p) \o Tail1 /\ header(p) \in Seq(Names)
         /\ header(p) # <<>> /\ header(p) # asked(p)
         /\ Front(header(p)) \in Seq(Names) /\ Front(header(p)) # header(p)
         /\ IsPrefix(Front(header(p)), header(p))
         /\ IsPrefix(asked(p), header(p)) /\ IsPrefix(asked(p), Front(header(p)))
<1>1. arg[p] \in Path
  <2>1. arg[p] \in Targets \union Removals
    BY DEF MainTypes
  <2> QED
    BY <2>1, MakeDirectoryAssumption DEF Path
<1>2. asked(p) \in Seq(Names)
  BY <1>1, NodeType DEF asked
<1>3. header(p) = asked(p) \o Tail1
  BY DEF header, Tail1
<1>4. Tail1 \in Seq(Names) /\ Tail1 # <<>>
  BY TailFacts
<1>5. /\ header(p) \in Seq(Names) /\ header(p) # <<>> /\ header(p) # asked(p)
      /\ IsPrefix(asked(p), header(p)) /\ IsPrefix(asked(p), Front(header(p)))
  BY <1>2, <1>3, <1>4, BelowFacts
<1>6. /\ Front(header(p)) \in Seq(Names) /\ Front(header(p)) # header(p)
      /\ IsPrefix(Front(header(p)), header(p))
  BY <1>5, FrontFacts
<1> QED
  BY <1>1, <1>2, <1>3, <1>5, <1>6

(* What the other invocations have to do with a step of p's. *)
Same(q) ==
  /\ stack'[q] = stack[q] /\ result'[q] = result[q] /\ call'[q] = call[q]
  /\ step'[q] = step[q] /\ outputDir'[q] = outputDir[q] /\ hFile'[q] = hFile[q]
OthersSame(p) == arg' = arg /\ before' = before /\ \A q \in Procs \ {p} : Same(q)

(* Nothing goes, nor changes its kind or its maker. *)
OnlyMore ==
  /\ \A node \in DOMAIN fs : node \in DOMAIN fs' /\ fs'[node] = fs[node]
  /\ \A node \in DOMAIN maker : node \in DOMAIN maker' /\ maker'[node] = maker[node]

OnlyBy(p) == \A node \in DOMAIN maker' : node \notin DOMAIN maker => maker'[node] = p

LEMMA SameTerms ==
  ASSUME arg' = arg, before' = before, NEW q
  PROVE  /\ asked(q)' = asked(q) /\ header(q)' = header(q)
         /\ WellSpelt(q)' <=> WellSpelt(q)
<1>1. asked(q)' = asked(q)
  BY DEF asked
<1>2. header(q)' = header(q)
  BY <1>1 DEF header
<1>3. WellSpelt(q)' <=> WellSpelt(q)
  BY <1>1 DEF WellSpelt
<1> QED
  BY <1>1, <1>2, <1>3

LEMMA OwnKept ==
  ASSUME MainTypes, MainTreeInv, NEW q \in Procs, OwnInv(q), Same(q),
         arg' = arg, before' = before, OnlyMore,
         \A node \in DOMAIN maker' : node \notin DOMAIN maker => maker'[node] # q
  PROVE  OwnInv(q)'
<1>1. /\ stack'[q] = stack[q] /\ result'[q] = result[q] /\ call'[q] = call[q]
      /\ step'[q] = step[q] /\ outputDir'[q] = outputDir[q] /\ hFile'[q] = hFile[q]
  BY DEF Same
<1>2. /\ asked(q)' = asked(q) /\ header(q)' = header(q)
      /\ WellSpelt(q)' <=> WellSpelt(q)
  BY SameTerms
<1>3. target(q)' = target(q)
  BY <1>1 DEF target
<1>4. /\ \A node : Dir(node) => Dir(node)'
      /\ \A node \in DOMAIN fs : node \in DOMAIN fs' /\ fs'[node] = fs[node]
  BY DEF OnlyMore, Dir
<1>5. ComposeInv(q)'
  BY <1>1, <1>2, <1>4 DEF OwnInv, ComposeInv
<1>6. MkdirInv(q)'
  <2>1. \A f : MakingInv(q, f) => MakingInv(q, f)'
    BY <1>3, <1>4 DEF MakingInv
  <2> QED
    BY <1>1, <1>2, <1>3, <1>4, <2>1 DEF OwnInv, MkdirInv
<1>7. WrittenInv(q)'
  <2>1. ASSUME NEW node \in DOMAIN maker', maker'[node] = q, WellSpelt(q)
        PROVE  IsPrefix(asked(q), node) /\ (node = header(q) => fs'[node] = "file")
    <3>1. node \in DOMAIN maker /\ maker[node] = q
      BY <2>1 DEF OnlyMore
    <3>2. node \in DOMAIN fs
      BY <3>1 DEF MainTreeInv
    <3> QED
      BY <1>4, <2>1, <3>1, <3>2 DEF OwnInv, WrittenInv
  <2> QED
    BY <1>1, <1>2, <1>4, <2>1 DEF OwnInv, WrittenInv
<1> QED
  BY <1>5, <1>6, <1>7 DEF OwnInv

LEMMA MainAssemble ==
  ASSUME MainInv, NEW p \in Procs, MainTypes', MainTreeInv', OthersSame(p), OnlyMore,
         OnlyBy(p), OwnInv(p)'
  PROVE  MainInv'
<1>1. ASSUME NEW q \in Procs \ {p} PROVE OwnInv(q)'
  <2>1. \A node \in DOMAIN maker' : node \notin DOMAIN maker => maker'[node] # q
    BY DEF OnlyBy
  <2> QED
    BY <2>1, OwnKept DEF MainInv, OthersSame
<1> QED
  BY <1>1 DEF MainInv

(* p's innermost activation of the generator's mkdir. *)
LEMMA MakingInner ==
  ASSUME MainInv, NEW p \in Procs, step[p] = "making", Running(p)
  PROVE  /\ stack[p] \in Seq(Frames) /\ Len(stack[p]) \in Nat \ {0}
         /\ frame(p) = stack[p][Len(stack[p])]
         /\ frame(p) \in Frames /\ MakingInv(p, frame(p))
         /\ Front(stack[p]) \in Seq(Frames) /\ Len(Front(stack[p])) = Len(stack[p]) - 1
         /\ \A i \in 1..(Len(stack[p]) - 1) : Front(stack[p])[i] = stack[p][i]
         /\ \A i \in 1..Len(stack[p]) : MakingInv(p, stack[p][i])
         /\ Node(stack[p][1].file.path) = target(p)
         /\ target(p) \in Seq(Names)
<1>1. stack[p] \in Seq(Frames) /\ stack[p] # <<>>
  BY DEF MainInv, MainTypes, Running
<1>2. frame(p) = stack[p][Len(stack[p])]
  BY DEF frame, Last
<1>3. /\ Len(stack[p]) \in Nat \ {0}
      /\ Front(stack[p]) \in Seq(Frames) /\ Len(Front(stack[p])) = Len(stack[p]) - 1
      /\ \A i \in 1..(Len(stack[p]) - 1) : Front(stack[p])[i] = stack[p][i]
  BY <1>1, FrontFacts
<1>4. /\ \A i \in 1..Len(stack[p]) : MakingInv(p, stack[p][i])
      /\ Node(stack[p][1].file.path) = target(p)
  BY <1>1 DEF MainInv, OwnInv, MkdirInv
<1>5. Len(stack[p]) \in 1..Len(stack[p])
  BY <1>3
<1>6. frame(p) \in Frames
  BY <1>1, <1>2, <1>5
<1>7. target(p) \in Seq(Names)
  <2>1. call[p].path \in Path
    BY DEF MainInv, MainTypes
  <2> QED
    BY <2>1, NodeType DEF target
<1> QED
  BY <1>1, <1>2, <1>3, <1>4, <1>5, <1>6, <1>7

LEMMA MainLocal ==
  ASSUME MainInv, NEW p \in Procs, step[p] = "making",
         UNCHANGED <<fs, history, mainVars>>,
         NEW st \in Seq(Frames), NEW r \in {"running", "returned", "thrown"},
         stack' = [stack EXCEPT ![p] = st], result' = [result EXCEPT ![p] = r],
         \A i \in DOMAIN st : MakingInv(p, st[i]),
         st # <<>> => Node(st[1].file.path) = target(p),
         r = "returned" => Dir(target(p))
  PROVE  MainInv'
<1>0. /\ fs' = fs /\ call' = call /\ before' = before /\ maker' = maker
      /\ step' = step /\ arg' = arg /\ outputDir' = outputDir /\ hFile' = hFile
  BY DEF history, others, mainVars
<1>1. stack'[p] = st /\ result'[p] = r
  BY DEF MainInv, MainTypes
<1>2. OthersSame(p) /\ OnlyMore /\ OnlyBy(p)
  BY <1>0 DEF OthersSame, Same, OnlyMore, OnlyBy, MainInv, MainTypes
<1>3. MainTypes' /\ MainTreeInv'
  <2>1. stack' \in [Procs -> Seq(Frames)]
    BY DEF MainInv, MainTypes
  <2>2. result' \in [Procs -> {"running", "returned", "thrown"}]
    BY DEF MainInv, MainTypes
  <2>3. Tree(fs)' /\ Tree(before)'
    BY <1>0 DEF MainInv, MainTypes, Tree
  <2>4. MainTypes'
    BY <1>0, <2>1, <2>2, <2>3 DEF MainInv, MainTypes
  <2>5. MainTreeInv'
    BY <1>0 DEF MainInv, MainTreeInv
  <2> QED
    BY <2>4, <2>5
<1>4. /\ asked(p)' = asked(p) /\ header(p)' = header(p)
      /\ WellSpelt(p)' <=> WellSpelt(p)
  BY <1>0, SameTerms
<1>5. target(p)' = target(p) /\ \A node : Dir(node)' <=> Dir(node)
  BY <1>0 DEF target, Dir
<1>6. OwnInv(p)
  BY DEF MainInv
<1>7. ComposeInv(p)'
  BY <1>0, <1>4, <1>5, <1>6 DEF OwnInv, ComposeInv
<1>8. MkdirInv(p)'
  <2>1. \A f : MakingInv(p, f) => MakingInv(p, f)'
    BY <1>5 DEF MakingInv
  <2>2. \A i \in DOMAIN st : MakingInv(p, st[i])'
    BY <2>1
  <2> QED
    BY <1>0, <1>1, <1>4, <1>5, <1>6, <2>2 DEF OwnInv, MkdirInv
<1>9. WrittenInv(p)'
  BY <1>0, <1>4, <1>5, <1>6 DEF OwnInv, WrittenInv
<1> QED
  BY <1>2, <1>3, <1>7, <1>8, <1>9, MainAssemble DEF OwnInv

LEMMA OneBefore ==
  ASSUME NEW n \in Nat \ {0}, n # 1
  PROVE  1 \in 1..(n - 1) /\ 1 \in 1..n
OBVIOUS

LEMMA MakingReplace ==
  ASSUME MainInv, NEW p \in Procs, step[p] = "making", Running(p),
         UNCHANGED <<fs, result, history, mainVars>>,
         NEW f \in Frames, Replace(p, f), MakingInv(p, f), f.file = frame(p).file
  PROVE  MainInv'
<1>1. /\ Len(stack[p]) \in Nat \ {0}
      /\ frame(p) = stack[p][Len(stack[p])]
      /\ Front(stack[p]) \in Seq(Frames) /\ Len(Front(stack[p])) = Len(stack[p]) - 1
      /\ \A i \in 1..(Len(stack[p]) - 1) : Front(stack[p])[i] = stack[p][i]
      /\ \A i \in 1..Len(stack[p]) : MakingInv(p, stack[p][i])
      /\ Node(stack[p][1].file.path) = target(p)
  BY MakingInner
<1>2. PICK n \in Nat \ {0} : n = Len(stack[p])
  BY <1>1
<1>3. PICK st \in Seq(Frames) : st = Append(Front(stack[p]), f)
  BY <1>1, Extended
<1>4. /\ Len(st) = (n - 1) + 1 /\ DOMAIN st = 1..((n - 1) + 1)
      /\ \A i \in 1..(n - 1) : st[i] = Front(stack[p])[i]
      /\ st[(n - 1) + 1] = f
  BY <1>1, <1>2, <1>3, Extended
<1>5. DOMAIN st = 1..n /\ st[n] = f /\ \A i \in 1..(n - 1) : st[i] = stack[p][i]
  BY <1>1, <1>2, <1>4
<1>6. \A i \in DOMAIN st : MakingInv(p, st[i])
  BY <1>1, <1>2, <1>5
<1>7. Node(st[1].file.path) = target(p)
  <2>1. CASE n = 1
    BY <1>1, <1>2, <1>5, <2>1
  <2>2. CASE n # 1
    <3>1. 1 \in 1..(n - 1)
      BY <2>2, OneBefore
    <3> QED
      BY <1>1, <1>5, <3>1
  <2> QED
    BY <2>1, <2>2
<1>8. PICK r \in {"running", "returned", "thrown"} : r = result[p]
  BY DEF MainInv, MainTypes
<1>9. result' = [result EXCEPT ![p] = r]
  BY <1>8 DEF MainInv, MainTypes
<1>10. r = "returned" => Dir(target(p))
  BY <1>8 DEF MainInv, OwnInv, MkdirInv
<1>11. stack' = [stack EXCEPT ![p] = st]
  BY <1>3 DEF Replace
<1> QED
  BY <1>6, <1>7, <1>9, <1>10, <1>11, MainLocal

LEMMA MakingGoto ==
  ASSUME MainInv, NEW p \in Procs, step[p] = "making", Running(p),
         UNCHANGED <<fs, result, history, mainVars>>,
         NEW label \in Labels \ {"rm", "unlink", "chmod"}, Goto(p, label)
  PROVE  MainInv'
<1>1. frame(p) \in Frames /\ MakingInv(p, frame(p))
  BY MakingInner
<1>2. PICK f : f = [frame(p) EXCEPT !.pc = label]
  OBVIOUS
<1>3. /\ f \in Frames /\ f.pc = label /\ f.file = frame(p).file
      /\ f.parentDir = frame(p).parentDir /\ f.ancestors = frame(p).ancestors
  BY <1>1, <1>2 DEF Frames
<1>4. MakingInv(p, f)
  BY <1>1, <1>3 DEF MakingInv
<1>5. Replace(p, f)
  BY <1>2 DEF Goto
<1> QED
  BY <1>3, <1>4, <1>5, MakingReplace

LEMMA MakingReturn ==
  ASSUME MainInv, NEW p \in Procs, step[p] = "making", Running(p),
         UNCHANGED <<fs, history, mainVars>>, Return(p), Dir(Node(frame(p).file.path))
  PROVE  MainInv'
<1>1. /\ Len(stack[p]) \in Nat \ {0}
      /\ frame(p) = stack[p][Len(stack[p])]
      /\ Front(stack[p]) \in Seq(Frames) /\ Len(Front(stack[p])) = Len(stack[p]) - 1
      /\ \A i \in 1..(Len(stack[p]) - 1) : Front(stack[p])[i] = stack[p][i]
      /\ \A i \in 1..Len(stack[p]) : MakingInv(p, stack[p][i])
      /\ Node(stack[p][1].file.path) = target(p)
  BY MakingInner
<1>2. PICK n \in Nat \ {0} : n = Len(stack[p])
  BY <1>1
<1>3. PICK st \in Seq(Frames) : st = Front(stack[p])
  BY <1>1
<1>4. DOMAIN st = 1..(n - 1) /\ \A i \in 1..(n - 1) : st[i] = stack[p][i]
  BY <1>1, <1>2, <1>3
<1>5. \A i \in DOMAIN st : MakingInv(p, st[i])
  <2>1. \A i \in 1..(n - 1) : i \in 1..n
    BY <1>2
  <2> QED
    BY <1>1, <1>2, <1>4, <2>1
<1>6. st # <<>> => Node(st[1].file.path) = target(p)
  <2> SUFFICES ASSUME st # <<>> PROVE Node(st[1].file.path) = target(p)
    OBVIOUS
  <2>1. 1 \in DOMAIN st
    BY <1>3
  <2> QED
    BY <1>1, <1>4, <2>1
<1>7. PICK r \in {"running", "returned", "thrown"} :
        r = IF n = 1 THEN "returned" ELSE result[p]
  BY DEF MainInv, MainTypes
<1>8. result' = [result EXCEPT ![p] = r]
  BY <1>2, <1>7 DEF Return, MainInv, MainTypes
<1>9. r = "returned" => Dir(target(p))
  <2>1. CASE n = 1
    BY <1>1, <1>2, <2>1
  <2>2. CASE n # 1
    BY <1>7, <2>2 DEF MainInv, OwnInv, MkdirInv
  <2> QED
    BY <2>1, <2>2
<1>10. stack' = [stack EXCEPT ![p] = st]
  BY <1>3 DEF Return
<1> QED
  BY <1>5, <1>6, <1>8, <1>9, <1>10, MainLocal

LEMMA MakingThrow ==
  ASSUME MainInv, NEW p \in Procs, step[p] = "making",
         UNCHANGED <<fs, history, mainVars>>, Throw(p)
  PROVE  MainInv'
<1>1. PICK st \in Seq(Frames) : st = <<>> /\ DOMAIN st = {}
  <2>1. PICK st \in Seq(Frames) : st = <<>>
    <3>1. <<>> \in Seq(Frames)
      OBVIOUS
    <3> QED
      BY <3>1
  <2>2. DOMAIN st = {}
    BY <2>1
  <2> QED
    BY <2>1, <2>2
<1>2. PICK r \in {"running", "returned", "thrown"} : r = "thrown"
  OBVIOUS
<1>3. stack' = [stack EXCEPT ![p] = st] /\ result' = [result EXCEPT ![p] = r]
  BY <1>1, <1>2 DEF Throw
<1> QED
  BY <1>1, <1>2, <1>3, MainLocal

(* The steps of the generator's mkdir that leave the tree alone.            *)
LEMMA MakingSearch ==
  ASSUME MainInv, NEW p \in Procs, step[p] = "making", UNCHANGED mainVars,
         \/ CheckSelf(p) \/ FindParent(p) \/ Climb(p) \/ ClimbUp(p)
         \/ CheckParent(p) \/ Chmod(p)
  PROVE  MainInv'
<1>1. CASE CheckSelf(p)
  <2>1. Running(p) /\ UNCHANGED <<fs, history>>
    BY <1>1 DEF CheckSelf, At
  <2>2. CASE Stat(frame(p).file.path) = "dir" /\ Return(p)
    <3>1. Dir(Node(frame(p).file.path))
      BY <2>2, StatFacts DEF MainInv, MainTypes, Dir
    <3> QED
      BY <2>1, <2>2, <3>1, MakingReturn
  <2>3. CASE Throw(p)
    BY <2>1, <2>3, MakingThrow
  <2>4. CASE Goto(p, "parent") /\ UNCHANGED result
    BY <2>1, <2>4, MakingGoto DEF Labels
  <2> QED
    BY <1>1, <2>2, <2>3, <2>4 DEF CheckSelf
<1>2. CASE FindParent(p)
  <2>1. Running(p) /\ UNCHANGED <<fs, result, history>>
    BY <1>2 DEF FindParent, At
  <2>2. frame(p) \in Frames /\ MakingInv(p, frame(p)) /\ target(p) \in Seq(Names)
    BY <2>1, MakingInner
  <2>3. PICK parent : parent = ParentDir(frame(p).file)
    OBVIOUS
  <2>4. PICK label \in {"climb", "check"} :
          label = IF frame(p).createParents THEN "climb" ELSE "check"
    OBVIOUS
  <2>5. parent \in Files /\ FileLeads(parent, target(p))
    BY <2>2, <2>3, ParentLeads DEF Frames, MakingInv
  <2>6. PICK f : f = [frame(p) EXCEPT !.parentDir = parent, !.pc = label]
    OBVIOUS
  <2>7. f = [file |-> frame(p).file, createParents |-> frame(p).createParents,
             parentDir |-> parent, ancestors |-> frame(p).ancestors, pc |-> label]
    BY <2>2, <2>6 DEF Frames
  <2>8. /\ f \in Frames /\ f.pc = label /\ f.file = frame(p).file
        /\ f.parentDir = parent /\ f.ancestors = frame(p).ancestors
    BY <2>2, <2>4, <2>5, <2>7 DEF Frames, Labels
  <2>9. MakingInv(p, f)
    BY <2>2, <2>4, <2>5, <2>8 DEF MakingInv
  <2>10. Replace(p, f)
    BY <1>2, <2>3, <2>4, <2>6 DEF FindParent
  <2> QED
    BY <2>1, <2>8, <2>9, <2>10, MakingReplace
<1>3. CASE Climb(p)
  <2>1. Running(p) /\ UNCHANGED <<fs, result, history>>
    BY <1>3 DEF Climb, At
  <2>2. frame(p) \in Frames /\ MakingInv(p, frame(p))
    BY <2>1, MakingInner
  <2>3. CASE Stat(frame(p).parentDir.path) # "none"
    <3>1. Goto(p, "descend")
      BY <1>3, <2>3 DEF Climb
    <3> QED
      BY <2>1, <3>1, MakingGoto DEF Labels
  <2>4. CASE Stat(frame(p).parentDir.path) = "none"
    <3>1. PICK list : list = Ahead(frame(p).parentDir, frame(p).ancestors)
      OBVIOUS
    <3>2. list \in Seq(Files) /\ \A k \in DOMAIN list : FileLeads(list[k], target(p))
      BY <2>2, <3>1, AheadLeads DEF Frames, MakingInv
    <3>3. PICK f : f = [frame(p) EXCEPT !.ancestors = list, !.pc = "up"]
      OBVIOUS
    <3>4. f = [file |-> frame(p).file, createParents |-> frame(p).createParents,
               parentDir |-> frame(p).parentDir, ancestors |-> list, pc |-> "up"]
      BY <2>2, <3>3 DEF Frames
    <3>5. /\ f \in Frames /\ f.pc = "up" /\ f.file = frame(p).file
          /\ f.parentDir = frame(p).parentDir /\ f.ancestors = list
      BY <2>2, <3>2, <3>4 DEF Frames, Labels
    <3>6. MakingInv(p, f)
      BY <2>2, <3>2, <3>5 DEF MakingInv
    <3>7. Replace(p, f)
      BY <1>3, <2>4, <3>1, <3>3 DEF Climb
    <3> QED
      BY <2>1, <3>5, <3>6, <3>7, MakingReplace
  <2> QED
    BY <2>3, <2>4
<1>4. CASE ClimbUp(p)
  <2>1. Running(p) /\ UNCHANGED <<fs, result, history>>
    BY <1>4 DEF ClimbUp, At
  <2>2. frame(p) \in Frames /\ MakingInv(p, frame(p)) /\ target(p) \in Seq(Names)
    BY <2>1, MakingInner
  <2>3. PICK parent : parent = ParentDir(frame(p).parentDir)
    OBVIOUS
  <2>4. parent \in Files /\ FileLeads(parent, target(p))
    BY <2>2, <2>3, ParentLeads DEF Frames, MakingInv
  <2>5. PICK f : f = [frame(p) EXCEPT !.parentDir = parent, !.pc = "climb"]
    OBVIOUS
  <2>6. f = [file |-> frame(p).file, createParents |-> frame(p).createParents,
             parentDir |-> parent, ancestors |-> frame(p).ancestors, pc |-> "climb"]
    BY <2>2, <2>5 DEF Frames
  <2>7. /\ f \in Frames /\ f.pc = "climb" /\ f.file = frame(p).file
        /\ f.parentDir = parent /\ f.ancestors = frame(p).ancestors
    BY <2>2, <2>4, <2>6 DEF Frames, Labels
  <2>8. MakingInv(p, f)
    BY <2>2, <2>4, <2>7 DEF MakingInv
  <2>9. Replace(p, f)
    BY <1>4, <2>3, <2>5 DEF ClimbUp
  <2> QED
    BY <2>1, <2>7, <2>8, <2>9, MakingReplace
<1>5. CASE CheckParent(p)
  <2>1. Running(p) /\ UNCHANGED <<fs, history>>
    BY <1>5 DEF CheckParent, At
  <2>2. Throw(p) \/ (Goto(p, "mkdir") /\ UNCHANGED result)
    BY <1>5 DEF CheckParent
  <2> QED
    BY <2>1, <2>2, MakingThrow, MakingGoto DEF Labels
<1>6. CASE Chmod(p)
  <2>1. Running(p) /\ UNCHANGED <<fs, history>> /\ Return(p) /\ frame(p).pc = "chmod"
    BY <1>6 DEF Chmod, At
  <2>2. Dir(Node(frame(p).file.path))
    BY <2>1, MakingInner DEF MakingInv
  <2> QED
    BY <2>1, <2>2, MakingReturn
<1> QED
  BY <1>1, <1>2, <1>3, <1>4, <1>5, <1>6

LEMMA MakingDescend ==
  ASSUME MainInv, NEW p \in Procs, step[p] = "making", UNCHANGED mainVars, Descend(p)
  PROVE  MainInv'
<1>1. Running(p) /\ UNCHANGED <<fs, result, history>> /\ frame(p).pc = "descend"
  BY DEF Descend, At
<1>2. /\ Len(stack[p]) \in Nat \ {0} /\ target(p) \in Seq(Names)
      /\ frame(p) = stack[p][Len(stack[p])]
      /\ frame(p) \in Frames /\ MakingInv(p, frame(p))
      /\ Front(stack[p]) \in Seq(Frames) /\ Len(Front(stack[p])) = Len(stack[p]) - 1
      /\ \A i \in 1..(Len(stack[p]) - 1) : Front(stack[p])[i] = stack[p][i]
      /\ \A i \in 1..Len(stack[p]) : MakingInv(p, stack[p][i])
      /\ Node(stack[p][1].file.path) = target(p)
  BY <1>1, MakingInner
<1>3. CASE frame(p).ancestors = <<>>
  <2>1. Goto(p, "mkdir")
    BY <1>3 DEF Descend
  <2> QED
    BY <1>1, <2>1, MakingGoto DEF Labels
<1>4. CASE frame(p).ancestors # <<>>
  <2>1. PICK list \in Seq(Files) : list = frame(p).ancestors /\ list # <<>>
    BY <1>2, <1>4 DEF Frames
  <2>2. PICK ancestor : ancestor = Head(list)
    OBVIOUS
  <2>3. PICK rest : rest = Tail(list)
    OBVIOUS
  <2>4. /\ ancestor \in Files /\ ancestor = list[1] /\ 1 \in DOMAIN list
        /\ rest \in Seq(Files)
        /\ \A k \in DOMAIN rest : k + 1 \in DOMAIN list /\ rest[k] = list[k + 1]
    BY <2>1, <2>2, <2>3
  <2>5. /\ FileLeads(ancestor, target(p))
        /\ \A k \in DOMAIN rest : FileLeads(rest[k], target(p))
    BY <1>2, <2>1, <2>4 DEF MakingInv
  <2>6. PICK f : f = [frame(p) EXCEPT !.ancestors = rest]
    OBVIOUS
  <2>7. PICK g : g = Frame(ancestor, FALSE)
    OBVIOUS
  <2>8. /\ f \in Frames /\ f.pc = "descend" /\ f.file = frame(p).file
        /\ f.parentDir = frame(p).parentDir /\ f.ancestors = rest
    BY <1>1, <1>2, <2>4, <2>6 DEF Frames
  <2>9. /\ g \in Frames /\ g.pc = "exists" /\ g.file = ancestor
        /\ g.parentDir = ancestor /\ g.ancestors = <<>>
    BY <2>4, <2>7 DEF Frame, Frames, Labels
  <2>10. MakingInv(p, f)
    BY <1>2, <2>5, <2>8 DEF MakingInv
  <2>11. MakingInv(p, g)
    <3>1. DOMAIN g.ancestors = {}
      BY <2>9
    <3> QED
      BY <2>5, <2>9, <3>1 DEF MakingInv
  <2>12. PICK n \in Nat \ {0} : n = Len(stack[p])
    BY <1>2
  <2>13. PICK low \in Seq(Frames) : low = Append(Front(stack[p]), f)
    BY <1>2, <2>8, Extended
  <2>14. /\ Len(low) = (n - 1) + 1
         /\ \A i \in 1..(n - 1) : low[i] = Front(stack[p])[i]
         /\ low[(n - 1) + 1] = f
    BY <1>2, <2>8, <2>12, <2>13, Extended
  <2>15. Len(low) = n /\ low[n] = f /\ \A i \in 1..(n - 1) : low[i] = stack[p][i]
    BY <1>2, <2>12, <2>14
  <2>16. PICK st \in Seq(Frames) : st = Append(low, g)
    BY <2>9, Extended
  <2>17. /\ DOMAIN st = 1..(n + 1) /\ st[n + 1] = g
         /\ \A i \in 1..n : st[i] = low[i]
    BY <2>9, <2>15, <2>16, Extended
  <2>18. ASSUME NEW i \in DOMAIN st PROVE MakingInv(p, st[i])
    <3>1. i = n + 1 \/ i = n \/ i \in 1..(n - 1)
      BY <2>12, <2>17
    <3>2. i \in 1..(n - 1) => i \in 1..n /\ st[i] = stack[p][i]
      BY <2>12, <2>15, <2>17
    <3>3. st[n] = f
      BY <2>12, <2>15, <2>17
    <3> QED
      BY <1>2, <2>10, <2>11, <2>12, <2>17, <3>1, <3>2, <3>3
  <2>19. Node(st[1].file.path) = target(p)
    <3>1. CASE n = 1
      <4>1. st[1] = f
        BY <2>15, <2>17, <3>1
      <4> QED
        BY <1>2, <2>8, <2>12, <3>1, <4>1
    <3>2. CASE n # 1
      <4>1. 1 \in 1..(n - 1) /\ 1 \in 1..n
        BY <3>2, OneBefore
      <4> QED
        BY <1>2, <2>15, <2>17, <4>1
    <3> QED
      BY <3>1, <3>2
  <2>20. stack' = [stack EXCEPT ![p] = st]
    BY <1>4, <2>1, <2>2, <2>3, <2>6, <2>7, <2>13, <2>16 DEF Descend
  <2>21. PICK r \in {"running", "returned", "thrown"} : r = result[p]
    BY DEF MainInv, MainTypes
  <2>22. result' = [result EXCEPT ![p] = r]
    BY <1>1, <2>21 DEF MainInv, MainTypes
  <2>23. r = "returned" => Dir(target(p))
    BY <2>21 DEF MainInv, OwnInv, MkdirInv
  <2> QED
    BY <1>1, <2>18, <2>19, <2>20, <2>22, <2>23, MainLocal
<1> QED
  BY <1>3, <1>4

-----------------------------------------------------------------------------
(* The steps that make something, or fail to. *)

LEMMA Tried ==
  ASSUME MainTypes, MainTreeInv, NEW p \in Procs, NEW path \in Path, NEW kind \in Kinds,
         TryToMake(p, path, kind), before' = before
  PROVE  /\ OnlyMore /\ OnlyBy(p) /\ MainTreeInv' /\ Tree(fs)'
         /\ maker' \in [DOMAIN maker' -> Procs] /\ Node(path) \in Seq(Names)
         /\ ~Vacant(path) => fs' = fs /\ maker' = maker
         /\ Vacant(path) =>
              /\ path # <<>> /\ Node(path) \notin DOMAIN fs /\ Dir(Front(Node(path)))
              /\ Node(path) \in DOMAIN fs' /\ fs'[Node(path)] = kind
              /\ Node(path) \in DOMAIN maker' /\ maker'[Node(path)] = p
              /\ \A m \in DOMAIN maker' : m \in DOMAIN maker \/ m = Node(path)
<1> DEFINE node == Node(path)
<1>1. node \in Seq(Names)
  BY NodeType
<1>2. CASE ~Vacant(path)
  <2>1. fs' = fs /\ maker' = maker
    BY <1>2 DEF TryToMake
  <2>2. OnlyMore /\ OnlyBy(p) /\ MainTreeInv'
    BY <2>1 DEF OnlyMore, OnlyBy, MainTreeInv
  <2>3. Tree(fs)' /\ maker' \in [DOMAIN maker' -> Procs]
    BY <2>1 DEF MainTypes, Tree
  <2> QED
    BY <1>1, <1>2, <2>1, <2>2, <2>3
<1>3. CASE Vacant(path)
  <2>1. path # <<>> /\ node \notin DOMAIN fs /\ Dir(Front(node))
    BY <1>3 DEF Vacant, Dir
  <2>2. /\ fs' = [m \in DOMAIN fs \union {node} |-> IF m = node THEN kind ELSE fs[m]]
        /\ maker' = [m \in DOMAIN maker \union {node} |-> IF m = node THEN p ELSE maker[m]]
    BY <1>3 DEF TryToMake, Make
  <2> HIDE DEF node
  <2>3. /\ DOMAIN fs' = DOMAIN fs \union {node} /\ fs'[node] = kind
        /\ \A m \in DOMAIN fs : fs'[m] = fs[m]
    BY <2>1, <2>2
  <2>4. node \notin DOMAIN maker /\ DOMAIN maker \subseteq DOMAIN fs
    BY <2>1 DEF MainTreeInv
  <2>5. /\ DOMAIN maker' = DOMAIN maker \union {node} /\ maker'[node] = p
        /\ \A m \in DOMAIN maker : maker'[m] = maker[m]
    BY <2>2, <2>4
  <2>6. OnlyMore /\ OnlyBy(p)
    BY <2>3, <2>5 DEF OnlyMore, OnlyBy
  <2>7. MainTreeInv'
    BY <2>1, <2>3, <2>5 DEF MainTreeInv
  <2>8. Tree(fs)'
    <3>1. Tree([m \in DOMAIN fs \union {node} |-> IF m = node THEN kind ELSE fs[m]])
      <4>1. Tree(fs)
        BY DEF MainTypes
      <4>2. Front(node) \in DOMAIN fs /\ fs[Front(node)] = "dir" /\ node \notin DOMAIN fs
        BY <2>1 DEF Dir
      <4>3. node \in Seq(Names)
        BY <1>1 DEF node
      <4> QED
        BY <4>1, <4>2, <4>3, TreeWith
    <3>2. Tree(fs')
      BY <2>2, <3>1
    <3> QED
      BY <3>2 DEF Tree, IsTree
  <2>9. maker' \in [DOMAIN maker' -> Procs]
    <3>1. \A m \in DOMAIN maker : maker[m] \in Procs
      BY DEF MainTypes
    <3>2. \A m \in DOMAIN maker' : maker'[m] \in Procs
      BY <2>5, <3>1
    <3> QED
      BY <2>2, <2>5, <3>2
  <2>10. \A m \in DOMAIN maker' : m \in DOMAIN maker \/ m = node
    BY <2>5
  <2> QED
    BY <1>1, <1>3, <2>1, <2>3, <2>5, <2>6, <2>7, <2>8, <2>9, <2>10 DEF node
<1> QED
  BY <1>2, <1>3

LEMMA ComposeKept ==
  ASSUME NEW q, ComposeInv(q), arg' = arg, before' = before, step'[q] = step[q],
         outputDir'[q] = outputDir[q], hFile'[q] = hFile[q], OnlyMore
  PROVE  ComposeInv(q)'
<1>1. /\ asked(q)' = asked(q) /\ header(q)' = header(q)
      /\ WellSpelt(q)' <=> WellSpelt(q)
  BY SameTerms
<1>2. /\ \A node : Dir(node) => Dir(node)'
      /\ \A node \in DOMAIN fs : node \in DOMAIN fs'
  BY DEF OnlyMore, Dir
<1> QED
  BY <1>1, <1>2 DEF ComposeInv

LEMMA PrefixesMeet ==
  ASSUME NEW T, NEW s \in Seq(T), NEW t \in Seq(T), NEW u \in Seq(T),
         IsPrefix(s, u), IsPrefix(t, u)
  PROVE  IsPrefix(s, t) \/ IsPrefix(t, s)
<1>1. /\ Len(s) <= Len(u) /\ \A i \in 1..Len(s) : s[i] = u[i]
      /\ Len(t) <= Len(u) /\ \A i \in 1..Len(t) : t[i] = u[i]
  BY PrefixByElements
<1>2. Len(s) \in Nat /\ Len(t) \in Nat
  OBVIOUS
<1>3. CASE Len(s) <= Len(t)
  <2>1. \A i \in 1..Len(s) : s[i] = t[i]
    BY <1>1, <1>2, <1>3
  <2> QED
    BY <1>3, <2>1, PrefixByElements
<1>4. CASE Len(t) <= Len(s)
  <2>1. \A i \in 1..Len(t) : t[i] = s[i]
    BY <1>1, <1>2, <1>4
  <2> QED
    BY <1>4, <2>1, PrefixByElements
<1> QED
  BY <1>2, <1>3, <1>4

(* What the generator's mkdir makes on the way to the header's directory    *)
(* lies below the output directory, which is there.                         *)
LEMMA MadeBelow ==
  ASSUME MainTypes, NEW p \in Procs, asked(p) \in DOMAIN fs, NEW node \in Seq(Names),
         node \notin DOMAIN fs, IsPrefix(node, Front(header(p)))
  PROVE  IsPrefix(asked(p), node) /\ node # header(p)
<1>1. /\ asked(p) \in Seq(Names) /\ Front(header(p)) \in Seq(Names)
      /\ header(p) \in Seq(Names) /\ Front(header(p)) # header(p)
      /\ IsPrefix(Front(header(p)), header(p)) /\ IsPrefix(asked(p), Front(header(p)))
  BY PlaceFacts
<1>2. IsPrefix(asked(p), node) \/ IsPrefix(node, asked(p))
  BY <1>1, PrefixesMeet
<1>3. ~IsPrefix(node, asked(p))
  <2>1. node # asked(p)
    OBVIOUS
  <2> QED
    BY <2>1, TreeClosed DEF MainTypes
<1>4. node # header(p)
  BY <1>1, PrefixBoth
<1> QED
  BY <1>2, <1>3, <1>4

LEMMA MakingMkdir ==
  ASSUME MainInv, NEW p \in Procs, step[p] = "making", UNCHANGED mainVars, SystemMkdir(p)
  PROVE  MainInv'
<1>0. /\ step' = step /\ arg' = arg /\ outputDir' = outputDir /\ hFile' = hFile
  BY DEF mainVars
<1>1. Running(p) /\ frame(p).pc = "mkdir" /\ UNCHANGED <<call, before, remover>>
  BY DEF SystemMkdir, At
<1>2. PICK path : path = frame(p).file.path
  OBVIOUS
<1>3. CASE ~Vacant(path)
  <2>1. Throw(p) /\ UNCHANGED <<fs, history>>
    BY <1>1, <1>2, <1>3 DEF SystemMkdir, history
  <2> QED
    BY <2>1, MakingThrow
<1>4. CASE Vacant(path)
  <2>1. /\ TryToMake(p, path, "dir") /\ Goto(p, "chmod") /\ result' = result
    BY <1>2, <1>4 DEF SystemMkdir, TryToMake
  <2>2. /\ Len(stack[p]) \in Nat \ {0} /\ stack[p] \in Seq(Frames)
        /\ frame(p) = stack[p][Len(stack[p])]
        /\ frame(p) \in Frames /\ MakingInv(p, frame(p))
        /\ Front(stack[p]) \in Seq(Frames) /\ Len(Front(stack[p])) = Len(stack[p]) - 1
        /\ \A i \in 1..(Len(stack[p]) - 1) : Front(stack[p])[i] = stack[p][i]
        /\ \A i \in 1..Len(stack[p]) : MakingInv(p, stack[p][i])
        /\ Node(stack[p][1].file.path) = target(p)
    BY <1>1, MakingInner
  <2>3. path \in Path
    BY <1>2, <2>2 DEF Frames, Files
  <2>4. PICK node : node = Node(path)
    OBVIOUS
  <2>5. /\ OnlyMore /\ OnlyBy(p) /\ MainTreeInv' /\ Tree(fs)'
        /\ maker' \in [DOMAIN maker' -> Procs] /\ node \in Seq(Names)
        /\ path # <<>> /\ node \notin DOMAIN fs
        /\ node \in DOMAIN fs' /\ fs'[node] = "dir"
        /\ \A m \in DOMAIN maker' : m \in DOMAIN maker \/ m = node
    BY <1>1, <1>4, <2>1, <2>3, <2>4, Tried DEF MainInv, Kinds
  <2>6. PICK f : f = [frame(p) EXCEPT !.pc = "chmod"]
    OBVIOUS
  <2>7. /\ f \in Frames /\ f.pc = "chmod" /\ f.file = frame(p).file
        /\ f.parentDir = frame(p).parentDir /\ f.ancestors = frame(p).ancestors
    BY <2>2, <2>6 DEF Frames, Labels
  <2>8. PICK n \in Nat \ {0} : n = Len(stack[p])
    BY <2>2
  <2>9. PICK st \in Seq(Frames) : st = Append(Front(stack[p]), f)
    BY <2>2, <2>7, Extended
  <2>10. /\ DOMAIN st = 1..((n - 1) + 1) /\ st[(n - 1) + 1] = f
         /\ \A i \in 1..(n - 1) : st[i] = Front(stack[p])[i]
    BY <2>2, <2>7, <2>8, <2>9, Extended
  <2>11. DOMAIN st = 1..n /\ st[n] = f /\ \A i \in 1..(n - 1) : st[i] = stack[p][i]
    BY <2>2, <2>8, <2>10
  <2>12. stack' = [stack EXCEPT ![p] = st]
    BY <2>1, <2>6, <2>9 DEF Goto, Replace
  <2>13. stack'[p] = st /\ stack' \in [Procs -> Seq(Frames)]
    BY <2>12 DEF MainInv, MainTypes
  <2>14. MainTypes'
    <3>1. Tree(before)'
      BY <1>1 DEF MainInv, MainTypes, Tree, IsTree
    <3> QED
      BY <1>0, <1>1, <2>1, <2>5, <2>13, <3>1 DEF MainInv, MainTypes
  <2>15. OthersSame(p)
    BY <1>0, <1>1, <2>1, <2>12 DEF OthersSame, Same, MainInv, MainTypes
  <2>16. OwnInv(p)
    BY DEF MainInv
  <2>17. ComposeInv(p)'
    BY <1>0, <1>1, <2>5, <2>16, ComposeKept DEF OwnInv
  <2>18. /\ asked(p)' = asked(p) /\ header(p)' = header(p)
         /\ WellSpelt(p)' <=> WellSpelt(p)
    BY <1>0, <1>1, SameTerms
  <2>19. target(p)' = target(p) /\ \A m : Dir(m) => Dir(m)'
    BY <1>1, <2>5 DEF target, OnlyMore, Dir
  <2>20. MkdirInv(p)'
    <3>1. \A g : MakingInv(p, g) => MakingInv(p, g)'
      BY <2>19 DEF MakingInv
    <3>2. MakingInv(p, f)'
      <4>1. Dir(Node(f.file.path))'
        BY <1>2, <2>4, <2>5, <2>7 DEF Dir
      <4> QED
        BY <2>2, <2>7, <2>19, <4>1 DEF MakingInv
    <3>3. ASSUME NEW i \in DOMAIN st PROVE MakingInv(p, st[i])'
      <4>1. CASE i = n
        BY <2>11, <3>2, <4>1
      <4>2. CASE i # n
        <5>1. i \in 1..(n - 1) /\ i \in 1..n
          BY <2>8, <2>11, <4>2
        <5> QED
          BY <2>2, <2>8, <2>11, <3>1, <5>1
      <4> QED
        BY <4>1, <4>2
    <3>4. Node(st[1].file.path) = target(p)
      <4>1. CASE n = 1
        BY <2>2, <2>7, <2>8, <2>11, <4>1
      <4>2. CASE n # 1
        <5>1. 1 \in 1..(n - 1)
          BY <4>2, OneBefore
        <5> QED
          BY <2>2, <2>11, <5>1
      <4> QED
        BY <4>1, <4>2
    <3> QED
      BY <1>0, <2>1, <2>13, <2>16, <2>18, <2>19, <3>3, <3>4 DEF OwnInv, MkdirInv
  <2>21. WrittenInv(p)'
    <3>1. WellSpelt(p) => IsPrefix(asked(p), node) /\ node # header(p)
      <4> SUFFICES ASSUME WellSpelt(p) PROVE IsPrefix(asked(p), node) /\ node # header(p)
        OBVIOUS
      <4>1. target(p) = Front(header(p)) /\ asked(p) \in DOMAIN fs
        BY <2>16 DEF OwnInv, MkdirInv, ComposeInv
      <4>2. IsPrefix(node, target(p))
        BY <1>2, <2>2, <2>4, <2>5 DEF MakingInv, FileLeads, Leads
      <4> QED
        BY <2>5, <4>1, <4>2, MadeBelow DEF MainInv
    <3>2. ASSUME NEW m \in DOMAIN maker', maker'[m] = p, WellSpelt(p)
          PROVE  IsPrefix(asked(p), m) /\ (m = header(p) => fs'[m] = "file")
      <4>1. CASE m = node
        BY <3>1, <3>2, <4>1
      <4>2. CASE m # node
        <5>1. m \in DOMAIN maker /\ maker[m] = p
          BY <2>5, <3>2, <4>2 DEF OnlyMore
        <5>2. m \in DOMAIN fs
          BY <5>1 DEF MainInv, MainTreeInv
        <5> QED
          BY <2>5, <2>16, <3>2, <5>1, <5>2 DEF OwnInv, WrittenInv, OnlyMore
      <4> QED
        BY <4>1, <4>2
    <3> QED
      BY <1>0, <2>16, <2>18, <3>2 DEF OwnInv, WrittenInv
  <2> QED
    BY <2>5, <2>14, <2>15, <2>17, <2>20, <2>21, MainAssemble DEF OwnInv
<1> QED
  BY <1>3, <1>4

(* The generator's mkdir, one step.                                         *)
LEMMA MakingStep ==
  ASSUME MainInv, NEW p \in Procs, step[p] = "making", UNCHANGED mainVars, Step(p)
  PROVE  MainInv'
<1>1. ~CheckFile(p) /\ ~Unlink(p)
  BY MakingInner DEF CheckFile, Unlink, At, MakingInv
<1> QED
  BY <1>1, MakingSearch, MakingDescend, MakingMkdir DEF Step

-----------------------------------------------------------------------------
(* The other steps of an invocation. *)

(* An invocation goes on to another step, with what the invariant wants     *)
(* there, and leaves the tree and mkdir's state alone.                      *)
Quietly(p, to, o, h) ==
  /\ UNCHANGED <<vars, arg>>
  /\ to \in MainSteps \ {"making", "exited"} /\ o \in Files /\ h \in Files
  /\ step' = [step EXCEPT ![p] = to]
  /\ outputDir' = [outputDir EXCEPT ![p] = o] /\ hFile' = [hFile EXCEPT ![p] = h]
  /\ to \notin {"open", "failed"} => step[p] \notin {"making", "open", "failed", "exited"}
  /\ to \in {"compose", "parents", "open"} => arg[p] # <<>> /\ asked(p) \in DOMAIN fs
  /\ to \in {"check", "shell", "validate", "compose"} /\ WellSpelt(p) /\ arg[p] # <<>>
       => Closed(o.dir, asked(p))
  /\ to \in {"parents", "open"} /\ WellSpelt(p) =>
       /\ h.path # <<>> /\ Node(h.path) = header(p)
       /\ \/ Closed(h.dir, Front(header(p)))
          \/ Closed(h.dir, header(p)) /\ Dir(header(p))
  /\ to = "open" /\ WellSpelt(p) => Dir(Front(header(p)))

LEMMA MainQuiet ==
  ASSUME MainInv, NEW p \in Procs, NEW to, NEW o, NEW h, Quietly(p, to, o, h)
  PROVE  MainInv'
<1> USE DEF Quietly
<1>0. /\ fs' = fs /\ stack' = stack /\ result' = result /\ call' = call
      /\ before' = before /\ maker' = maker /\ arg' = arg
  BY DEF vars, history
<1>1. step'[p] = to /\ outputDir'[p] = o /\ hFile'[p] = h
  BY DEF MainInv, MainTypes
<1>2. MainTypes' /\ MainTreeInv'
  <2>1. Tree(fs)' /\ Tree(before)'
    BY <1>0 DEF MainInv, MainTypes, Tree
  <2>2. /\ step' \in [Procs -> MainSteps]
        /\ outputDir' \in [Procs -> Files] /\ hFile' \in [Procs -> Files]
    BY DEF MainInv, MainTypes
  <2>3. MainTypes'
    BY <1>0, <2>1, <2>2 DEF MainInv, MainTypes
  <2>4. MainTreeInv'
    BY <1>0 DEF MainInv, MainTreeInv
  <2> QED
    BY <2>3, <2>4
<1>3. OthersSame(p) /\ OnlyMore /\ OnlyBy(p)
  BY <1>0 DEF OthersSame, Same, OnlyMore, OnlyBy, MainInv, MainTypes
<1>4. /\ asked(p)' = asked(p) /\ header(p)' = header(p)
      /\ WellSpelt(p)' <=> WellSpelt(p)
      /\ \A node : Dir(node)' <=> Dir(node)
  BY <1>0, SameTerms DEF Dir
<1>5. ComposeInv(p)'
  BY <1>0, <1>1, <1>4 DEF ComposeInv
<1>6. OwnInv(p)
  BY DEF MainInv
<1>7. MkdirInv(p)'
  BY <1>0, <1>1, <1>6 DEF OwnInv, MkdirInv
<1>8. WrittenInv(p)'
  BY <1>0, <1>1, <1>4, <1>6 DEF OwnInv, WrittenInv
<1> QED
  BY <1>2, <1>3, <1>5, <1>7, <1>8, MainAssemble DEF OwnInv

LEMMA FilesOf ==
  ASSUME MainInv, NEW p \in Procs
  PROVE  /\ outputDir[p] \in Files /\ hFile[p] \in Files
         /\ outputDir = [outputDir EXCEPT ![p] = outputDir[p]]
         /\ hFile = [hFile EXCEPT ![p] = hFile[p]]
         /\ OwnInv(p) /\ arg[p] \in Path /\ asked(p) \in Seq(Names) /\ Tree(fs)
BY PlaceFacts DEF MainInv, MainTypes

(* What was a directory at first, or nothing, as WellSpelt has it.          *)
LEMMA ConstructStep ==
  ASSUME MainInv, NEW p \in Procs, ConstructOutputDir(p)
  PROVE  MainInv'
<1>1. /\ step[p] = "construct" /\ step' = [step EXCEPT ![p] = "check"]
      /\ outputDir' = [outputDir EXCEPT ![p] = NewFile(arg[p])]
      /\ UNCHANGED <<vars, arg>> /\ hFile' = hFile
  BY DEF ConstructOutputDir, Proceed
<1>2. arg[p] \in Path /\ asked(p) \in Seq(Names) /\ Tree(fs)
  BY FilesOf
<1>3. PICK o : o = NewFile(arg[p])
  OBVIOUS
<1>4. o \in Files
  <2>1. Leads(arg[p], asked(p))
    BY <1>2, PrefixItself DEF Leads, asked
  <2> QED
    BY <1>2, <1>3, <2>1, NewFileLeads
<1>5. WellSpelt(p) /\ arg[p] # <<>> => Closed(o.dir, asked(p))
  <2> SUFFICES ASSUME WellSpelt(p), arg[p] # <<>> PROVE Closed(o.dir, asked(p))
    OBVIOUS
  <2>1. \/ Dir(Node(arg[p])) \/ Last(arg[p]) = Sep
        \/ \A i \in DOMAIN arg[p] : arg[p][i] # Sep
    <3>1. \A node \in DOMAIN before : node \in DOMAIN fs /\ fs[node] = before[node]
      BY DEF MainInv, MainTreeInv
    <3> QED
      BY <3>1 DEF WellSpelt, Dir, asked
  <2> QED
    BY <1>2, <1>3, <2>1, OutputFile DEF asked
<1>6. PICK to \in MainSteps \ {"making", "exited"} : to = "check"
  BY DEF MainSteps
<1>7. PICK h \in Files : h = hFile[p] /\ hFile' = [hFile EXCEPT ![p] = h]
  BY <1>1, FilesOf
<1>8. Quietly(p, to, o, h)
  BY <1>1, <1>3, <1>4, <1>5, <1>6, <1>7 DEF Quietly
<1> QED
  BY <1>8, MainQuiet

LEMMA CheckStep ==
  ASSUME MainInv, NEW p \in Procs, CheckOutputDir(p)
  PROVE  MainInv'
<1>1. PICK to \in {"shell", "validate"} :
        /\ step[p] = "check" /\ step' = [step EXCEPT ![p] = to]
        /\ UNCHANGED <<vars, arg>> /\ outputDir' = outputDir /\ hFile' = hFile
  BY DEF CheckOutputDir, Proceed
<1>2. to \in MainSteps \ {"making", "exited"}
  BY DEF MainSteps
<1>3. PICK o \in Files : o = outputDir[p] /\ outputDir' = [outputDir EXCEPT ![p] = o]
  BY <1>1, FilesOf
<1>4. PICK h \in Files : h = hFile[p] /\ hFile' = [hFile EXCEPT ![p] = h]
  BY <1>1, FilesOf
<1>5. WellSpelt(p) /\ arg[p] # <<>> => Closed(o.dir, asked(p))
  BY <1>1, <1>3, FilesOf DEF OwnInv, ComposeInv
<1>6. Quietly(p, to, o, h)
  BY <1>1, <1>2, <1>3, <1>4, <1>5 DEF Quietly
<1> QED
  BY <1>6, MainQuiet

LEMMA ValidateStep ==
  ASSUME MainInv, NEW p \in Procs, Validate(p)
  PROVE  MainInv'
<1>1. /\ step[p] = "validate"
      /\ step' = [step EXCEPT ![p] = IF Stat(arg[p]) = "none" THEN "failed" ELSE "compose"]
      /\ UNCHANGED <<vars, arg>> /\ outputDir' = outputDir /\ hFile' = hFile
  BY DEF Validate, Proceed
<1>2. PICK to \in {"failed", "compose"} :
        to = IF Stat(arg[p]) = "none" THEN "failed" ELSE "compose"
  OBVIOUS
<1>3. to \in MainSteps \ {"making", "exited"}
  BY DEF MainSteps
<1>4. PICK o \in Files : o = outputDir[p] /\ outputDir' = [outputDir EXCEPT ![p] = o]
  BY <1>1, FilesOf
<1>5. PICK h \in Files : h = hFile[p] /\ hFile' = [hFile EXCEPT ![p] = h]
  BY <1>1, FilesOf
<1>6. to = "compose" => arg[p] # <<>> /\ asked(p) \in DOMAIN fs
  BY <1>2, StatFacts, FilesOf DEF asked
<1>7. WellSpelt(p) /\ arg[p] # <<>> => Closed(o.dir, asked(p))
  BY <1>1, <1>4, FilesOf DEF OwnInv, ComposeInv
<1>8. Quietly(p, to, o, h)
  BY <1>1, <1>2, <1>3, <1>4, <1>5, <1>6, <1>7 DEF Quietly
<1> QED
  BY <1>8, MainQuiet

LEMMA ComposeStep ==
  ASSUME MainInv, NEW p \in Procs, ComposeHeader(p)
  PROVE  MainInv'
<1>1. /\ step[p] = "compose" /\ step' = [step EXCEPT ![p] = "parents"]
      /\ hFile' = [hFile EXCEPT ![p] = NewFile(outputDir[p].dir \o Header)]
      /\ UNCHANGED <<vars, arg>> /\ outputDir' = outputDir
  BY DEF ComposeHeader, Proceed
<1>2. PICK o \in Files : o = outputDir[p] /\ outputDir' = [outputDir EXCEPT ![p] = o]
  BY <1>1, FilesOf
<1>3. PICK h : h = NewFile(o.dir \o Header)
  OBVIOUS
<1>4. o.dir \in Path /\ asked(p) \in Seq(Names) /\ Tree(fs)
  BY FilesOf DEF Files
<1>5. arg[p] # <<>> /\ asked(p) \in DOMAIN fs /\ (WellSpelt(p) => Closed(o.dir, asked(p)))
  BY <1>1, <1>2, FilesOf DEF OwnInv, ComposeInv
<1>6. h \in Files
  <2>1. o.dir \o Header \in Path
    BY <1>4, HeaderType, Joined DEF Path
  <2>2. /\ Leads(o.dir \o Header, Node(o.dir \o Header))
        /\ Node(o.dir \o Header) \in Seq(Names)
    BY <2>1, NodeType, PrefixItself DEF Leads
  <2> QED
    BY <1>3, <2>1, <2>2, NewFileLeads
<1>7. WellSpelt(p) =>
        /\ h.path # <<>> /\ Node(h.path) = header(p)
        /\ \/ Closed(h.dir, Front(header(p)))
           \/ Closed(h.dir, header(p)) /\ Dir(header(p))
  <2>1. header(p) = asked(p) \o Tail1
    BY PlaceFacts DEF MainInv
  <2>2. PICK d \in Path : d = o.dir
    BY <1>4
  <2>3. PICK n \in Seq(Names) : n = asked(p)
    BY <1>4
  <2> SUFFICES ASSUME WellSpelt(p)
               PROVE  /\ h.path # <<>> /\ Node(h.path) = header(p)
                      /\ \/ Closed(h.dir, Front(header(p)))
                         \/ Closed(h.dir, header(p)) /\ Dir(header(p))
    OBVIOUS
  <2>4. Closed(d, n)
    BY <1>5, <2>2, <2>3
  <2>5. /\ h.path # <<>> /\ Node(h.path) = n \o Tail1
        /\ \/ Closed(h.dir, Front(n \o Tail1))
           \/ Closed(h.dir, n \o Tail1) /\ Dir(n \o Tail1)
    BY <1>3, <1>4, <2>2, <2>4, HeaderFile
  <2> QED
    BY <2>1, <2>3, <2>5
<1>8. PICK to \in MainSteps \ {"making", "exited"} : to = "parents"
  BY DEF MainSteps
<1>9. Quietly(p, to, o, h)
  BY <1>1, <1>2, <1>3, <1>5, <1>6, <1>7, <1>8 DEF Quietly
<1> QED
  BY <1>9, MainQuiet

(* The end of the generator's mkdir. *)
LEMMA MadeStep ==
  ASSUME MainInv, NEW p \in Procs, step[p] = "making", result[p] = "returned",
         step' = [step EXCEPT ![p] = "open"], UNCHANGED <<vars, arg, outputDir, hFile>>
  PROVE  MainInv'
<1>1. PICK o \in Files : o = outputDir[p] /\ outputDir' = [outputDir EXCEPT ![p] = o]
  BY FilesOf
<1>2. PICK h \in Files : h = hFile[p] /\ hFile' = [hFile EXCEPT ![p] = h]
  BY FilesOf
<1>3. OwnInv(p)
  BY FilesOf
<1>4. /\ arg[p] # <<>> /\ asked(p) \in DOMAIN fs
      /\ WellSpelt(p) =>
           /\ h.path # <<>> /\ Node(h.path) = header(p)
           /\ \/ Closed(h.dir, Front(header(p)))
              \/ Closed(h.dir, header(p)) /\ Dir(header(p))
  BY <1>2, <1>3 DEF OwnInv, ComposeInv
<1>5. WellSpelt(p) => Dir(Front(header(p)))
  BY <1>3 DEF OwnInv, MkdirInv
<1>6. PICK to \in MainSteps \ {"making", "exited"} : to = "open"
  BY DEF MainSteps
<1>7. Quietly(p, to, o, h)
  BY <1>1, <1>2, <1>4, <1>5, <1>6 DEF Quietly
<1> QED
  BY <1>7, MainQuiet

(* Its exception ends the invocation. *)
LEMMA FailedStep ==
  ASSUME MainInv, NEW p \in Procs,
         step' = [step EXCEPT ![p] = "failed"], UNCHANGED <<vars, arg, outputDir, hFile>>
  PROVE  MainInv'
<1>1. PICK o \in Files : o = outputDir[p] /\ outputDir' = [outputDir EXCEPT ![p] = o]
  BY FilesOf
<1>2. PICK h \in Files : h = hFile[p] /\ hFile' = [hFile EXCEPT ![p] = h]
  BY FilesOf
<1>3. PICK to \in MainSteps \ {"making", "exited"} : to = "failed"
  BY DEF MainSteps
<1>4. UNCHANGED <<vars, arg>>
  OBVIOUS
<1>5. Quietly(p, to, o, h)
  BY <1>1, <1>2, <1>3, <1>4 DEF Quietly
<1> QED
  BY <1>5, MainQuiet

LEMMA Single ==
  ASSUME NEW T, NEW e \in T
  PROVE  /\ <<e>> \in Seq(T) /\ <<e>> # <<>>
         /\ Len(<<e>>) = 1 /\ <<e>>[1] = e /\ DOMAIN <<e>> = {1}
OBVIOUS

LEMMA ParentStep ==
  ASSUME MainInv, NEW p \in Procs, EnsureParent(p)
  PROVE  MainInv'
<1>1. PICK parent : parent = NewFile(hFile[p].dir)
  OBVIOUS
<1>2. /\ step[p] = "parents"
      /\ UNCHANGED <<fs, result, before, maker, remover, others, arg, outputDir, hFile>>
  BY DEF EnsureParent
<1>3. PICK d \in Path : d = hFile[p].dir
  BY FilesOf DEF Files
<1>4. PICK n : n = Node(d)
  OBVIOUS
<1>5. /\ parent \in Files /\ FileLeads(parent, n) /\ Node(parent.path) = n
      /\ d # <<>> /\ Last(d) = Sep => (Stat(parent.path) # "none" <=> Dir(n))
  BY <1>1, <1>3, <1>4, ParentFile, FilesOf
<1>6. OwnInv(p)
  BY FilesOf
<1>7. /\ arg[p] # <<>> /\ asked(p) \in DOMAIN fs
      /\ WellSpelt(p) =>
           /\ hFile[p].path # <<>> /\ Node(hFile[p].path) = header(p)
           /\ \/ Closed(d, Front(header(p)))
              \/ Closed(d, header(p)) /\ Dir(header(p))
  BY <1>2, <1>3, <1>6 DEF OwnInv, ComposeInv
<1>8. /\ header(p) \in Seq(Names) /\ header(p) # <<>>
  BY PlaceFacts DEF MainInv
<1>9. CASE Stat(parent.path) # "none"
  <2>1. /\ step' = [step EXCEPT ![p] = "open"] /\ UNCHANGED <<vars, arg>>
    BY <1>1, <1>2, <1>9 DEF EnsureParent, Proceed, vars, history
  <2>2. PICK to \in MainSteps \ {"making", "exited"} : to = "open"
    BY DEF MainSteps
  <2>3. PICK o \in Files : o = outputDir[p] /\ outputDir' = [outputDir EXCEPT ![p] = o]
    BY <1>2, FilesOf
  <2>4. PICK h \in Files : h = hFile[p] /\ hFile' = [hFile EXCEPT ![p] = h]
    BY <1>2, FilesOf
  <2>5. WellSpelt(p) => Dir(Front(header(p)))
    <3>1. Dir(header(p)) => Dir(Front(header(p)))
      BY <1>8 DEF MainInv, MainTypes, Tree, IsTree, Dir
    <3> QED
      BY <1>4, <1>5, <1>7, <1>9, <3>1 DEF Closed
  <2>6. Quietly(p, to, o, h)
    BY <1>3, <1>7, <2>1, <2>2, <2>3, <2>4, <2>5 DEF Quietly
  <2> QED
    BY <2>6, MainQuiet
<1>10. CASE Stat(parent.path) = "none"
  <2>1. PICK f : f = Frame(parent, TRUE)
    OBVIOUS
  <2>2. /\ f \in Frames /\ f.file = parent /\ f.parentDir = parent
        /\ f.ancestors = <<>> /\ f.pc = "exists"
    BY <1>5, <2>1 DEF Frame, Frames, Labels
  <2>3. PICK st \in Seq(Frames) : st = <<f>>
    BY <2>2, Single
  <2>4. Len(st) = 1 /\ st[1] = f /\ DOMAIN st = {1} /\ st # <<>>
    BY <2>2, <2>3, Single
  <2>5. /\ step' = [step EXCEPT ![p] = "making"]
        /\ call' = [call EXCEPT ![p].path = parent.path]
        /\ stack' = [stack EXCEPT ![p] = st]
    BY <1>1, <1>2, <1>10, <2>1, <2>3 DEF EnsureParent, Proceed
  <2>6. PICK path \in Path : path = parent.path
    BY <1>5 DEF Files
  <2>7. /\ stack'[p] = st /\ step'[p] = "making" /\ call'[p].path = path
        /\ stack' \in [Procs -> Seq(Frames)] /\ step' \in [Procs -> MainSteps]
        /\ call' \in [Procs -> [op : {"mkdir"}, path : Path, createParents : {TRUE}]]
    BY <2>5, <2>6 DEF MainInv, MainTypes, MainSteps
  <2>8. MainTypes' /\ MainTreeInv'
    <3>1. Tree(fs)' /\ Tree(before)'
      BY <1>2 DEF MainInv, MainTypes, Tree
    <3>2. MainTypes'
      BY <1>2, <2>7, <3>1 DEF MainInv, MainTypes
    <3>3. MainTreeInv'
      BY <1>2 DEF MainInv, MainTreeInv
    <3> QED
      BY <3>2, <3>3
  <2>9. OthersSame(p) /\ OnlyMore /\ OnlyBy(p)
    BY <1>2, <2>5 DEF OthersSame, Same, OnlyMore, OnlyBy, MainInv, MainTypes
  <2>10. /\ asked(p)' = asked(p) /\ header(p)' = header(p)
         /\ WellSpelt(p)' <=> WellSpelt(p)
         /\ \A node : Dir(node)' <=> Dir(node)
    BY <1>2, SameTerms DEF Dir
  <2>11. ComposeInv(p)'
    BY <1>2, <1>3, <1>7, <2>7, <2>10 DEF ComposeInv
  <2>12. target(p)' = n
    BY <1>5, <2>6, <2>7 DEF target
  <2>13. MkdirInv(p)'
    <3>1. MakingInv(p, f)'
      <4>1. DOMAIN f.ancestors = {}
        BY <2>2
      <4> QED
        BY <1>5, <2>2, <2>12, <4>1 DEF MakingInv
    <3>2. \A i \in DOMAIN st : MakingInv(p, st[i])'
      BY <2>4, <3>1
    <3>3. Node(st[1].file.path) = n
      BY <1>5, <2>2, <2>4
    <3>4. result'[p] = "running"
      BY <1>2, <1>6 DEF OwnInv, MkdirInv
    <3>5. WellSpelt(p) => n = Front(header(p))
      BY <1>4, <1>5, <1>7, <1>10 DEF Closed
    <3> QED
      BY <2>7, <2>10, <2>12, <3>2, <3>3, <3>4, <3>5 DEF MkdirInv
  <2>14. WrittenInv(p)'
    BY <1>2, <1>6, <2>7, <2>10 DEF OwnInv, WrittenInv
  <2> QED
    BY <2>8, <2>9, <2>11, <2>13, <2>14, MainAssemble DEF OwnInv
<1> QED
  BY <1>9, <1>10

(* mkdir of the shell, and the header's ofstream: a node is made, or not,   *)
(* and nobody looks.                                                        *)
LEMMA MainMake ==
  ASSUME MainInv, NEW p \in Procs, NEW path \in Path, NEW kind \in Kinds,
         NEW to \in {"validate", "exited"}, step' = [step EXCEPT ![p] = to],
         TryToMake(p, path, kind),
         UNCHANGED <<stack, result, call, before, arg, outputDir, hFile>>,
         to = "validate" => step[p] = "shell",
         to = "exited" => step[p] = "open",
         WellSpelt(p) /\ Vacant(path) =>
           /\ IsPrefix(asked(p), Node(path))
           /\ Node(path) = header(p) => kind = "file",
         WellSpelt(p) /\ to = "exited" =>
           Node(path) = header(p) /\ (Vacant(path) \/ header(p) \in DOMAIN fs)
  PROVE  MainInv'
<1>1. step'[p] = to /\ step' \in [Procs -> MainSteps]
  BY DEF MainInv, MainTypes, MainSteps
<1>2. PICK node : node = Node(path)
  OBVIOUS
<1>3. /\ OnlyMore /\ OnlyBy(p) /\ MainTreeInv' /\ Tree(fs)'
      /\ maker' \in [DOMAIN maker' -> Procs]
      /\ ~Vacant(path) => fs' = fs /\ maker' = maker
      /\ Vacant(path) =>
           /\ node \in DOMAIN fs' /\ fs'[node] = kind
           /\ \A m \in DOMAIN maker' : m \in DOMAIN maker \/ m = node
  BY <1>2, Tried DEF MainInv
<1>4. MainTypes'
  <2>1. Tree(before)'
    BY DEF MainInv, MainTypes, Tree, IsTree
  <2> QED
    BY <1>1, <1>3, <2>1 DEF MainInv, MainTypes
<1>5. OthersSame(p)
  BY DEF OthersSame, Same, MainInv, MainTypes
<1>6. /\ asked(p)' = asked(p) /\ header(p)' = header(p)
      /\ WellSpelt(p)' <=> WellSpelt(p)
      /\ \A m \in DOMAIN fs : m \in DOMAIN fs' /\ fs'[m] = fs[m]
      /\ \A m : Dir(m) => Dir(m)'
  BY <1>3, SameTerms DEF OnlyMore, Dir
<1>7. OwnInv(p)
  BY FilesOf
<1>8. ComposeInv(p)'
  BY <1>1, <1>6, <1>7 DEF OwnInv, ComposeInv
<1>9. MkdirInv(p)'
  BY <1>1, <1>7 DEF OwnInv, MkdirInv
<1>10. WrittenInv(p)'
  <2>1. ASSUME NEW m \in DOMAIN maker', maker'[m] = p, WellSpelt(p)
        PROVE  IsPrefix(asked(p), m) /\ (m = header(p) => fs'[m] = "file")
    <3>1. CASE m \in DOMAIN maker
      <4>1. maker[m] = p /\ m \in DOMAIN fs
        BY <1>3, <2>1, <3>1 DEF OnlyMore, MainInv, MainTreeInv
      <4> QED
        BY <1>6, <1>7, <2>1, <3>1, <4>1 DEF OwnInv, WrittenInv
    <3>2. CASE m \notin DOMAIN maker
      <4>1. Vacant(path) /\ m = node
        BY <1>3, <3>2
      <4> QED
        BY <1>2, <1>3, <2>1, <4>1
    <3> QED
      BY <3>1, <3>2
  <2>2. to = "exited" /\ WellSpelt(p) => header(p) \in DOMAIN fs'
    BY <1>2, <1>3, <1>6
  <2> QED
    BY <1>1, <1>6, <2>1, <2>2 DEF WrittenInv
<1> QED
  BY <1>3, <1>4, <1>5, <1>8, <1>9, <1>10, MainAssemble DEF OwnInv

LEMMA ShellStep ==
  ASSUME MainInv, NEW p \in Procs, ShellMkdir(p)
  PROVE  MainInv'
<1>1. /\ step[p] = "shell" /\ step' = [step EXCEPT ![p] = "validate"]
      /\ TryToMake(p, arg[p], "dir")
      /\ UNCHANGED <<stack, result, call, before, arg, outputDir, hFile>>
  BY DEF ShellMkdir, Proceed
<1>2. PICK path \in Path : path = arg[p] /\ Node(path) = asked(p)
  BY FilesOf DEF asked
<1>3. header(p) # asked(p) /\ IsPrefix(asked(p), asked(p))
  BY PlaceFacts, FilesOf, PrefixItself DEF MainInv
<1>4. PICK kind \in Kinds : kind = "dir"
  BY DEF Kinds
<1> QED
  BY <1>1, <1>2, <1>3, <1>4, MainMake

LEMMA OpenStep ==
  ASSUME MainInv, NEW p \in Procs, OpenHeader(p)
  PROVE  MainInv'
<1>1. /\ step[p] = "open" /\ step' = [step EXCEPT ![p] = "exited"]
      /\ TryToMake(p, hFile[p].path, "file")
      /\ UNCHANGED <<stack, result, call, before, arg, outputDir, hFile>>
  BY DEF OpenHeader, Proceed
<1>2. PICK path \in Path : path = hFile[p].path
  BY FilesOf DEF Files
<1>3. PICK kind \in Kinds : kind = "file"
  BY DEF Kinds
<1>4. WellSpelt(p) =>
        /\ path # <<>> /\ Node(path) = header(p) /\ Dir(Front(header(p)))
        /\ IsPrefix(asked(p), Node(path))
  BY <1>1, <1>2, FilesOf, PlaceFacts DEF MainInv, OwnInv, ComposeInv, WrittenInv
<1>5. WellSpelt(p) => Vacant(path) \/ header(p) \in DOMAIN fs
  BY <1>4 DEF Vacant, Dir
<1> QED
  BY <1>1, <1>2, <1>3, <1>4, <1>5, MainMake

LEMMA MainStepKept ==
  ASSUME MainInv, NEW p \in Procs, MainStep(p)
  PROVE  MainInv'
<1>1. CASE InMkdir(p)
  <2>1. step[p] = "making"
    BY <1>1 DEF InMkdir
  <2>2. CASE Step(p) /\ UNCHANGED mainVars
    BY <2>1, <2>2, MakingStep
  <2>3. CASE /\ Proceed(p, "making", IF result[p] = "returned" THEN "open" ELSE "failed")
             /\ UNCHANGED <<vars, arg, outputDir, hFile>>
    <3>1. CASE result[p] = "returned"
      <4>1. step' = [step EXCEPT ![p] = "open"]
        BY <2>3, <3>1 DEF Proceed
      <4> QED
        BY <2>1, <2>3, <3>1, <4>1, MadeStep
    <3>2. CASE result[p] # "returned"
      <4>1. step' = [step EXCEPT ![p] = "failed"]
        BY <2>3, <3>2 DEF Proceed
      <4> QED
        BY <2>3, <4>1, FailedStep
    <3> QED
      BY <3>1, <3>2
  <2> QED
    BY <1>1, <2>2, <2>3 DEF InMkdir
<1> QED
  BY <1>1, ConstructStep, CheckStep, ShellStep, ValidateStep, ComposeStep, ParentStep,
     OpenStep DEF MainStep

LEMMA InitMainInv ==
  ASSUME MainInit
  PROVE  MainInv
<1>1. Tree(fs) /\ before = fs /\ Tree(before)
  BY MakeDirectoryAssumption DEF MainInit, Tree
<1>2. DOMAIN maker = {} /\ maker \in [DOMAIN maker -> Procs]
  BY DEF MainInit
<1>3. <<>> \in Seq(Frames) /\ NoFile \in Files
  BY DEF NoFile, Files, Path
<1>4. ASSUME NEW p \in Procs PROVE arg[p] \in Targets /\ arg[p] \in Path
  BY MakeDirectoryAssumption DEF MainInit
<1>5. \A p \in Procs :
        /\ stack[p] = <<>> /\ result[p] = "running" /\ step[p] = "construct"
  BY DEF MainInit
<1>6. MainTypes
  <2>1. stack \in [Procs -> Seq(Frames)]
    BY <1>3 DEF MainInit
  <2>2. result \in [Procs -> {"running", "returned", "thrown"}]
    BY DEF MainInit
  <2>3. call \in [Procs -> [op : {"mkdir"}, path : Path, createParents : {TRUE}]]
    BY <1>4 DEF MainInit
  <2>4. step \in [Procs -> MainSteps] /\ arg \in [Procs -> Targets]
    BY DEF MainInit, MainSteps
  <2>5. outputDir \in [Procs -> Files] /\ hFile \in [Procs -> Files]
    BY <1>3 DEF MainInit
  <2> QED
    BY <1>1, <1>2, <2>1, <2>2, <2>3, <2>4, <2>5 DEF MainTypes
<1>7. MainTreeInv
  BY <1>1, <1>2 DEF MainTreeInv
<1>8. ASSUME NEW p \in Procs PROVE OwnInv(p)
  BY <1>2, <1>5 DEF OwnInv, ComposeInv, MkdirInv, WrittenInv
<1> QED
  BY <1>6, <1>7, <1>8 DEF MainInv

LEMMA MainStutter ==
  ASSUME MainInv, UNCHANGED allVars
  PROVE  MainInv'
<1>1. /\ fs' = fs /\ stack' = stack /\ result' = result /\ call' = call
      /\ before' = before /\ maker' = maker
      /\ step' = step /\ arg' = arg /\ outputDir' = outputDir /\ hFile' = hFile
  BY DEF allVars, vars, history, mainVars
<1>2. MainTypes' /\ MainTreeInv'
  <2>1. Tree(fs)' /\ Tree(before)'
    BY <1>1 DEF MainInv, MainTypes, Tree
  <2>2. MainTypes'
    BY <1>1, <2>1 DEF MainInv, MainTypes
  <2>3. MainTreeInv'
    BY <1>1 DEF MainInv, MainTreeInv
  <2> QED
    BY <2>2, <2>3
<1>3. OnlyMore
  BY <1>1 DEF OnlyMore
<1>4. ASSUME NEW p \in Procs PROVE OwnInv(p)'
  <2>1. Same(p) /\ \A node \in DOMAIN maker' : node \in DOMAIN maker
    BY <1>1 DEF Same
  <2> QED
    BY <1>1, <1>3, <2>1, OwnKept DEF MainInv
<1> QED
  BY <1>2, <1>4 DEF MainInv

(* The invariant of the invocations: what each of them has composed, what   *)
(* its mkdir is about, and what it made.                                    *)
THEOREM MainInvariant == MainSpec => []MainInv
<1>1. MainInit => MainInv
  BY InitMainInv
<1>2. MainInv /\ [MainNext]_allVars => MainInv'
  BY MainStepKept, MainStutter DEF MainNext
<1> QED
  BY <1>1, <1>2, PTL DEF MainSpec

(* The directories of parseCL and of generate, and the header, lie in the   *)
(* output directory of the command line, if that is well spelt, whatever    *)
(* the other invocations make at the same time.                             *)
THEOREM InsideOnly == MainSpec => []MadeInside
<1>1. MainInv => MadeInside
  <2> SUFFICES ASSUME MainInv, NEW node \in DOMAIN maker, WellSpelt(maker[node])
               PROVE  IsPrefix(asked(maker[node]), node)
    BY DEF MadeInside
  <2>1. PICK p \in Procs : p = maker[node]
    BY DEF MainInv, MainTypes
  <2> QED
    BY <2>1 DEF MainInv, OwnInv, WrittenInv
<1> QED
  BY <1>1, MainInvariant, PTL

(* An invocation that ends with exit status 0 has its header where the user *)
(* asked for it, unless a directory that it did not make lies there.        *)
THEOREM ExitedHasWritten == MainSpec => []ExitedMeansWritten
<1>1. MainInv => ExitedMeansWritten
  <2> SUFFICES ASSUME MainInv, NEW p \in Procs, step[p] = "exited", WellSpelt(p)
               PROVE  /\ header(p) \in DOMAIN fs
                      /\ \/ fs[header(p)] = "file"
                         \/ header(p) \in DOMAIN before
                         \/ maker[header(p)] # p
    BY DEF ExitedMeansWritten
  <2>1. /\ header(p) \in DOMAIN fs
        /\ \A node \in DOMAIN maker :
             maker[node] = p => (node = header(p) => fs[node] = "file")
    BY DEF MainInv, OwnInv, WrittenInv
  <2>2. header(p) \in DOMAIN before \/ header(p) \in DOMAIN maker
    BY <2>1 DEF MainInv, MainTreeInv
  <2> QED
    BY <2>1, <2>2
<1> QED
  BY <1>1, MainInvariant, PTL

=============================================================================
