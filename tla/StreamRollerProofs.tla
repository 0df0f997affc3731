------------------------- MODULE StreamRollerProofs -------------------------
(***************************************************************************)
(* Proofs about StreamRoller, for lists of any length and objects of any   *)
(* size.                                                                   *)
(***************************************************************************)
EXTENDS StreamRoller, TLAPS

Filled == pc \notin {"sizing", "thrown"}
Received == pc \in {"listing", "listed"}

(* What the first pass has added up. *)
PlanInv ==
  /\ Len(plan) = Len(sizes) + 1
  /\ plan[1] = HeaderBytes
  /\ plan[Len(plan)] = size - EndBytes
  /\ \A k \in 1..Len(sizes) : plan[k + 1] = plan[k] + sizes[k] + PrefixBytes
  /\ \A k \in 1..Len(plan) : HeaderBytes <= plan[k] /\ plan[k] <= size - EndBytes

(* How far the second pass has come. *)
PassInv ==
  /\ pc = "sizing" => written = <<>> /\ starts = <<HeaderBytes>> /\ mem = {}
  /\ pc # "sizing" => Len(sizes) = n
  /\ pc # "thrown" => Len(starts) = Len(written) + 1
  /\ pc \notin {"sizing", "filling", "thrown"} => Len(written) = n
  /\ starts[1] = HeaderBytes
  /\ \A k \in 1..Len(starts) : HeaderBytes <= starts[k]

(* As long as the objects keep to their sizes, the passes agree. *)
AgreeInv ==
  changed = {} /\ pc # "thrown" => \A k \in 1..Len(starts) : starts[k] = plan[k]

(* Fields are where the code puts them: none beyond the next object's start *)
(* but the end designation, and no two on the same bytes.                   *)
LayoutInv ==
  /\ Filled => \A f \in mem :
       IF f.is = "end"
       THEN pc # "filling" /\ f.at = objectOffset /\ f.len = EndBytes
       ELSE f.at + f.len <= objectOffset
  /\ Filled => \A f, g \in mem : f = g \/ Apart(f, g)
  /\ \A f \in mem : /\ f.is = "size" => f.len = SizeBytes
                    /\ f.is = "hash" => f.len = HashBytes
                    /\ f.is = "count" => f.len = 4

(* Every object written is still there, with its prefix. *)
KeepInv ==
  /\ Filled => Field("count", 14, 4, n % CountModulus) \in mem
  /\ Filled => \A k \in 1..Len(written) :
       /\ Field("size", starts[k], SizeBytes,
                starts[k + 1] - starts[k] - PrefixBytes) \in mem
       /\ Field("hash", starts[k] + SizeBytes, HashBytes, written[k]) \in mem
       /\ Field("object", starts[k] + PrefixBytes,
                starts[k + 1] - starts[k] - PrefixBytes, k - 1) \in mem
  /\ pc \notin {"sizing", "filling", "thrown"} =>
       Field("end", objectOffset, EndBytes, 0) \in mem

(* The receiver walks the starts of the sender. *)
ReadInv ==
  /\ ~Received => cursor = HeaderBytes
  /\ Received => /\ count = n % CountModulus
                 /\ Len(contents) <= count
                 /\ cursor = starts[Len(contents) + 1]
  /\ pc = "listed" => Len(contents) = count
  /\ contents # <<>> => Received
  /\ Received => \A k \in 1..Len(contents) :
       contents[k] = <<written[k], starts[k] + PrefixBytes>>
  /\ got # <<-1, -1>> => /\ pc = "listed"
                         /\ 0 <= got[1] /\ got[1] < Len(contents)
                         /\ got[2] = contents[got[1] + 1][2]

IInv ==
  /\ TypeOK
  /\ PlanInv
  /\ PassInv
  /\ AgreeInv
  /\ LayoutInv
  /\ KeepInv
  /\ ReadInv

-----------------------------------------------------------------------------
(* Sequences and the buffer. *)

LEMMA Appended ==
  ASSUME NEW T, NEW q \in Seq(T), NEW e \in T
  PROVE  /\ Append(q, e) \in Seq(T)
         /\ Len(Append(q, e)) = Len(q) + 1
         /\ \A k \in 1..Len(q) : Append(q, e)[k] = q[k]
         /\ Append(q, e)[Len(q) + 1] = e
OBVIOUS

LEMMA Modulus ==
  ASSUME NEW a \in Nat
  PROVE  /\ a % CountModulus \in 0..(CountModulus - 1)
         /\ a % CountModulus <= a
         /\ a < CountModulus => a % CountModulus = a
BY StreamAssumption

LEMMA ReadIsUnique ==
  ASSUME mem \subseteq Fields, NEW f \in mem, f.len > 0,
         \A g \in mem : g = f \/ Apart(f, g),
         \A g \in mem : g.is = f.is => g.len = f.len,
         NEW garbage
  PROVE  Read(f.is, f.at, garbage) = {f.val}
<1>1. \A g \in mem : g.is = f.is /\ g.at = f.at => g = f
  BY DEF Apart, Fields
<1>2. {g \in mem : g.is = f.is /\ g.at = f.at} = {f}
  BY <1>1
<1>3. QED
  BY <1>2 DEF Read

(* Beyond everything written, the three fields of an object only add.       *)
LEMMA PutObjectAdds ==
  ASSUME mem \subseteq Fields, NEW at \in Nat,
         \A f \in mem : f.at + f.len <= at,
         NEW s \in Nat, NEW h \in Int, NEW w \in Nat
  PROVE  PutObject(at, s, h, w) =
           mem \union {Field("size", at, SizeBytes, s),
                       Field("hash", at + SizeBytes, HashBytes, h),
                       Field("object", at + PrefixBytes, w, Len(written))}
<1> DEFINE S == Field("size", at, SizeBytes, s)
           H == Field("hash", at + SizeBytes, HashBytes, h)
           O == Field("object", at + PrefixBytes, w, Len(written))
<1>1. S.at = at /\ S.len = 8 /\ H.at = at + 8 /\ H.len = 4 /\ O.at = at + 12
      /\ O.len = w
  BY DEF Field, PrefixBytes, SizeBytes, HashBytes
<1>2. \A f \in mem : f.at \in Nat /\ f.len \in Nat
  BY DEF Fields
<1> HIDE DEF S, H, O
<1>3. Put(mem, S) = mem \union {S}
  BY <1>1, <1>2 DEF Put, Apart
<1>4. Put(mem \union {S}, H) = mem \union {S, H}
  BY <1>1, <1>2 DEF Put, Apart
<1>5. Put(mem \union {S, H}, O) = mem \union {S, H, O}
  BY <1>1, <1>2 DEF Put, Apart
<1>6. QED
  BY <1>3, <1>4, <1>5 DEF PutObject, S, H, O

LEMMA InitIInv == Init => IInv
<1> SUFFICES ASSUME Init PROVE IInv
  OBVIOUS
<1>1. TypeOK
  BY StreamAssumption DEF Init, TypeOK, HeaderBytes, EndBytes
<1>2. PlanInv /\ PassInv /\ AgreeInv
  BY DEF Init, PlanInv, PassInv, AgreeInv, HeaderBytes, EndBytes
<1>3. LayoutInv /\ KeepInv /\ ReadInv
  BY DEF Init, LayoutInv, KeepInv, ReadInv, Filled, Received
<1>4. QED
  BY <1>1, <1>2, <1>3 DEF IInv

LEMMA SizeObjectStep == IInv /\ SizeObject => IInv'
<1> SUFFICES ASSUME IInv, SizeObject PROVE IInv'
  OBVIOUS
<1> USE StreamAssumption DEF IInv
<1>1. PICK s \in Sizes : /\ sizes' = Append(sizes, s)
                         /\ size' = size + s + PrefixBytes
                         /\ plan' = Append(plan, size' - EndBytes)
  BY DEF SizeObject
<1>2. /\ s \in Nat /\ Len(sizes) \in Nat /\ Len(sizes) < n /\ n \in Nat
      /\ sizes \in Seq(Sizes) /\ plan \in Seq(Nat) /\ size \in Nat
      /\ pc = "sizing" /\ Len(plan) = Len(sizes) + 1
  BY DEF SizeObject, TypeOK, PlanInv
<1>3. 20 <= size /\ size' = size + s + 12
  BY <1>1, <1>2 DEF PlanInv, HeaderBytes, EndBytes, PrefixBytes, SizeBytes, HashBytes
<1>4. size' \in Nat /\ size' - EndBytes \in Nat
  BY <1>2, <1>3 DEF EndBytes
<1>5. /\ sizes' \in Seq(Sizes) /\ Len(sizes') = Len(sizes) + 1
      /\ plan' \in Seq(Nat) /\ Len(plan') = Len(plan) + 1
      /\ \A k \in 1..Len(sizes) : sizes'[k] = sizes[k]
      /\ \A k \in 1..Len(plan) : plan'[k] = plan[k]
      /\ sizes'[Len(sizes) + 1] = s
      /\ plan'[Len(plan) + 1] = size' - EndBytes
  BY <1>1, <1>2, <1>4
<1>6. UNCHANGED <<pc, version, n, mem, starts, written, changed, count, contents,
                  cursor, got>>
  BY DEF SizeObject, readVars
<1>7. TypeOK'
  <2>1. Len(sizes') <= n'
    BY <1>2, <1>5, <1>6
  <2>2. QED
    BY <1>4, <1>5, <1>6, <2>1 DEF TypeOK
<1>8. PlanInv'
  <2>1. \A k \in 1..Len(plan) : plan[k] \in Nat
    BY <1>2
  <2>2. ASSUME NEW k \in 1..Len(plan')
        PROVE  18 <= plan'[k] /\ plan'[k] <= size' - 2
    <3>1. CASE k = Len(plan) + 1
      BY <1>2, <1>3, <1>5, <3>1 DEF EndBytes
    <3>2. CASE k \in 1..Len(plan)
      <4>1. plan'[k] = plan[k] /\ plan[k] \in Nat
        BY <1>5, <2>1, <3>2
      <4>2. 18 <= plan[k] /\ plan[k] <= size - 2
        BY <3>2 DEF PlanInv, HeaderBytes, EndBytes
      <4>3. QED
        BY <1>2, <1>3, <4>1, <4>2
    <3>3. QED
      BY <1>2, <1>5, <3>1, <3>2
  <2>3. ASSUME NEW k \in 1..Len(sizes')
        PROVE  plan'[k + 1] = plan'[k] + sizes'[k] + 12
    <3>1. CASE k \in 1..Len(sizes)
      <4>1. k \in 1..Len(plan) /\ k + 1 \in 1..Len(plan)
        BY <1>2, <3>1
      <4>2. /\ plan'[k] = plan[k] /\ plan'[k + 1] = plan[k + 1]
            /\ sizes'[k] = sizes[k]
        BY <1>5, <3>1, <4>1
      <4>3. plan[k + 1] = plan[k] + sizes[k] + 12
        BY <3>1 DEF PlanInv, PrefixBytes, SizeBytes, HashBytes
      <4>4. QED
        BY <4>2, <4>3
    <3>2. CASE k = Len(sizes) + 1
      <4>1. plan'[k] = size - 2
        BY <1>2, <1>5, <3>2 DEF PlanInv, EndBytes
      <4>2. plan'[k + 1] = size' - 2 /\ sizes'[k] = s
        BY <1>2, <1>5, <3>2 DEF EndBytes
      <4>3. QED
        BY <1>2, <1>3, <4>1, <4>2
    <3>3. QED
      BY <1>2, <1>5, <3>1, <3>2
  <2>4. plan'[1] = 18
    BY <1>2, <1>5 DEF PlanInv, HeaderBytes
  <2>5. plan'[Len(plan')] = size' - 2
    BY <1>2, <1>5 DEF EndBytes
  <2>6. QED
    BY <1>2, <1>5, <2>2, <2>3, <2>4, <2>5
       DEF PlanInv, HeaderBytes, EndBytes, PrefixBytes, SizeBytes, HashBytes
<1>9. PassInv' /\ AgreeInv'
  <2>1. /\ starts' = <<18>> /\ written' = <<>> /\ mem' = {} /\ pc' = "sizing"
    BY <1>2, <1>6 DEF PassInv, HeaderBytes
  <2>2. plan'[1] = 18
    BY <1>8 DEF PlanInv, HeaderBytes
  <2>3. Len(starts') = 1 /\ Len(written') = 0 /\ starts'[1] = 18
    BY <2>1
  <2>4. \A k \in 1..Len(starts') : k = 1
    BY <2>3
  <2>5. PassInv'
    BY <2>1, <2>3, <2>4 DEF PassInv, HeaderBytes
  <2>6. AgreeInv'
    BY <2>2, <2>3, <2>4 DEF AgreeInv
  <2>7. QED
    BY <2>5, <2>6
<1>10. LayoutInv' /\ KeepInv' /\ ReadInv'
  BY <1>6 DEF SizeObject, LayoutInv, KeepInv, ReadInv, Filled, Received, objectOffset
<1>11. QED
  BY <1>7, <1>8, <1>9, <1>10

LEMMA WriteHeaderStep == IInv /\ WriteHeader => IInv'
<1> SUFFICES ASSUME IInv, WriteHeader PROVE IInv'
  OBVIOUS
<1> USE StreamAssumption DEF IInv
<1>1. mem' = {Field("begin", 0, 2, 0), Field("version", 2, 4, version),
              Field("count", 14, 4, n % CountModulus)}
  BY DEF WriteHeader
<1>2. TypeOK'
  <2>1. n % CountModulus \in Int
    BY Modulus DEF TypeOK
  <2>2. mem' \subseteq Fields
    BY <1>1, <2>1 DEF Field, Fields, FieldKinds, TypeOK
  <2>3. QED
    BY <2>2 DEF WriteHeader, TypeOK, createVars, readVars
<1>3. PlanInv' /\ PassInv' /\ AgreeInv'
  BY DEF WriteHeader, PlanInv, PassInv, AgreeInv, createVars
<1>4. LayoutInv'
  <2>1. starts' = <<18>> /\ pc' = "filling"
    BY DEF WriteHeader, PassInv, createVars, HeaderBytes
  <2>2. objectOffset' = 18
    BY <2>1 DEF objectOffset
  <2>3. \A f \in mem' : f.is \in {"begin", "version", "count"} /\ f.at + f.len <= 18
    BY <1>1 DEF Field
  <2>4. \A f, g \in mem' : f = g \/ Apart(f, g)
    BY <1>1 DEF Field, Apart
  <2>5. \A f \in mem' : f.is = "count" => f.len = 4
    BY <1>1 DEF Field
  <2>6. QED
    BY <2>1, <2>2, <2>3, <2>4, <2>5 DEF LayoutInv, Filled
<1>5. KeepInv' /\ ReadInv'
  BY <1>1 DEF WriteHeader, PassInv, KeepInv, ReadInv, createVars, readVars,
              Received, Filled
<1>6. QED
  BY <1>2, <1>3, <1>4, <1>5

LEMMA WriteObjectStep == IInv /\ WriteObject => IInv'
<1> SUFFICES ASSUME IInv, WriteObject PROVE IInv'
  OBVIOUS
<1> USE StreamAssumption DEF IInv
<1> DEFINE o == objectOffset
           L == Len(written) + 1
<1>1. PICK s \in Sizes, h \in Hashes, w \in Sizes :
         /\ mem' = PutObject(o, s, h, w)
         /\ written' = Append(written, h)
         /\ changed' = changed \union {k \in {L} : s # sizes[k]}
         /\ IF w # s
            THEN pc' = "thrown" /\ UNCHANGED starts
            ELSE /\ starts' = Append(starts, o + s + PrefixBytes)
                 /\ UNCHANGED pc
  BY DEF WriteObject
<1> DEFINE S == Field("size", o, SizeBytes, s)
           H == Field("hash", o + SizeBytes, HashBytes, h)
           O == Field("object", o + PrefixBytes, w, Len(written))
<1>2. UNCHANGED <<version, n, sizes, size, plan, count, contents, cursor, got>>
  BY DEF WriteObject, readVars
<1>3. /\ pc = "filling" /\ Len(written) \in Nat /\ n \in Nat /\ L <= n
      /\ Len(starts) = L /\ starts \in Seq(Nat) /\ written \in Seq(Hashes)
      /\ s \in Nat /\ w \in Nat /\ h \in Int /\ n <= MaxObjects
      /\ Len(sizes) = n /\ Len(plan) = n + 1 /\ Filled
  <2>1. /\ pc = "filling" /\ Len(written) < n /\ n \in 0..MaxObjects
        /\ starts \in Seq(Nat) /\ written \in Seq(Hashes)
    BY DEF WriteObject, TypeOK
  <2>2. Len(starts) = L /\ Len(sizes) = n /\ Len(plan) = n + 1 /\ Filled
    BY <2>1 DEF PassInv, PlanInv, Filled
  <2>3. s \in Nat /\ w \in Nat /\ h \in Int
    OBVIOUS
  <2>4. QED
    BY <2>1, <2>2, <2>3
<1>4. o \in Nat /\ 18 <= o /\ o = starts[L]
  <2>1. o = starts[L] /\ L \in 1..Len(starts)
    BY <1>3 DEF objectOffset
  <2>2. starts[L] \in Nat
    BY <1>3, <2>1
  <2>3. QED
    BY <2>1, <2>2 DEF PassInv, HeaderBytes
<1>5. \A f \in mem : f.is # "end" /\ f.at + f.len <= o /\ f.at \in Nat /\ f.len \in Nat
  BY <1>3 DEF LayoutInv, TypeOK, Fields
<1> HIDE DEF o
<1>o. o \in Nat /\ s \in Nat /\ w \in Nat /\ h \in Int
  BY <1>3, <1>4
<1>6. mem' = mem \union {S, H, O}
  <2>1. mem \subseteq Fields /\ \A f \in mem : f.at + f.len <= o
    BY <1>5 DEF TypeOK
  <2>2. PutObject(o, s, h, w) = mem \union {S, H, O}
    BY <1>o, <2>1, PutObjectAdds, Zenon
  <2>3. QED
    BY <1>1, <2>2
<1>7. /\ S \in Fields /\ S.is = "size" /\ S.at = o /\ S.len = 8 /\ S.val = s
      /\ H \in Fields /\ H.is = "hash" /\ H.at = o + 8 /\ H.len = 4 /\ H.val = h
      /\ O \in Fields /\ O.is = "object" /\ O.at = o + 12 /\ O.len = w
      /\ O.val = L - 1
  BY <1>3, <1>4, SMTT(30)
     DEF Field, Fields, FieldKinds, SizeBytes, HashBytes, PrefixBytes
<1> HIDE DEF S, H, O
<1>8. /\ written' \in Seq(Hashes) /\ Len(written') = L
      /\ \A k \in 1..(L - 1) : written'[k] = written[k]
      /\ written'[L] = h
  BY <1>1, <1>3, Appended
<1>9. changed' \subseteq 1..MaxObjects
  <2>1. L \in 1..MaxObjects
    BY <1>3
  <2>2. changed \subseteq 1..MaxObjects
    BY DEF TypeOK
  <2>3. QED
    BY <1>1, <2>1, <2>2
<1>10. PlanInv'
  BY <1>2 DEF PlanInv
<1>11. mem' \subseteq Fields
  BY <1>6, <1>7 DEF TypeOK
<1>12. \A f \in mem' : /\ f.is = "size" => f.len = SizeBytes
                       /\ f.is = "hash" => f.len = HashBytes
                       /\ f.is = "count" => f.len = 4
  BY <1>6, <1>7 DEF LayoutInv, SizeBytes, HashBytes
<1>13. contents = <<>> /\ got = <<-1, -1>> /\ cursor = HeaderBytes
  BY <1>3 DEF ReadInv, Received
<1>14. CASE w # s
  <2>1. pc' = "thrown" /\ UNCHANGED starts
    BY <1>1, <1>14
  <2>2. TypeOK'
    BY <1>2, <1>3, <1>8, <1>9, <1>11, <2>1 DEF TypeOK
  <2>3. PassInv' /\ AgreeInv'
    BY <1>2, <1>3, <2>1 DEF PassInv, AgreeInv
  <2>4. LayoutInv' /\ KeepInv' /\ ReadInv'
    BY <1>2, <1>12, <1>13, <2>1 DEF LayoutInv, KeepInv, ReadInv, Filled, Received
  <2>5. QED
    BY <1>10, <2>2, <2>3, <2>4
<1>15. CASE w = s
  <2>1. pc' = "filling"
    BY <1>1, <1>3, <1>15
  <2>2. /\ starts' \in Seq(Nat) /\ Len(starts') = L + 1
        /\ \A k \in 1..L : starts'[k] = starts[k]
        /\ starts'[L + 1] = o + s + 12
    <3>1. o + s + PrefixBytes \in Nat /\ o + s + PrefixBytes = o + s + 12
      BY <1>3, <1>4, SMTT(30) DEF PrefixBytes, SizeBytes, HashBytes
    <3>2. starts' = Append(starts, o + s + PrefixBytes)
      BY <1>1, <1>15
    <3>3. QED
      BY <1>3, <3>1, <3>2, Appended
  <2>3. TypeOK'
    <3>1. starts' # <<>>
      BY <1>3, <2>2
    <3>2. QED
      BY <1>2, <1>3, <1>8, <1>9, <1>11, <2>1, <2>2, <3>1 DEF TypeOK
  <2>4. PassInv'
    <3>1. \A k \in 1..Len(starts') : HeaderBytes <= starts'[k]
      <4>1. SUFFICES ASSUME NEW k \in 1..(L + 1) PROVE 18 <= starts'[k]
        BY <2>2 DEF HeaderBytes
      <4>2. CASE k \in 1..L
        BY <1>3, <2>2, <4>2 DEF PassInv, HeaderBytes
      <4>3. CASE k = L + 1
        BY <1>3, <1>4, <2>2, <4>3, SMTT(30)
      <4>4. QED
        BY <1>3, <4>2, <4>3
    <3>2. QED
      BY <1>2, <1>3, <1>8, <2>1, <2>2, <3>1 DEF PassInv
  <2>5. AgreeInv'
    <3>1. SUFFICES ASSUME changed' = {}, NEW k \in 1..(L + 1)
                   PROVE  starts'[k] = plan[k]
      BY <1>2, <2>2 DEF AgreeInv
    <3>2. changed = {} /\ s = sizes[L]
      BY <1>1, <3>1
    <3>3. \A j \in 1..L : starts[j] = plan[j]
      BY <1>3, <3>2 DEF AgreeInv
    <3>4. CASE k \in 1..L
      BY <2>2, <3>3, <3>4
    <3>5. CASE k = L + 1
      <4>1. L \in 1..Len(sizes)
        BY <1>3
      <4>2. plan[L + 1] = plan[L] + sizes[L] + 12
        BY <4>1 DEF PlanInv, PrefixBytes, SizeBytes, HashBytes
      <4>3. plan[L] = o
        BY <1>3, <1>4, <3>3
      <4>4. QED
        BY <2>2, <3>2, <3>5, <4>2, <4>3
    <3>6. QED
      BY <1>3, <3>4, <3>5
  <2>6. LayoutInv'
    <3>1. objectOffset' = o + s + 12
      BY <2>2 DEF objectOffset
    <3>2. \A f \in mem' : f.is # "end" /\ f.at + f.len <= o + s + 12
      <4>1. SUFFICES ASSUME NEW f \in mem'
                     PROVE  f.is # "end" /\ f.at + f.len <= o + s + 12
        OBVIOUS
      <4>2. CASE f \in mem
        BY <1>o, <1>5, <4>2
      <4>3. CASE f \in {S, H, O}
        BY <1>o, <1>7, <1>15, <4>3
      <4>4. QED
        BY <1>6, <4>2, <4>3
    <3>3. \A f, g \in mem' : f = g \/ Apart(f, g)
      <4>1. \A f, g \in mem : f = g \/ Apart(f, g)
        BY <1>3 DEF LayoutInv
      <4>2. \A f \in mem, g \in {S, H, O} : Apart(f, g) /\ Apart(g, f)
        <5>1. \A g \in {S, H, O} : g.at >= o /\ g.at \in Nat /\ g.len \in Nat
          BY <1>o, <1>7
        <5>2. QED
          BY <1>o, <1>5, <5>1 DEF Apart
      <4>3. \A f, g \in {S, H, O} : f = g \/ Apart(f, g)
        <5>1. Apart(S, H) /\ Apart(H, S)
          BY <1>4, <1>7 DEF Apart
        <5>2. Apart(S, O) /\ Apart(O, S)
          BY <1>3, <1>4, <1>7 DEF Apart
        <5>3. Apart(H, O) /\ Apart(O, H)
          BY <1>3, <1>4, <1>7, SMTT(30) DEF Apart
        <5>4. QED
          BY <5>1, <5>2, <5>3
      <4>4. QED
        BY <1>6, <4>1, <4>2, <4>3
    <3>4. QED
      BY <1>12, <2>1, <3>1, <3>2, <3>3 DEF LayoutInv
  <2>7. KeepInv'
    <3>1. Field("count", 14, 4, n' % CountModulus) \in mem'
      BY <1>2, <1>3, <1>6 DEF KeepInv
    <3>2. ASSUME NEW k \in 1..L
          PROVE  /\ Field("size", starts'[k], SizeBytes,
                          starts'[k + 1] - starts'[k] - PrefixBytes) \in mem'
                 /\ Field("hash", starts'[k] + SizeBytes, HashBytes, written'[k]) \in mem'
                 /\ Field("object", starts'[k] + PrefixBytes,
                          starts'[k + 1] - starts'[k] - PrefixBytes, k - 1) \in mem'
      <4>1. CASE k \in 1..(L - 1)
        <5>1. k \in 1..Len(written) /\ k \in 1..L /\ k + 1 \in 1..L
          BY <1>3, <4>1
        <5>2. /\ starts'[k] = starts[k] /\ starts'[k + 1] = starts[k + 1]
              /\ written'[k] = written[k]
          BY <1>8, <2>2, <4>1, <5>1
        <5>3. QED
          BY <1>3, <1>6, <5>1, <5>2 DEF KeepInv
      <4>2. CASE k = L
        <5>1. starts'[k] = o /\ starts'[k + 1] = o + s + 12 /\ written'[k] = h
          BY <1>3, <1>4, <1>8, <2>2, <4>2
        <5>2. starts'[k + 1] - starts'[k] - PrefixBytes = s /\ k - 1 = Len(written)
          BY <1>3, <1>4, <4>2, <5>1, SMTT(30) DEF PrefixBytes, SizeBytes, HashBytes
        <5>3. QED
          BY <1>6, <1>15, <5>1, <5>2 DEF S, H, O
      <4>3. QED
        BY <1>3, <4>1, <4>2
    <3>3. QED
      BY <1>8, <2>1, <3>1, <3>2 DEF KeepInv
  <2>8. ReadInv'
    BY <1>2, <1>13, <2>1 DEF ReadInv, Received
  <2>9. QED
    BY <1>10, <2>3, <2>4, <2>5, <2>6, <2>7, <2>8
<1>16. QED
  BY <1>14, <1>15

LEMMA WriteEndStep == IInv /\ WriteEnd => IInv'
<1> SUFFICES ASSUME IInv, WriteEnd PROVE IInv'
  OBVIOUS
<1> USE StreamAssumption DEF IInv
<1> DEFINE o == objectOffset
           E == Field("end", o, EndBytes, 0)
<1>1. /\ pc = "filling" /\ pc' = "returned" /\ Len(written) = n
      /\ mem' = Put(mem, E)
      /\ UNCHANGED <<version, n, sizes, size, plan, starts, written, changed,
                     count, contents, cursor, got>>
  BY DEF WriteEnd, createVars, readVars
<1>2. o \in Nat /\ objectOffset' = o
  <2>1. starts \in Seq(Nat) /\ Len(starts) \in 1..Len(starts)
    BY DEF TypeOK
  <2>2. QED
    BY <1>1, <2>1 DEF objectOffset
<1>3. \A f \in mem : f.is # "end" /\ f.at + f.len <= o /\ f.at \in Nat /\ f.len \in Nat
  BY <1>1 DEF LayoutInv, TypeOK, Fields, Filled
<1> HIDE DEF o
<1>4. E \in Fields /\ E.is = "end" /\ E.at = o /\ E.len = 2
  BY <1>2 DEF Field, Fields, FieldKinds, EndBytes
<1>5. \A f \in mem : Apart(f, E) /\ Apart(E, f)
  <2> HIDE DEF E
  <2>1. QED
    BY <1>2, <1>3, <1>4 DEF Apart
<1>6. mem' = mem \union {E}
  <2> HIDE DEF E
  <2>1. QED
    BY <1>1, <1>5 DEF Put
<1>7. TypeOK'
  BY <1>1, <1>4, <1>6 DEF TypeOK
<1>8. PlanInv' /\ PassInv' /\ AgreeInv'
  BY <1>1 DEF PlanInv, PassInv, AgreeInv
<1>9. LayoutInv'
  <2>1. \A f, g \in mem' : f = g \/ Apart(f, g)
    BY <1>1, <1>5, <1>6 DEF LayoutInv, Filled
  <2>2. \A f \in mem' :
          /\ IF f.is = "end" THEN f.at = objectOffset' /\ f.len = EndBytes
                             ELSE f.at + f.len <= objectOffset'
          /\ f.is = "size" => f.len = SizeBytes
          /\ f.is = "hash" => f.len = HashBytes
          /\ f.is = "count" => f.len = 4
    <3> HIDE DEF E
    <3>1. QED
      BY <1>2, <1>3, <1>4, <1>6 DEF LayoutInv, EndBytes
  <2>3. QED
    BY <1>1, <2>1, <2>2 DEF LayoutInv
<1>10. KeepInv'
  BY <1>1, <1>2, <1>6 DEF KeepInv, Filled
<1>11. ReadInv'
  BY <1>1 DEF ReadInv, Received
<1>12. QED
  BY <1>7, <1>8, <1>9, <1>10, <1>11

(* The parts of the invariant the receiver cannot disturb. *)
LEMMA ReceiverStep ==
  ASSUME IInv, pc \in {"returned", "listing", "listed"},
         pc' \in {"listing", "refused", "listed"},
         UNCHANGED <<mem, createVars>>
  PROVE  PlanInv' /\ PassInv' /\ AgreeInv' /\ LayoutInv' /\ KeepInv'
<1>1. PlanInv' /\ PassInv' /\ AgreeInv'
  BY DEF IInv, PlanInv, PassInv, AgreeInv, createVars
<1>2. LayoutInv' /\ KeepInv'
  BY DEF IInv, LayoutInv, KeepInv, Filled, createVars, objectOffset
<1>3. QED
  BY <1>1, <1>2

LEMMA ListHeaderStep == IInv /\ ListHeader => IInv'
<1> SUFFICES ASSUME IInv, ListHeader PROVE IInv'
  OBVIOUS
<1> USE StreamAssumption DEF IInv
<1> DEFINE c == Field("count", 14, 4, n % CountModulus)
<1>1. /\ pc = "returned" /\ pc' \in {"listing", "refused"}
      /\ UNCHANGED <<mem, createVars, contents, cursor, got>>
      /\ pc' = "listing" => count' \in Read("count", 14, {})
      /\ pc' # "listing" => count' = count
  BY DEF ListHeader
<1>2. Read("count", 14, {}) = {n % CountModulus}
  <2>1. c \in mem /\ c.is = "count" /\ c.at = 14 /\ c.len = 4
        /\ c.val = n % CountModulus
    BY <1>1 DEF KeepInv, Filled, Field
  <2>2. /\ mem \subseteq Fields /\ \A g \in mem : g = c \/ Apart(c, g)
        /\ \A g \in mem : g.is = c.is => g.len = c.len
    BY <1>1, <2>1 DEF LayoutInv, Filled, TypeOK
  <2> HIDE DEF c
  <2>3. c.len > 0
    BY <2>1
  <2>4. \A g \in mem : g = c \/ Apart(g, c)
    BY <2>2 DEF Apart
  <2>5. Read(c.is, c.at, {}) = {c.val}
    BY <2>1, <2>2, <2>3, <2>4, ReadIsUnique
  <2>6. QED
    BY <2>1, <2>5
<1>3. n \in Nat /\ n % CountModulus \in 0..(CountModulus - 1)
  BY Modulus DEF TypeOK
<1>4. count' \in 0..(CountModulus - 1) /\ (pc' = "listing" => count' = n % CountModulus)
  BY <1>1, <1>2, <1>3 DEF TypeOK
<1>5. TypeOK'
  BY <1>1, <1>4 DEF TypeOK, createVars
<1>6. ReadInv'
  <2>1. contents' = <<>> /\ Len(contents') = 0 /\ got' = <<-1, -1>>
    BY <1>1 DEF ReadInv, Received, TypeOK
  <2>2. cursor' = starts'[Len(contents') + 1]
    <3>1. cursor' = HeaderBytes
      BY <1>1 DEF ReadInv, Received
    <3>2. starts'[1] = HeaderBytes
      BY <1>1 DEF PassInv, createVars
    <3>3. QED
      BY <2>1, <3>1, <3>2
  <2>3. QED
    BY <1>1, <1>4, <2>1, <2>2 DEF ReadInv, Received, createVars
<1>7. QED
  BY <1>1, <1>5, <1>6, ReceiverStep

LEMMA ListObjectStep == IInv /\ ListObject => IInv'
<1> SUFFICES ASSUME IInv, ListObject PROVE IInv'
  OBVIOUS
<1> USE StreamAssumption DEF IInv
<1> DEFINE k == Len(contents) + 1
<1>1. PICK s \in Read("size", cursor, Sizes),
           h \in Read("hash", cursor + SizeBytes, Hashes) :
         /\ contents' = Append(contents, <<h, cursor + PrefixBytes>>)
         /\ cursor' = cursor + PrefixBytes + s
  BY DEF ListObject
<1>2. /\ pc = "listing" /\ pc' = "listing" /\ Len(contents) < count
      /\ UNCHANGED <<mem, createVars, count, got>>
  BY DEF ListObject
<1>3. /\ n \in Nat /\ count \in Nat /\ count <= n /\ Len(written) = n
      /\ Len(starts) = n + 1 /\ starts \in Seq(Nat) /\ written \in Seq(Hashes)
      /\ contents \in Seq(Hashes \X Nat)
  <2>1. n \in Nat /\ count = n % CountModulus
    BY <1>2 DEF TypeOK, ReadInv, Received
  <2>2. count \in Nat /\ count <= n
    BY <2>1, Modulus
  <2>3. QED
    BY <1>2, <2>1, <2>2 DEF TypeOK, PassInv
<1>4. k \in 1..n /\ k \in 1..Len(written) /\ k \in 1..Len(starts)
      /\ k + 1 \in 1..Len(starts) /\ k <= count
  BY <1>2, <1>3
<1>5. cursor = starts[k] /\ starts[k] \in Nat /\ starts[k + 1] \in Nat
      /\ written[k] \in Hashes
  <2>1. cursor = starts[k]
    BY <1>2 DEF ReadInv, Received
  <2>2. starts[k] \in Nat /\ starts[k + 1] \in Nat /\ written[k] \in Hashes
    BY <1>3, <1>4
  <2>3. QED
    BY <2>1, <2>2
<1> DEFINE S == Field("size", cursor, SizeBytes, starts[k + 1] - cursor - PrefixBytes)
           H == Field("hash", cursor + SizeBytes, HashBytes, written[k])
<1> HIDE DEF k
<1>6. S \in mem /\ H \in mem
  BY <1>2, <1>4, <1>5 DEF KeepInv, Filled
<1>7. /\ S.is = "size" /\ S.at = cursor /\ S.len = 8
      /\ S.val = starts[k + 1] - cursor - PrefixBytes
      /\ H.is = "hash" /\ H.at = cursor + SizeBytes /\ H.len = 4
      /\ H.val = written[k]
  BY DEF Field, SizeBytes, HashBytes
<1> HIDE DEF S, H
<1>8. s = starts[k + 1] - cursor - PrefixBytes /\ h = written[k]
  <2>1. /\ mem \subseteq Fields
        /\ \A f, g \in mem : g = f \/ Apart(f, g)
        /\ \A g \in mem : g.is = S.is => g.len = S.len
        /\ \A g \in mem : g.is = H.is => g.len = H.len
    BY <1>2, <1>7 DEF LayoutInv, Filled, TypeOK, SizeBytes, HashBytes
  <2>2. S.len > 0 /\ H.len > 0
    BY <1>7
  <2>3. Read(S.is, S.at, Sizes) = {S.val}
    BY <1>6, <2>1, <2>2, ReadIsUnique
  <2>4. Read(H.is, H.at, Hashes) = {H.val}
    BY <1>6, <2>1, <2>2, ReadIsUnique
  <2>5. QED
    BY <1>7, <2>3, <2>4
<1>9. cursor' = starts[k + 1]
  <2>1. cursor \in Nat /\ PrefixBytes \in Nat
    BY <1>5 DEF PrefixBytes, SizeBytes, HashBytes
  <2>2. QED
    BY <1>1, <1>5, <1>8, <2>1
<1>10. /\ contents' \in Seq(Hashes \X Nat) /\ Len(contents') = k
       /\ \A j \in 1..(k - 1) : contents'[j] = contents[j]
       /\ contents'[k] = <<written[k], starts[k] + PrefixBytes>>
  <2>1. <<h, cursor + PrefixBytes>> \in Hashes \X Nat
    BY <1>5, <1>8 DEF PrefixBytes, SizeBytes, HashBytes
  <2>2. QED
    <3> DEFINE e == <<h, cursor + PrefixBytes>>
               T == Hashes \X Nat
    <3>1. e \in T /\ contents \in Seq(T) /\ contents' = Append(contents, e)
      BY <1>1, <1>3, <2>1
    <3>2. e = <<written[k], starts[k] + PrefixBytes>>
      BY <1>5, <1>8
    <3> HIDE DEF e, T
    <3>3. /\ contents' \in Seq(T) /\ Len(contents') = Len(contents) + 1
          /\ \A j \in 1..Len(contents) : contents'[j] = contents[j]
          /\ contents'[Len(contents) + 1] = e
      BY <3>1, Appended
    <3>4. k = Len(contents) + 1 /\ k - 1 = Len(contents)
      BY <1>3 DEF k
    <3>5. QED
      BY <3>2, <3>3, <3>4 DEF T
<1>11. TypeOK'
  BY <1>2, <1>5, <1>9, <1>10 DEF TypeOK, createVars
<1>12. ReadInv'
  <2>1. ASSUME NEW j \in 1..Len(contents')
        PROVE  contents'[j] = <<written'[j], starts'[j] + PrefixBytes>>
    <3>1. CASE j = k
      BY <1>2, <1>10, <3>1 DEF createVars
    <3>2. CASE j \in 1..(k - 1)
      <4>1. j \in 1..Len(contents)
        BY <1>3, <3>2 DEF k
      <4>2. QED
        BY <1>2, <1>10, <3>2, <4>1 DEF ReadInv, Received, createVars
    <3>3. QED
      BY <1>4, <1>10, <3>1, <3>2
  <2>2. got' = <<-1, -1>> /\ contents' # <<>> /\ count' = n' % CountModulus
        /\ Len(contents') <= count' /\ cursor' = starts'[Len(contents') + 1]
    BY <1>2, <1>4, <1>9, <1>10 DEF ReadInv, Received, createVars
  <2>3. QED
    BY <1>2, <2>1, <2>2 DEF ReadInv, Received
<1>13. QED
  BY <1>2, <1>11, <1>12, ReceiverStep

LEMMA ListEndStep == IInv /\ ListEnd => IInv'
<1> SUFFICES ASSUME IInv, ListEnd PROVE IInv'
  OBVIOUS
<1> USE DEF IInv
<1>1. TypeOK'
  BY DEF ListEnd, TypeOK, createVars, readVars
<1>2. ReadInv'
  BY DEF ListEnd, ReadInv, Received, createVars, readVars
<1>3. QED
  BY <1>1, <1>2, ReceiverStep DEF ListEnd

(* The comparison as unsigned numbers lets no negative index through.        *)
LEMMA UnsignedCompares ==
  ASSUME NEW i \in -1..MaxObjects, NEW m \in 0..MaxObjects, Unsigned(i) < m
  PROVE  0 <= i /\ i < m
BY StreamAssumption DEF Unsigned

LEMMA GetObjectStep == IInv /\ GetObject => IInv'
<1> SUFFICES ASSUME IInv, GetObject PROVE IInv'
  OBVIOUS
<1> USE StreamAssumption DEF IInv
<1>1. PICK i \in -1..MaxObjects :
        \/ Unsigned(i) >= Len(contents) /\ got' = <<-1, -1>>
        \/ /\ Unsigned(i) < Len(contents)
           /\ \E offset \in Offsets(i) : got' = <<i, offset>>
  BY DEF GetObject
<1>2. /\ pc = "listed" /\ pc' = "listed"
      /\ UNCHANGED <<mem, createVars, count, contents, cursor>>
  BY DEF GetObject
<1>3. Len(contents) \in 0..MaxObjects
  <2>1. n \in Nat /\ count = n % CountModulus
    BY <1>2 DEF TypeOK, ReadInv, Received
  <2>2. count \in Nat /\ count <= n
    BY <2>1, Modulus
  <2>3. n <= MaxObjects /\ Len(contents) \in Nat /\ Len(contents) <= count
    BY <1>2 DEF TypeOK, ReadInv, Received
  <2>4. QED
    BY <2>1, <2>2, <2>3
<1>4. CASE got' = <<-1, -1>>
  <2>1. TypeOK'
    BY <1>2, <1>4 DEF TypeOK, createVars
  <2>2. ReadInv'
    BY <1>2, <1>4 DEF ReadInv, Received, createVars
  <2>3. QED
    BY <1>2, <2>1, <2>2, ReceiverStep
<1>5. CASE Unsigned(i) < Len(contents) /\ \E offset \in Offsets(i) : got' = <<i, offset>>
  <2>1. 0 <= i /\ i < Len(contents)
    BY <1>3, <1>5, UnsignedCompares
  <2>2. i + 1 \in 1..Len(contents) /\ contents \in Seq(Hashes \X Nat)
    BY <1>3, <2>1 DEF TypeOK
  <2>3. contents[i + 1] \in Hashes \X Nat /\ i + 1 \in DOMAIN contents
    BY <2>2
  <2>4. got' = <<i, contents[i + 1][2]>>
    BY <1>5, <2>3 DEF Offsets
  <2>5. TypeOK'
    BY <1>2, <2>3, <2>4 DEF TypeOK, createVars
  <2>6. ReadInv'
    BY <1>2, <2>1, <2>4 DEF ReadInv, Received, createVars
  <2>7. QED
    BY <1>2, <2>5, <2>6, ReceiverStep
<1>6. QED
  BY <1>1, <1>4, <1>5

LEMMA Invariance == Spec => []IInv
<1>1. IInv /\ [Next]_vars => IInv'
  <2> SUFFICES ASSUME IInv, [Next]_vars PROVE IInv'
    OBVIOUS
  <2>1. CASE UNCHANGED vars
    BY <2>1 DEF IInv, TypeOK, PlanInv, PassInv, AgreeInv, LayoutInv, KeepInv,
                ReadInv, Filled, Received, objectOffset, vars, createVars, readVars
  <2>2. QED
    BY <2>1, SizeObjectStep, WriteHeaderStep, WriteObjectStep, WriteEndStep,
       ListHeaderStep, ListObjectStep, ListEndStep, GetObjectStep DEF Next
<1>2. QED
  BY <1>1, InitIInv, PTL DEF Spec

-----------------------------------------------------------------------------
(* The theorems. *)

(* createStreamContents and listStreamContents keep their variables in range *)
(* whatever the objects answer; the count stays within its 32 bits.          *)
THEOREM TypeCorrect == Spec => []TypeOK
<1>1. IInv => TypeOK
  BY DEF IInv
<1>2. QED
  BY <1>1, Invariance, PTL

(* createStreamContents writes nothing outside its buffer as long as objects *)
(* answer the same size twice, unless it throws.                             *)
THEOREM InBufferHolds == Spec => []InBuffer
<1>1. ASSUME IInv, changed = {}, pc # "thrown", NEW f \in mem
      PROVE  f.at + f.len <= size
  <2>1. Filled
    BY <1>1 DEF IInv, PassInv, Filled
  <2>2. Len(starts) = Len(written) + 1 /\ Len(written) <= n /\ Len(sizes) = n
        /\ Len(plan) = n + 1 /\ n \in Nat /\ starts \in Seq(Nat) /\ size \in Nat
        /\ Len(written) \in Nat /\ plan \in Seq(Nat)
    <3>1. /\ Len(written) <= n /\ n \in Nat /\ starts \in Seq(Nat) /\ size \in Nat
          /\ Len(written) \in Nat /\ plan \in Seq(Nat)
      BY <1>1 DEF IInv, TypeOK
    <3>2. Len(starts) = Len(written) + 1 /\ Len(sizes) = n
      BY <1>1, <2>1 DEF IInv, PassInv, Filled
    <3>3. Len(plan) = n + 1
      BY <1>1, <3>2 DEF IInv, PlanInv
    <3>4. QED
      BY <3>1, <3>2, <3>3
  <2>3. objectOffset \in Nat /\ objectOffset <= size - 2
    <3>1. Len(starts) \in 1..Len(starts) /\ Len(starts) \in 1..Len(plan)
      BY <2>2
    <3>2. objectOffset = plan[Len(starts)]
      BY <1>1, <3>1 DEF IInv, AgreeInv, objectOffset
    <3>3. QED
      BY <1>1, <2>2, <3>1, <3>2 DEF IInv, PlanInv, EndBytes
  <2>4. f.at \in Nat /\ f.len \in Nat
    BY <1>1 DEF IInv, TypeOK, Fields
  <2>5. CASE f.is = "end"
    BY <1>1, <2>1, <2>2, <2>3, <2>4, <2>5, SMTT(30) DEF IInv, LayoutInv, EndBytes
  <2>6. CASE f.is # "end"
    BY <1>1, <2>1, <2>2, <2>3, <2>4, <2>6, SMTT(30) DEF IInv, LayoutInv
  <2>7. QED
    BY <2>5, <2>6
<1>2. IInv => InBuffer
  BY <1>1 DEF InBuffer
<1>3. QED
  BY <1>2, Invariance, PTL

(* The buffer returned by createStreamContents ends with its end             *)
(* designation.                                                              *)
THEOREM EndsAtSizeHolds == Spec => []EndsAtSize
<1>1. ASSUME IInv, changed = {}, pc \notin {"sizing", "filling", "thrown"}
      PROVE  \E f \in mem : f.is = "end" /\ f.at + f.len = size
  <2> DEFINE E == Field("end", objectOffset, EndBytes, 0)
  <2>1. E \in mem /\ E.is = "end" /\ E.at = objectOffset /\ E.len = 2
    BY <1>1 DEF IInv, KeepInv, Field, EndBytes
  <2>2. Len(starts) = n + 1 /\ Len(plan) = n + 1 /\ n \in Nat
    BY <1>1 DEF IInv, PassInv, PlanInv, TypeOK
  <2>3. objectOffset = plan[Len(plan)]
    BY <1>1, <2>2 DEF IInv, AgreeInv, objectOffset
  <2>4. objectOffset = size - 2 /\ size \in Nat
    BY <1>1, <2>3 DEF IInv, PlanInv, TypeOK, EndBytes
  <2> HIDE DEF E
  <2>5. E.at + E.len = size
    BY <2>1, <2>4
  <2>6. QED
    BY <2>1, <2>5
<1>2. IInv => EndsAtSize
  BY <1>1 DEF EndsAtSize
<1>3. QED
  BY <1>2, Invariance, PTL

(* No object written by createStreamContents is written over by another,     *)
(* whatever sizes the objects answer.                                        *)
THEOREM NoneOverwrittenHolds == Spec => []NoneOverwritten
<1>1. ASSUME IInv, pc # "thrown", NEW k \in 0..(Len(written) - 1)
      PROVE  \E f \in mem : ObjectField(f, k)
  <2>1. Len(written) \in Nat /\ k + 1 \in 1..Len(written) /\ (k + 1) - 1 = k
    BY <1>1 DEF IInv, TypeOK
  <2>2. Filled
    BY <1>1, <2>1 DEF IInv, PassInv, Filled
  <2>3. Field("object", starts[k + 1] + PrefixBytes,
              starts[k + 2] - starts[k + 1] - PrefixBytes, (k + 1) - 1) \in mem
    <3>1. (k + 1) + 1 = k + 2
      BY <2>1
    <3>2. QED
      BY <1>1, <2>1, <2>2, <3>1 DEF IInv, KeepInv
  <2>4. QED
    BY <2>1, <2>3 DEF ObjectField, Field
<1>2. IInv => NoneOverwritten
  BY <1>1 DEF NoneOverwritten
<1>3. QED
  BY <1>2, Invariance, PTL

(* What listStreamContents tells of an object is where the object is, and    *)
(* the size in front of it is that of the object.                            *)
LEMMA ListedObject ==
  ASSUME IInv, pc = "listed", NEW k \in 1..Len(contents)
  PROVE  /\ contents[k][1] = written[k]
         /\ \E f, g \in mem :
              /\ ObjectField(f, k - 1) /\ f.at = contents[k][2]
              /\ g.is = "size" /\ g.at + PrefixBytes = f.at /\ g.val = f.len
<1>1. /\ n \in Nat /\ Len(contents) = n % CountModulus /\ Len(written) = n
      /\ Len(contents) \in Nat
  BY SMTT(30) DEF IInv, ReadInv, PassInv, TypeOK, Received
<1>2. k \in 1..Len(written)
  BY <1>1, Modulus
<1>3. contents[k] = <<written[k], starts[k] + PrefixBytes>>
  BY DEF IInv, ReadInv, Received
<1> DEFINE w == starts[k + 1] - starts[k] - PrefixBytes
           F == Field("object", starts[k] + PrefixBytes, w, k - 1)
           G == Field("size", starts[k], SizeBytes, w)
<1>4. F \in mem /\ G \in mem
  BY <1>2 DEF IInv, KeepInv, Filled
<1>5. /\ F.is = "object" /\ F.at = starts[k] + PrefixBytes /\ F.len = w
      /\ F.val = k - 1
      /\ G.is = "size" /\ G.at = starts[k] /\ G.val = w
  BY DEF Field
<1> HIDE DEF F, G
<1>6. QED
  BY <1>3, <1>4, <1>5 DEF ObjectField

(* The receiver finds with listStreamContents the objects that               *)
(* createStreamContents wrote, in their order and at their places: each      *)
(* offset is that of the object's own bytes, and not, as stream_roller.h:52  *)
(* has it, that of the size in front of them.                                *)
THEOREM RoundTripHolds == Spec => []RoundTrip
<1>1. ASSUME IInv, pc = "listed", n < CountModulus PROVE Len(contents) = n
  BY <1>1, Modulus DEF IInv, ReadInv, Received, TypeOK
<1>2. IInv => RoundTrip
  BY <1>1, ListedObject DEF RoundTrip
<1>3. QED
  BY <1>2, Invariance, PTL

(* getObject hands internalize the start of the object that was asked for,   *)
(* and throws at every index that is none, the negative ones included.       *)
THEOREM FetchesObjectHolds == Spec => []FetchesObject
<1>1. ASSUME IInv, got # <<-1, -1>>
      PROVE  \E f \in mem : ObjectField(f, got[1]) /\ f.at = got[2]
  <2>1. /\ pc = "listed" /\ 0 <= got[1] /\ got[1] < Len(contents)
        /\ got[2] = contents[got[1] + 1][2] /\ got[1] \in Int
    BY <1>1 DEF IInv, ReadInv, TypeOK
  <2>2. Len(contents) \in Nat
    BY <1>1 DEF IInv, TypeOK
  <2>3. got[1] + 1 \in 1..Len(contents) /\ (got[1] + 1) - 1 = got[1]
    BY <1>1, <2>1, <2>2
  <2>4. QED
    BY <1>1, <2>1, <2>3, ListedObject
<1>2. IInv => FetchesObject
  BY <1>1 DEF FetchesObject
<1>3. QED
  BY <1>2, Invariance, PTL

=============================================================================
