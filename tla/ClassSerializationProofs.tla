---------------------- MODULE ClassSerializationProofs ----------------------
(***************************************************************************)
(* Proofs about ClassSerialization, for any classes, in any versions, with *)
(* objects inside each other to any depth: the size announced is the size  *)
(* written, and what the receiver accepts it restores.                     *)
(***************************************************************************)
EXTENDS ClassSerialization, WellFoundedInduction, TLAPS

(* Numbers: induction, for a set of them. *)

LEMMA Least ==
  ASSUME NEW S \in SUBSET Nat, S # {}
  PROVE  \E m \in S : \A n \in S : m <= n
<1>1. PICK m \in S : \A n \in S : ~(<<n, m>> \in OpToRel(<, Nat))
  BY WFMin, NatLessThanWellFounded
<1>2. ASSUME NEW n \in S PROVE m <= n
  <2>1. ~(<<n, m>> \in {ss \in Nat \X Nat : ss[1] < ss[2]})
    BY <1>1 DEF OpToRel
  <2>2. <<n, m>> \in Nat \X Nat /\ <<n, m>>[1] = n /\ <<n, m>>[2] = m
    OBVIOUS
  <2>3. ~(<<n, m>>[1] < <<n, m>>[2])
    BY <2>1, <2>2
  <2> QED
    BY <2>2, <2>3
<1> QED
  BY <1>2

LEMMA Induction ==
  ASSUME NEW S, 0 \in S, \A n \in Nat : n \in S => n + 1 \in S
  PROVE  Nat \subseteq S
<1> SUFFICES ASSUME Nat \ S # {} PROVE FALSE
  OBVIOUS
<1>1. PICK m \in Nat \ S : \A n \in Nat \ S : m <= n
  BY Least
<1>2. m # 0 /\ m - 1 \in Nat /\ m - 1 \in S
  BY <1>1
<1> QED
  BY <1>1, <1>2

-----------------------------------------------------------------------------
(* Sequences. *)

LEMMA Joined ==
  ASSUME NEW T, NEW s \in Seq(T), NEW t \in Seq(T)
  PROVE  /\ s \o t \in Seq(T) /\ Len(s \o t) = Len(s) + Len(t)
         /\ \A i \in 1..Len(s) : (s \o t)[i] = s[i]
         /\ \A j \in 1..Len(t) : (s \o t)[Len(s) + j] = t[j]
OBVIOUS

LEMMA Extended ==
  ASSUME NEW T, NEW s \in Seq(T), NEW e \in T
  PROVE  /\ Append(s, e) \in Seq(T)
         /\ Len(Append(s, e)) = Len(s) + 1
         /\ DOMAIN Append(s, e) = 1..(Len(s) + 1)
         /\ \A k \in 1..Len(s) : Append(s, e)[k] = s[k]
         /\ Append(s, e)[Len(s) + 1] = e
OBVIOUS

LEMMA SameElements ==
  ASSUME NEW T, NEW s \in Seq(T), NEW t \in Seq(T), Len(s) = Len(t),
         \A i \in 1..Len(s) : s[i] = t[i]
  PROVE  s = t
OBVIOUS

LEMMA Tabulated ==
  ASSUME NEW T, NEW n \in Nat, NEW f \in [1..n -> T]
  PROVE  f \in Seq(T) /\ Len(f) = n
OBVIOUS

(* A list that grows with n, by e[n] for those n that p picks. *)
Grown(f, p, e, n) ==
  IF n = 0 THEN <<>> ELSE IF p[n] THEN Append(f[n - 1], e[n]) ELSE f[n - 1]

Grows(f, L, p, e) == f = [n \in 0..L |-> Grown(f, p, e, n)]

LEMMA GrownSame ==
  ASSUME NEW f, NEW g, NEW p, NEW e, NEW n \in Nat, n # 0 => f[n - 1] = g[n - 1]
  PROVE  Grown(f, p, e, n) = Grown(g, p, e, n)
BY DEF Grown

LEMMA GrownExists ==
  ASSUME NEW L \in Nat, NEW p, NEW e
  PROVE  \E f : Grows(f, L, p, e)
<1> DEFINE Solved(k) == \E f : f = [n \in 0..k |-> Grown(f, p, e, n)]
<1>1. Solved(0)
  <2>1. PICK g : g = [n \in 0..0 |-> Grown(<<>>, p, e, n)]
    OBVIOUS
  <2>2. \A n \in 0..0 : n \in Nat /\ ~(n # 0)
    OBVIOUS
  <2>3. \A n \in 0..0 : Grown(<<>>, p, e, n) = Grown(g, p, e, n)
    BY <2>2, GrownSame
  <2>4. g = [n \in 0..0 |-> Grown(g, p, e, n)]
    BY <2>1, <2>3
  <2> QED
    BY <2>4
<1>2. ASSUME NEW k \in Nat, Solved(k) PROVE Solved(k + 1)
  <2>1. PICK f : f = [n \in 0..k |-> Grown(f, p, e, n)]
    BY <1>2
  <2>2. PICK g : g = [n \in 0..(k + 1) |-> Grown(f, p, e, n)]
    OBVIOUS
  <2>3. \A n \in 0..k : g[n] = f[n]
    BY <2>1, <2>2
  <2>4. ASSUME NEW n \in 0..(k + 1) PROVE Grown(f, p, e, n) = Grown(g, p, e, n)
    <3>1. n \in Nat /\ (n # 0 => n - 1 \in 0..k)
      OBVIOUS
    <3>2. n # 0 => f[n - 1] = g[n - 1]
      BY <2>3, <3>1
    <3> QED
      BY <3>1, <3>2, GrownSame
  <2>5. g = [n \in 0..(k + 1) |-> Grown(g, p, e, n)]
    BY <2>2, <2>4
  <2> QED
    BY <2>5
<1> DEFINE S == {k \in Nat : Solved(k)}
<1> HIDE DEF Solved
<1>3. 0 \in S /\ \A n \in Nat : n \in S => n + 1 \in S
  BY <1>1, <1>2
<1> HIDE DEF S
<1>4. Nat \subseteq S
  BY <1>3, Induction
<1>5. Solved(L)
  BY <1>4 DEF S
<1> QED
  BY <1>5 DEF Solved, Grows

LEMMA GrownType ==
  ASSUME NEW L \in Nat, NEW p, NEW e, NEW T, \A n \in 1..L : p[n] => e[n] \in T,
         NEW f, Grows(f, L, p, e)
  PROVE  f[L] \in Seq(T)
<1> DEFINE S == {n \in Nat : n <= L => f[n] \in Seq(T)}
<1>1. 0 \in S
  <2>0. 0 \in 0..L
    OBVIOUS
  <2>1. f[0] = Grown(f, p, e, 0)
    BY <2>0 DEF Grows
  <2>2. f[0] = <<>>
    BY <2>1 DEF Grown
  <2>3. f[0] \in Seq(T)
    BY <2>2
  <2> QED
    BY <2>3
<1>2. ASSUME NEW n \in Nat, n \in S PROVE n + 1 \in S
  <2> SUFFICES ASSUME n + 1 <= L PROVE f[n + 1] \in Seq(T)
    OBVIOUS
  <2>1. n + 1 \in 0..L /\ n + 1 \in 1..L /\ n + 1 # 0 /\ (n + 1) - 1 = n
    OBVIOUS
  <2>2. f[n] \in Seq(T)
    BY <1>2, <2>1
  <2>3. f[n + 1] = Grown(f, p, e, n + 1)
    BY <2>1 DEF Grows
  <2>4. f[n + 1] = IF p[n + 1] THEN Append(f[n], e[n + 1]) ELSE f[n]
    BY <2>1, <2>3 DEF Grown
  <2>5. CASE p[n + 1]
    <3>1. e[n + 1] \in T
      BY <2>1, <2>5
    <3>2. PICK l \in Seq(T) : l = f[n]
      BY <2>2
    <3>3. PICK x \in T : x = e[n + 1]
      BY <3>1
    <3>4. Append(l, x) \in Seq(T)
      BY Extended
    <3> QED
      BY <2>4, <2>5, <3>2, <3>3, <3>4
  <2>6. CASE ~p[n + 1]
    BY <2>2, <2>4, <2>6
  <2> QED
    BY <2>5, <2>6
<1> HIDE DEF S
<1>3. Nat \subseteq S
  BY <1>1, <1>2, Induction
<1> QED
  BY <1>3 DEF S

-----------------------------------------------------------------------------
(* What the generator makes of a class. *)

Elements(fields) == {fields[i] : i \in 1..Len(fields)}

LEMMA WithPrivacyType ==
  ASSUME NEW fields \in Seq(Fields), NEW privacy
  PROVE  WithPrivacy(fields, privacy) \in Seq(Elements(fields))
<1> DEFINE L == Len(fields)
           p == [n \in 1..L |-> fields[n].privacy = privacy]
           G(f) == [n \in 0..L |->
                      IF n = 0 THEN <<>>
                      ELSE IF fields[n].privacy = privacy THEN Append(f[n - 1], fields[n])
                      ELSE f[n - 1]]
<1>0. L \in Nat
  OBVIOUS
<1>1. WithPrivacy(fields, privacy) = (CHOOSE f : f = G(f))[L]
  BY DEF WithPrivacy
<1>2. ASSUME NEW f PROVE f = G(f) <=> Grows(f, L, p, fields)
  <2>1. ASSUME NEW n \in 0..L, n # 0
        PROVE  p[n] = (fields[n].privacy = privacy)
    <3>1. n \in 1..L
      BY <1>0, <2>1
    <3> QED
      BY <3>1
  <2> HIDE DEF p, L
  <2> QED
    BY <2>1 DEF Grown, Grows
<1> HIDE DEF G
<1>3. \A n \in 1..L : p[n] => fields[n] \in Elements(fields)
  BY DEF Elements
<1> HIDE DEF p, L
<1>4. PICK f : Grows(f, L, p, fields)
  BY <1>0, GrownExists
<1>5. \E g : g = G(g)
  BY <1>2, <1>4
<1>6. PICK g : g = G(g) /\ g = (CHOOSE h : h = G(h))
  BY <1>5
<1>7. Grows(g, L, p, fields)
  BY <1>2, <1>6
<1>8. g[L] \in Seq(Elements(fields))
  BY <1>0, <1>3, <1>7, GrownType
<1> QED
  BY <1>1, <1>6, <1>8

LEMMA MembersType ==
  ASSUME NEW fields \in Seq(Fields)
  PROVE  /\ Members(fields) \in Seq(Fields)
         /\ \A i \in DOMAIN Members(fields) :
              \E j \in DOMAIN fields : Members(fields)[i] = fields[j]
<1>1. Members(fields) \in Seq(Elements(fields))
  BY WithPrivacyType, Joined DEF Members
<1>2. \A x \in Elements(fields) : x \in Fields /\ \E j \in DOMAIN fields : x = fields[j]
  BY DEF Elements
<1> HIDE DEF Members
<1> DEFINE m == Members(fields)
<1> HIDE DEF m
<1>3. m \in Seq(Elements(fields))
  BY <1>1 DEF m
<1>4. m \in Seq(Fields) /\ \A i \in DOMAIN m : m[i] \in Elements(fields)
  BY <1>2, <1>3
<1> QED
  BY <1>2, <1>4 DEF m

LEMMA IncludesType ==
  ASSUME NEW fields \in Seq(Fields)
  PROVE  Includes(fields) \in Seq(ClassNames)
<1> DEFINE L == Len(fields)
           isFirst(n) == \A j \in 1..(n - 1) : fields[j].type # fields[n].type
           p == [n \in 1..L |-> fields[n].type \in ClassNames /\ isFirst(n)]
           e == [n \in 1..L |-> fields[n].type]
           G(f) == [n \in 0..L |->
                      IF n = 0 THEN <<>>
                      ELSE IF fields[n].type \in ClassNames /\ isFirst(n)
                      THEN Append(f[n - 1], fields[n].type)
                      ELSE f[n - 1]]
<1>0. L \in Nat
  OBVIOUS
<1>1. Includes(fields) = (CHOOSE f : f = G(f))[L]
  BY DEF Includes
<1> HIDE DEF isFirst
<1>2. ASSUME NEW f PROVE f = G(f) <=> Grows(f, L, p, e)
  <2>1. ASSUME NEW n \in 0..L, n # 0
        PROVE  /\ p[n] = (fields[n].type \in ClassNames /\ isFirst(n))
               /\ e[n] = fields[n].type
    <3>1. n \in 1..L
      BY <1>0, <2>1
    <3> QED
      BY <3>1
  <2> HIDE DEF p, e, L
  <2> QED
    BY <2>1 DEF Grown, Grows
<1> HIDE DEF G
<1>3. \A n \in 1..L : p[n] => e[n] \in ClassNames
  OBVIOUS
<1> HIDE DEF p, e, L
<1>4. PICK f : Grows(f, L, p, e)
  BY <1>0, GrownExists
<1>5. \E g : g = G(g)
  BY <1>2, <1>4
<1>6. PICK g : g = G(g) /\ g = (CHOOSE h : h = G(h))
  BY <1>5
<1>7. Grows(g, L, p, e)
  BY <1>2, <1>6
<1>8. g[L] \in Seq(ClassNames)
  BY <1>0, <1>3, <1>7, GrownType
<1> QED
  BY <1>1, <1>6, <1>8

-----------------------------------------------------------------------------
(* The text that is hashed tells the members and their order. *)

Letters ==
  {Char("/** CodeRoller generated class. Generated on "), Char(" * Class hash: "),
   Char("endl"), Char("0"), Char(" "), Char("*"), Char("/"), Char("#ifndef"),
   Char("#define __CR_HASH_"), Char(" 0x"), Char("#endif")}
Pieces ==
  ClassNames \union Fields \union Letters \union UNION {ToSet(time) : time \in Times}

LEMMA Literals ==
  ASSUME NEW T, NEW a \in T, NEW b \in T, NEW c \in T
  PROVE  /\ <<>> \in Seq(T) /\ Len(<<>>) = 0
         /\ <<a>> \in Seq(T) /\ Len(<<a>>) = 1
         /\ <<a, b>> \in Seq(T) /\ Len(<<a, b>>) = 2
         /\ <<a, b, c>> \in Seq(T) /\ Len(<<a, b, c>>) = 3
OBVIOUS

LEMMA Letter ==
  /\ Char("/** CodeRoller generated class. Generated on ") \in Pieces
  /\ Char(" * Class hash: ") \in Pieces
  /\ Char("endl") \in Pieces /\ Char("0") \in Pieces /\ Char(" ") \in Pieces
  /\ Char("*") \in Pieces /\ Char("/") \in Pieces /\ Char("#ifndef") \in Pieces
  /\ Char("#define __CR_HASH_") \in Pieces /\ Char(" 0x") \in Pieces
  /\ Char("#endif") \in Pieces
BY DEF Letters, Pieces

(* The text s has n pieces; the text u begins with the n pieces of s, and    *)
(* goes on behind n pieces with the m pieces of t.                           *)
Text(s, n) == s \in Seq(Pieces) /\ Len(s) = n
Begins(u, s, n) == \A i \in 1..n : u[i] = s[i]
GoesOn(u, n, t, m) == \A j \in 1..m : u[n + j] = t[j]

LEMMA JoinedText ==
  ASSUME NEW s, NEW t, NEW n \in Nat, NEW m \in Nat, Text(s, n), Text(t, m)
  PROVE  Text(s \o t, n + m) /\ Begins(s \o t, s, n) /\ GoesOn(s \o t, n, t, m)
<1>1. s \in Seq(Pieces) /\ t \in Seq(Pieces) /\ Len(s) = n /\ Len(t) = m
  BY DEF Text
<1>2. PICK u \in Seq(Pieces), v \in Seq(Pieces) : u = s /\ v = t
  BY <1>1
<1>3. /\ u \o v \in Seq(Pieces) /\ Len(u \o v) = Len(u) + Len(v)
      /\ \A i \in 1..Len(u) : (u \o v)[i] = u[i]
      /\ \A j \in 1..Len(v) : (u \o v)[Len(u) + j] = v[j]
  BY Joined
<1>4. Len(u) = n /\ Len(v) = m
  BY <1>1, <1>2
<1>5. /\ u \o v \in Seq(Pieces) /\ Len(u \o v) = n + m
      /\ \A i \in 1..n : (u \o v)[i] = u[i]
      /\ \A j \in 1..m : (u \o v)[n + j] = v[j]
  BY <1>3, <1>4
<1>6. Text(u \o v, n + m) /\ Begins(u \o v, u, n) /\ GoesOn(u \o v, n, v, m)
  BY <1>5 DEF Text, Begins, GoesOn
<1> QED
  BY <1>2, <1>6

LEMMA JoinedTo ==
  ASSUME NEW s, NEW t, NEW n \in Nat, NEW m \in Nat, NEW l \in Nat, n + m = l,
         Text(s, n), Text(t, m)
  PROVE  Text(s \o t, l)
BY JoinedText

LEMMA FixedTexts ==
  ASSUME NEW name \in ClassNames
  PROVE  /\ Text(EndLine, 1) /\ Text(Zeros, 8)
         /\ Text(Comment(<<>>) \o CommentEnd, 16) /\ Len(Comment(<<>>)) = 11
         /\ Text(<<Char("#ifndef"), name>>, 2)
         /\ Text(<<Char("#define __CR_HASH_"), name, Char(" 0x")>>, 3)
         /\ Text(<<name>>, 1) /\ Text(<<Char("#endif")>>, 1)
<1>1. name \in Pieces
  BY DEF Pieces
<1>2. /\ Text(<<Char("#ifndef"), name>>, 2)
      /\ Text(<<Char("#define __CR_HASH_"), name, Char(" 0x")>>, 3)
      /\ Text(<<name>>, 1) /\ Text(<<Char("#endif")>>, 1)
  BY <1>1, Letter, Literals DEF Text
<1>3. Text(EndLine, 1)
  BY Letter, Literals DEF Text, EndLine
<1>4. Text(Zeros, 8)
  <2>1. Zeros \in [1..8 -> Pieces]
    BY Letter DEF Zeros
  <2> QED
    BY <2>1, Tabulated DEF Text
<1>5. Text(CommentEnd, 5)
  <2> DEFINE s == <<Char(" "), Char("*"), Char("/")>>
  <2>1. Text(s, 3)
    BY Letter, Literals DEF Text
  <2> HIDE DEF s
  <2>2. Text(EndLine \o s, 4)
    BY <1>3, <2>1, JoinedTo
  <2>3. Text((EndLine \o s) \o EndLine, 5)
    BY <1>3, <2>2, JoinedText
  <2> QED
    BY <2>3 DEF CommentEnd, s
<1>6. Text(Comment(<<>>), 11)
  <2> DEFINE s == <<Char("/** CodeRoller generated class. Generated on ")>>
             h == <<Char(" * Class hash: ")>>
             e == <<>>
  <2>1. Text(s, 1) /\ Text(h, 1) /\ Text(e, 0)
    BY Letter, Literals DEF Text
  <2> HIDE DEF s, h, e
  <2>2. Text(s \o e, 1)
    BY <2>1, JoinedTo
  <2>3. Text((s \o e) \o EndLine, 2)
    BY <1>3, <2>2, JoinedText
  <2>4. Text(((s \o e) \o EndLine) \o h, 3)
    BY <2>1, <2>3, JoinedTo
  <2>5. Text((((s \o e) \o EndLine) \o h) \o Zeros, 11)
    BY <1>4, <2>4, JoinedText
  <2> QED
    BY <2>5 DEF Comment, s, h, e
<1>7. Text(Comment(<<>>) \o CommentEnd, 16)
  BY <1>5, <1>6, JoinedTo
<1> QED
  BY <1>2, <1>3, <1>4, <1>6, <1>7 DEF Text

(* Where the includes and the declarations are in the text of a header. *)
Arranged(text, included, n, body, m) ==
  /\ Text(text, 36 + n + m)
  /\ GoesOn(text, 20, included, n) /\ text[21 + n] = EndLine[1]
  /\ GoesOn(text, 34 + n, body, m)

LEMMA HeaderParts ==
  ASSUME NEW name \in ClassNames, NEW included, NEW n \in Nat, Text(included, n),
         NEW body, NEW m \in Nat, Text(body, m),
         NEW text, text = Header(<<>>, name, included, body)
  PROVE  Arranged(text, included, n, body, m)
<1> DEFINE s2 == <<Char("#ifndef"), name>>
           s3 == <<Char("#define __CR_HASH_"), name, Char(" 0x")>>
           s1 == <<name>>
           se == <<Char("#endif")>>
           t1 == Comment(<<>>) \o CommentEnd
           t2 == t1 \o EndLine
           t3 == t2 \o s2
           t4 == t3 \o EndLine
           t5 == t4 \o included
           t6 == t5 \o EndLine
           t7 == t6 \o s3
           t8 == t7 \o Zeros
           t9 == t8 \o EndLine
           t10 == t9 \o s1
           t11 == t10 \o body
           t12 == t11 \o se
           t13 == t12 \o EndLine
<1>1. text = t13
  BY DEF Header, ToHashDef
<1>3. Text(s2, 2) /\ Text(s3, 3) /\ Text(s1, 1) /\ Text(se, 1)
  BY FixedTexts
<1>e. Text(EndLine, 1) /\ Text(Zeros, 8)
  BY FixedTexts
<1> HIDE DEF s1, s2, s3, se
<1>4. Text(t1, 16)
  BY FixedTexts
<1> HIDE DEF t1
<1>5. Text(t2, 17)
  BY <1>4, <1>e, JoinedTo
<1> HIDE DEF t2
<1>6. Text(t3, 19)
  BY <1>3, <1>5, JoinedTo
<1> HIDE DEF t3
<1>7. Text(t4, 20)
  BY <1>6, <1>e, JoinedTo
<1> HIDE DEF t4
<1>8. Text(t5, 20 + n) /\ GoesOn(t5, 20, included, n)
  <2>1. PICK a \in Nat : a = 20
    OBVIOUS
  <2>a. Text(t4, a)
    BY <1>7, <2>1
  <2>2. Text(t5, a + n) /\ GoesOn(t5, a, included, n)
    BY <2>a, JoinedText
  <2> QED
    BY <2>1, <2>2
<1> HIDE DEF t5
<1>9. /\ Text(t6, 21 + n) /\ t6[21 + n] = EndLine[1]
      /\ Begins(t6, t5, 20 + n)
  <2>1. PICK a \in Nat : a = 20 + n
    OBVIOUS
  <2>a. Text(t5, a)
    BY <1>8, <2>1
  <2>2. /\ Text(t6, a + 1)
        /\ Begins(t6, t5, a)
        /\ GoesOn(t6, a, EndLine, 1)
    BY <1>e, <2>a, JoinedText
  <2>3. a + 1 = 21 + n /\ 1 \in 1..1
    BY <2>1
  <2>4. t6[a + 1] = EndLine[1]
    BY <2>2, <2>3 DEF GoesOn
  <2> QED
    BY <2>1, <2>2, <2>3, <2>4
<1> HIDE DEF t6
<1>10. Text(t7, 24 + n) /\ Begins(t7, t6, 21 + n)
  <2>1. PICK a \in Nat : a = 21 + n
    OBVIOUS
  <2>a. Text(t6, a)
    BY <1>9, <2>1
  <2>2. Text(t7, a + 3) /\ Begins(t7, t6, a)
    BY <1>3, <2>a, JoinedText
  <2>3. a + 3 = 24 + n
    BY <2>1
  <2> QED
    BY <2>1, <2>2, <2>3
<1> HIDE DEF t7
<1>11. Text(t8, 32 + n) /\ Begins(t8, t7, 24 + n)
  <2>1. PICK a \in Nat : a = 24 + n
    OBVIOUS
  <2>a. Text(t7, a)
    BY <1>10, <2>1
  <2>2. Text(t8, a + 8) /\ Begins(t8, t7, a)
    BY <1>e, <2>a, JoinedText
  <2>3. a + 8 = 32 + n
    BY <2>1
  <2> QED
    BY <2>1, <2>2, <2>3
<1> HIDE DEF t8
<1>12. Text(t9, 33 + n) /\ Begins(t9, t8, 32 + n)
  <2>1. PICK a \in Nat : a = 32 + n
    OBVIOUS
  <2>a. Text(t8, a)
    BY <1>11, <2>1
  <2>2. Text(t9, a + 1) /\ Begins(t9, t8, a)
    BY <1>e, <2>a, JoinedText
  <2>3. a + 1 = 33 + n
    BY <2>1
  <2> QED
    BY <2>1, <2>2, <2>3
<1> HIDE DEF t9
<1>13. Text(t10, 34 + n) /\ Begins(t10, t9, 33 + n)
  <2>1. PICK a \in Nat : a = 33 + n
    OBVIOUS
  <2>a. Text(t9, a)
    BY <1>12, <2>1
  <2>2. Text(t10, a + 1) /\ Begins(t10, t9, a)
    BY <1>3, <2>a, JoinedText
  <2>3. a + 1 = 34 + n
    BY <2>1
  <2> QED
    BY <2>1, <2>2, <2>3
<1> HIDE DEF t10
<1>14. /\ Text(t11, 34 + n + m)
       /\ Begins(t11, t10, 34 + n)
       /\ GoesOn(t11, 34 + n, body, m)
  <2>1. PICK a \in Nat : a = 34 + n
    OBVIOUS
  <2>a. Text(t10, a)
    BY <1>13, <2>1
  <2>2. /\ Text(t11, a + m) /\ Begins(t11, t10, a)
        /\ GoesOn(t11, a, body, m)
    BY <2>a, JoinedText
  <2> QED
    BY <2>1, <2>2
<1> HIDE DEF t11
<1>15. Text(t12, 35 + n + m) /\ Begins(t12, t11, 34 + n + m)
  <2>1. PICK a \in Nat : a = 34 + n + m
    OBVIOUS
  <2>a. Text(t11, a)
    BY <1>14, <2>1
  <2>2. Text(t12, a + 1) /\ Begins(t12, t11, a)
    BY <1>3, <2>a, JoinedText
  <2>3. a + 1 = 35 + n + m
    BY <2>1
  <2> QED
    BY <2>1, <2>2, <2>3
<1> HIDE DEF t12
<1>16. Text(t13, 36 + n + m) /\ Begins(t13, t12, 35 + n + m)
  <2>1. PICK a \in Nat : a = 35 + n + m
    OBVIOUS
  <2>a. Text(t12, a)
    BY <1>15, <2>1
  <2>2. Text(t13, a + 1) /\ Begins(t13, t12, a)
    BY <1>e, <2>a, JoinedText
  <2>3. a + 1 = 36 + n + m
    BY <2>1
  <2> QED
    BY <2>1, <2>2, <2>3
<1> HIDE DEF t13
<1>17. Begins(t13, t6, 21 + n)
  BY <1>10, <1>11, <1>12, <1>13, <1>14, <1>15, <1>16 DEF Begins
<1>18. GoesOn(t13, 20, included, n)
  <2>1. \A i \in 1..n : 20 + i \in 1..(21 + n) /\ 20 + i \in 1..(20 + n)
    OBVIOUS
  <2> QED
    BY <1>8, <1>9, <1>17, <2>1 DEF Begins, GoesOn
<1>19. t13[21 + n] = EndLine[1]
  <2>1. 21 + n \in 1..(21 + n)
    OBVIOUS
  <2> QED
    BY <1>9, <1>17, <2>1 DEF Begins
<1>20. GoesOn(t13, 34 + n, body, m)
  <2>1. \A j \in 1..m : /\ (34 + n) + j \in 1..(34 + n + m)
                         /\ (34 + n) + j \in 1..(35 + n + m)
    OBVIOUS
  <2> QED
    BY <1>14, <1>15, <1>16, <2>1 DEF Begins, GoesOn
<1> QED
  BY <1>1, <1>16, <1>18, <1>19, <1>20 DEF Arranged

LEMMA SameRest ==
  ASSUME NEW T, NEW s \in Seq(T), NEW t \in Seq(T), Len(s) >= 17, Len(t) >= 17,
         SubSeq(s, 17, Len(s)) = SubSeq(t, 17, Len(t))
  PROVE  Len(s) = Len(t) /\ \A i \in 17..Len(s) : s[i] = t[i]
<1> DEFINE u == SubSeq(s, 17, Len(s))
           v == SubSeq(t, 17, Len(t))
<1>1. Len(u) = Len(s) - 16 /\ \A k \in 1..(Len(s) - 16) : u[k] = s[k + 16]
  OBVIOUS
<1>2. Len(v) = Len(t) - 16 /\ \A k \in 1..(Len(t) - 16) : v[k] = t[k + 16]
  OBVIOUS
<1>3. u = v
  OBVIOUS
<1>4. Len(s) \in Nat /\ Len(t) \in Nat
  OBVIOUS
<1> HIDE DEF u, v
<1>5. Len(s) = Len(t)
  BY <1>1, <1>2, <1>3, <1>4
<1>6. ASSUME NEW i \in 17..Len(s) PROVE s[i] = t[i]
  <2>1. i - 16 \in 1..(Len(s) - 16) /\ (i - 16) + 16 = i
    BY <1>4
  <2> QED
    BY <1>1, <1>2, <1>3, <1>5, <2>1
<1> QED
  BY <1>5, <1>6

(* Of two versions of a class with one hash the generated functions walk     *)
(* over the same members: the includes end before what is no class, so that  *)
(* there are equally many, and behind them the declarations are the same.    *)
LEMMA HashDetermines ==
  ASSUME NEW old \in Packages, NEW new \in Packages, NEW c \in ClassNames,
         ClassHash(old, c) = ClassHash(new, c)
  PROVE  Members(old[c]) = Members(new[c])
<1>1. old[c] \in Seq(Fields) /\ new[c] \in Seq(Fields)
  BY PackagesAssumption
<1>2. PICK inc1 : inc1 = Includes(old[c])
  OBVIOUS
<1>3. PICK inc2 : inc2 = Includes(new[c])
  OBVIOUS
<1>4. PICK body1 : body1 = Members(old[c])
  OBVIOUS
<1>5. PICK body2 : body2 = Members(new[c])
  OBVIOUS
<1>6. /\ inc1 \in Seq(ClassNames) /\ inc2 \in Seq(ClassNames)
      /\ body1 \in Seq(Fields) /\ body2 \in Seq(Fields)
  BY <1>1, <1>2, <1>3, <1>4, <1>5, IncludesType, MembersType
<1>7. PICK n1 \in Nat, n2 \in Nat, m1 \in Nat, m2 \in Nat :
        /\ n1 = Len(inc1) /\ n2 = Len(inc2) /\ m1 = Len(body1) /\ m2 = Len(body2)
  BY <1>6
<1>8. Text(inc1, n1) /\ Text(inc2, n2) /\ Text(body1, m1) /\ Text(body2, m2)
  BY <1>6, <1>7 DEF Text, Pieces
<1>9. PICK t1, t2 : t1 = Header(<<>>, c, inc1, body1) /\ t2 = Header(<<>>, c, inc2, body2)
  OBVIOUS
<1>10. /\ Text(t1, 36 + n1 + m1) /\ t1[21 + n1] = EndLine[1]
       /\ GoesOn(t1, 20, inc1, n1) /\ GoesOn(t1, 34 + n1, body1, m1)
  <2>1. Arranged(t1, inc1, n1, body1, m1)
    BY <1>8, <1>9, HeaderParts
  <2> QED
    BY <2>1 DEF Arranged
<1>11. /\ Text(t2, 36 + n2 + m2) /\ t2[21 + n2] = EndLine[1]
       /\ GoesOn(t2, 20, inc2, n2) /\ GoesOn(t2, 34 + n2, body2, m2)
  <2>1. Arranged(t2, inc2, n2, body2, m2)
    BY <1>8, <1>9, HeaderParts
  <2> QED
    BY <2>1 DEF Arranged
<1>12. SubSeq(t1, 17, Len(t1)) = SubSeq(t2, 17, Len(t2))
  <2>1. BeforeZeros(Comment(<<>>)) + PlaceBytes + 1 = 17
    <3>0. Len(Comment(<<>>)) = 11
      BY FixedTexts
    <3>1. PICK a \in Nat : a = Len(Comment(<<>>)) /\ a = 11
      BY <3>0
    <3>2. a - 8 = 3 /\ 3 + 13 + 1 = 17
      BY <3>1
    <3> QED
      BY <3>1, <3>2 DEF BeforeZeros, PlaceBytes
  <2>2. /\ ClassHash(old, c) = SubSeq(t1, 17, Len(t1))
        /\ ClassHash(new, c) = SubSeq(t2, 17, Len(t2))
    BY <1>2, <1>3, <1>4, <1>5, <1>9, <2>1 DEF ClassHash, HashedText, Declarations
  <2> QED
    BY <2>2
<1>13. /\ 36 + n1 + m1 = 36 + n2 + m2
       /\ \A i \in 17..(36 + n1 + m1) : t1[i] = t2[i]
  <2>1. /\ t1 \in Seq(Pieces) /\ t2 \in Seq(Pieces)
        /\ Len(t1) = 36 + n1 + m1 /\ Len(t2) = 36 + n2 + m2
    BY <1>10, <1>11 DEF Text
  <2>2. Len(t1) >= 17 /\ Len(t2) >= 17
    BY <2>1
  <2> QED
    BY <1>12, <2>1, <2>2, SameRest
<1>14. \A i \in 1..n1 : inc1[i] # EndLine[1]
  BY <1>6, <1>7, PackagesAssumption
<1>15. \A i \in 1..n2 : inc2[i] # EndLine[1]
  BY <1>6, <1>7, PackagesAssumption
<1>16. ~(n1 < n2)
  <2> SUFFICES ASSUME n1 < n2 PROVE FALSE
    OBVIOUS
  <2>1. /\ n1 + 1 \in 1..n2 /\ 20 + (n1 + 1) = 21 + n1
        /\ 21 + n1 \in 17..(36 + n1 + m1)
    OBVIOUS
  <2> QED
    BY <1>10, <1>11, <1>13, <1>15, <2>1 DEF GoesOn
<1>17. ~(n2 < n1)
  <2> SUFFICES ASSUME n2 < n1 PROVE FALSE
    OBVIOUS
  <2>1. /\ n2 + 1 \in 1..n1 /\ 20 + (n2 + 1) = 21 + n2
        /\ 21 + n2 \in 17..(36 + n1 + m1)
    OBVIOUS
  <2> QED
    BY <1>10, <1>11, <1>13, <1>14, <2>1 DEF GoesOn
<1>18. n1 = n2 /\ m1 = m2
  BY <1>13, <1>16, <1>17
<1>19. ASSUME NEW j \in 1..m1 PROVE body1[j] = body2[j]
  <2>1. (34 + n1) + j \in 17..(36 + n1 + m1)
    OBVIOUS
  <2> QED
    BY <1>10, <1>11, <1>13, <1>18, <2>1 DEF GoesOn
<1>20. body1 = body2
  BY <1>6, <1>7, <1>18, <1>19, SameElements
<1> QED
  BY <1>4, <1>5, <1>20

-----------------------------------------------------------------------------
(* Where the header shows the hash. *)

(* The positions of a text at which a label is. *)
Where(s, label) == {i \in DOMAIN s : s[i] = label}
Unlabelled(s) == Where(s, Char(" * Class hash: ")) = {} /\ Where(s, Char(" 0x")) = {}

LEMMA TextDomain ==
  ASSUME NEW s, NEW n \in Nat, Text(s, n)
  PROVE  DOMAIN s = 1..n /\ Len(s) = n
BY DEF Text

LEMMA Regrouped ==
  ASSUME NEW s, NEW t, NEW u, NEW n \in Nat, NEW m \in Nat, NEW l \in Nat,
         Text(s, n), Text(t, m), Text(u, l)
  PROVE  (s \o t) \o u = s \o (t \o u)
<1>1. PICK a \in Seq(Pieces), b \in Seq(Pieces), c \in Seq(Pieces) :
        a = s /\ b = t /\ c = u
  BY DEF Text
<1>2. (a \o b) \o c = a \o (b \o c)
  OBVIOUS
<1> QED
  BY <1>1, <1>2

LEMMA JoinedWhere ==
  ASSUME NEW s, NEW t, NEW n \in Nat, NEW m \in Nat, Text(s, n), Text(t, m),
         NEW label
  PROVE  /\ Where(t, label) \subseteq 1..m
         /\ Where(s \o t, label) =
              Where(s, label) \union {n + j : j \in Where(t, label)}
<1> DEFINE u == s \o t
<1>1. Text(u, n + m) /\ Begins(u, s, n) /\ GoesOn(u, n, t, m)
  BY JoinedText
<1>2. DOMAIN u = 1..(n + m) /\ DOMAIN s = 1..n /\ DOMAIN t = 1..m
  BY <1>1, TextDomain
<1> HIDE DEF u
<1>3. ASSUME NEW i \in Where(u, label)
      PROVE  i \in Where(s, label) \union {n + j : j \in Where(t, label)}
  <2>1. i \in 1..(n + m) /\ u[i] = label
    BY <1>2 DEF Where
  <2>2. CASE i <= n
    <3>1. i \in 1..n
      BY <2>1, <2>2
    <3> QED
      BY <1>1, <1>2, <2>1, <3>1 DEF Begins, Where
  <2>3. CASE i > n
    <3>1. i - n \in 1..m /\ n + (i - n) = i
      BY <2>1, <2>3
    <3>2. i - n \in Where(t, label)
      BY <1>1, <1>2, <2>1, <3>1 DEF GoesOn, Where
    <3> QED
      BY <3>1, <3>2
  <2> QED
    BY <2>1, <2>2, <2>3
<1>4. ASSUME NEW i \in Where(s, label) PROVE i \in Where(u, label)
  <2>1. i \in 1..n /\ i \in 1..(n + m)
    BY <1>2 DEF Where
  <2> QED
    BY <1>1, <1>2, <2>1 DEF Begins, Where
<1>5. ASSUME NEW j \in Where(t, label) PROVE n + j \in Where(u, label)
  <2>1. j \in 1..m /\ n + j \in 1..(n + m)
    BY <1>2 DEF Where
  <2> QED
    BY <1>1, <1>2, <2>1 DEF GoesOn, Where
<1>6. Where(t, label) \subseteq 1..m
  BY <1>2 DEF Where
<1>7. Where(u, label) = Where(s, label) \union {n + j : j \in Where(t, label)}
  BY <1>3, <1>4, <1>5
<1> QED
  BY <1>6, <1>7 DEF u

(* A text of n pieces that are no labels. *)
Plain(s, n) == Text(s, n) /\ Unlabelled(s)

LEMMA AddedPlain ==
  ASSUME NEW s, NEW t, NEW n \in Nat, NEW m \in Nat, Text(s, n), Plain(t, m)
  PROVE  /\ Where(s \o t, Char(" * Class hash: ")) = Where(s, Char(" * Class hash: "))
         /\ Where(s \o t, Char(" 0x")) = Where(s, Char(" 0x"))
<1>1. ASSUME NEW label, Where(t, label) = {}
      PROVE  Where(s \o t, label) = Where(s, label)
  <2>1. Where(s \o t, label) = Where(s, label) \union {n + j : j \in Where(t, label)}
    BY JoinedWhere DEF Plain
  <2> QED
    BY <1>1, <2>1
<1> QED
  BY <1>1 DEF Plain, Unlabelled

(* A label is at one position, or at none. *)
OnlyAt(s, label, i) == Where(s, label) = {i}
Nowhere(s, label) == Where(s, label) = {}

LEMMA LabelAdded ==
  ASSUME NEW s, NEW t, NEW n \in Nat, NEW m \in Nat, Text(s, n), Text(t, m),
         NEW label, Nowhere(s, label), NEW i \in Nat, NEW l \in Nat, n + i = l,
         OnlyAt(t, label, i)
  PROVE  OnlyAt(s \o t, label, l)
BY JoinedWhere DEF OnlyAt, Nowhere

LEMMA NoLabelAdded ==
  ASSUME NEW s, NEW t, NEW n \in Nat, NEW m \in Nat, Text(s, n), Text(t, m),
         NEW label, Nowhere(s, label), Nowhere(t, label)
  PROVE  Nowhere(s \o t, label)
BY JoinedWhere DEF Nowhere

LEMMA PlainJoined ==
  ASSUME NEW s, NEW t, NEW n \in Nat, NEW m \in Nat, NEW l \in Nat, n + m = l,
         Plain(s, n), Plain(t, m)
  PROVE  Plain(s \o t, l)
<1>1. Text(s \o t, l)
  BY JoinedTo DEF Plain
<1>2. Unlabelled(s \o t)
  BY AddedPlain DEF Plain, Unlabelled
<1> QED
  BY <1>1, <1>2 DEF Plain

LEMMA PlainAdded ==
  ASSUME NEW c, NEW k \in Nat, Text(c, k),
         NEW s, NEW t, NEW n \in Nat, NEW m \in Nat, NEW l \in Nat, n + m = l,
         Plain(s, n), Plain(t, m)
  PROVE  Plain(s \o t, l) /\ (c \o s) \o t = c \o (s \o t)
<1>1. Text(s, n) /\ Text(t, m)
  BY DEF Plain
<1>2. (c \o s) \o t = c \o (s \o t)
  BY <1>1, Regrouped, SMTT(30)
<1>3. Plain(s \o t, l)
  BY PlainJoined
<1> QED
  BY <1>2, <1>3

(* Of letters, class names and members: which of them are labels. *)
LEMMA LabelsApart ==
  /\ Char("/** CodeRoller generated class. Generated on ") \notin Labels
  /\ Char("endl") \notin Labels /\ Char("0") \notin Labels /\ Char(" ") \notin Labels
  /\ Char("*") \notin Labels /\ Char("/") \notin Labels
  /\ Char("#ifndef") \notin Labels /\ Char("#define __CR_HASH_") \notin Labels
  /\ Char("#endif") \notin Labels
  /\ Char(" * Class hash: ") # Char(" 0x")
  /\ \A digit \in HexDigits : Char(digit) \notin Labels
<1>1. \A c, d : Char(c) = Char(d) => c = d
  <2> SUFFICES ASSUME NEW c, NEW d, Char(c) = Char(d) PROVE c = d
    OBVIOUS
  <2>1. Char(c).char = c /\ Char(d).char = d
    BY DEF Char
  <2> QED
    BY <2>1
<1>2. \A c : c # " * Class hash: " /\ c # " 0x" => Char(c) \notin Labels
  BY <1>1 DEF Labels
<1>3. \A digit \in HexDigits : digit # " * Class hash: " /\ digit # " 0x"
  BY DEF HexDigits
<1> QED
  BY <1>1, <1>2, <1>3

LEMMA FieldsApart ==
  ASSUME NEW f \in Fields
  PROVE  f \notin Labels
<1>1. DOMAIN f = {"name", "privacy", "type"}
  BY DEF Fields
<1>2. \A c : DOMAIN Char(c) = {"char"}
  BY DEF Char
<1>3. "name" # "char"
  OBVIOUS
<1>4. \A c : f # Char(c)
  BY <1>1, <1>2, <1>3
<1> QED
  BY <1>4 DEF Labels

LEMMA UnlabelledIf ==
  ASSUME NEW s, \A i \in DOMAIN s : s[i] \notin Labels
  PROVE  Unlabelled(s)
BY DEF Unlabelled, Where, Labels

LEMMA PlainTuples ==
  ASSUME NEW a \in Pieces \ Labels, NEW b \in Pieces \ Labels, NEW c \in Pieces \ Labels
  PROVE  Plain(<<a>>, 1) /\ Plain(<<a, b>>, 2) /\ Plain(<<a, b, c>>, 3)
<1>1. Text(<<a>>, 1) /\ Text(<<a, b>>, 2) /\ Text(<<a, b, c>>, 3)
  BY Literals DEF Text
<1>2. /\ \A i \in DOMAIN <<a>> : <<a>>[i] \notin Labels
      /\ \A i \in DOMAIN <<a, b>> : <<a, b>>[i] \notin Labels
      /\ \A i \in DOMAIN <<a, b, c>> : <<a, b, c>>[i] \notin Labels
  OBVIOUS
<1> QED
  BY <1>1, <1>2, UnlabelledIf DEF Plain

LEMMA PlainTexts ==
  /\ Plain(EndLine, 1) /\ Plain(Zeros, 8) /\ Plain(CommentEnd, 5)
  /\ Plain(<<Char("/** CodeRoller generated class. Generated on ")>>, 1)
  /\ Plain(<<Char("#endif")>>, 1)
<1>1. /\ Char("/** CodeRoller generated class. Generated on ") \in Pieces \ Labels
      /\ Char("#endif") \in Pieces \ Labels /\ Char("endl") \in Pieces \ Labels
      /\ Char(" ") \in Pieces \ Labels /\ Char("*") \in Pieces \ Labels
      /\ Char("/") \in Pieces \ Labels /\ Char("0") \in Pieces \ Labels
  BY Letter, LabelsApart
<1>2. /\ Plain(<<Char("/** CodeRoller generated class. Generated on ")>>, 1)
      /\ Plain(<<Char("#endif")>>, 1) /\ Plain(<<Char("endl")>>, 1)
      /\ Plain(<<Char(" "), Char("*"), Char("/")>>, 3)
  BY <1>1, PlainTuples
<1>3. Plain(EndLine, 1)
  BY <1>2 DEF EndLine
<1>4. Plain(Zeros, 8)
  <2>1. Zeros \in [1..8 -> Pieces]
    BY Letter DEF Zeros
  <2>2. Text(Zeros, 8)
    BY <2>1, Tabulated DEF Text
  <2>3. \A i \in DOMAIN Zeros : Zeros[i] \notin Labels
    BY <1>1 DEF Zeros
  <2> QED
    BY <2>2, <2>3, UnlabelledIf DEF Plain
<1>5. Plain(CommentEnd, 5)
  <2> DEFINE e == <<Char(" "), Char("*"), Char("/")>>
  <2>1. Plain(e, 3)
    BY <1>2
  <2> HIDE DEF e
  <2>2. Plain(EndLine \o e, 4)
    BY <1>3, <2>1, PlainJoined
  <2>3. Plain((EndLine \o e) \o EndLine, 5)
    BY <1>3, <2>2, PlainJoined
  <2> QED
    BY <2>3 DEF CommentEnd, e
<1> QED
  BY <1>2, <1>3, <1>4, <1>5

(* The comment, and what stands between it and the hash behind " 0x". *)
LEMMA CommentParts ==
  ASSUME NEW time, time = <<>> \/ time \in Times, NEW k \in Nat, k = Len(time)
  PROVE  /\ Text(Comment(time), k + 11)
         /\ Where(Comment(time), Char(" * Class hash: ")) = {k + 3}
         /\ Where(Comment(time), Char(" 0x")) = {}
         /\ GoesOn(Comment(time), k + 3, Zeros, 8)
<1> DEFINE s == <<Char("/** CodeRoller generated class. Generated on ")>>
           h == <<Char(" * Class hash: ")>>
           t1 == s \o time
           t2 == t1 \o EndLine
           t3 == t2 \o h
           t4 == t3 \o Zeros
<1>1. Comment(time) = t4
  BY DEF Comment
<1>2. Plain(s, 1)
  BY PlainTexts
<1>3. Text(h, 1) /\ Where(h, Char(" * Class hash: ")) = {1} /\ Where(h, Char(" 0x")) = {}
  <2>1. Text(h, 1)
    BY Letter, Literals DEF Text
  <2>2. DOMAIN h = {1} /\ h[1] = Char(" * Class hash: ")
    OBVIOUS
  <2> HIDE DEF h
  <2> QED
    BY <2>1, <2>2, LabelsApart DEF Where
<1>4. Plain(time, k)
  <2>1. CASE time = <<>>
    <3>1. Text(time, k)
      BY <2>1, Literals, Letter DEF Text
    <3> QED
      BY <2>1, <3>1, UnlabelledIf DEF Plain
  <2>2. CASE time \in Times
    <3>1. /\ time \in Seq(ToSet(time)) /\ ToSet(time) \subseteq Pieces
          /\ Labels \intersect ToSet(time) = {}
      BY <2>2, HeaderAssumption DEF Pieces
    <3>2. time \in Seq(Pieces)
      BY <3>1
    <3>3. \A i \in DOMAIN time : time[i] \in ToSet(time)
      BY DEF ToSet
    <3> QED
      BY <3>1, <3>2, <3>3, UnlabelledIf DEF Plain, Text
  <2> QED
    BY <2>1, <2>2
<1> HIDE DEF s, h
<1>5. PICK a \in Nat, b \in Nat, d \in Nat, e \in Nat :
        /\ a = k + 1 /\ b = k + 2 /\ d = k + 3 /\ e = k + 11
        /\ 1 + k = a /\ a + 1 = b /\ b + 1 = d /\ d + 8 = e
  OBVIOUS
<1>6. Plain(t1, a)
  BY <1>2, <1>4, <1>5, PlainJoined
<1> HIDE DEF t1
<1>7. Plain(t2, b)
  BY <1>5, <1>6, PlainTexts, PlainJoined
<1> HIDE DEF t2
<1>8. /\ Text(t3, d) /\ Where(t3, Char(" * Class hash: ")) = {d}
      /\ Where(t3, Char(" 0x")) = {}
  <2>1. Text(t2, b)
    BY <1>7 DEF Plain
  <2>2. Text(h, 1)
    BY <1>3
  <2>3. b + 1 = d
    BY <1>5
  <2>4. Text(t3, d)
    BY <2>1, <2>2, <2>3, JoinedTo
  <2>6. Where(t3, Char(" * Class hash: ")) = {d} /\ Where(t3, Char(" 0x")) = {}
    <3>1. Nowhere(t2, Char(" * Class hash: ")) /\ Nowhere(t2, Char(" 0x"))
      BY <1>7 DEF Plain, Unlabelled, Nowhere
    <3>2. OnlyAt(h, Char(" * Class hash: "), 1) /\ Nowhere(h, Char(" 0x"))
      BY <1>3 DEF OnlyAt, Nowhere
    <3>3. OnlyAt(t3, Char(" * Class hash: "), d)
      BY <2>1, <2>2, <2>3, <3>1, <3>2, LabelAdded
    <3>4. Nowhere(t3, Char(" 0x"))
      BY <2>1, <2>2, <3>1, <3>2, NoLabelAdded
    <3> QED
      BY <3>3, <3>4 DEF OnlyAt, Nowhere
  <2> QED
    BY <2>3, <2>4, <2>6
<1> HIDE DEF t3
<1>9. /\ Text(t4, e) /\ Where(t4, Char(" * Class hash: ")) = {d}
      /\ Where(t4, Char(" 0x")) = {} /\ GoesOn(t4, d, Zeros, 8)
  <2>1. Plain(Zeros, 8) /\ Text(Zeros, 8)
    BY PlainTexts DEF Plain
  <2>2. Text(t4, d + 8) /\ GoesOn(t4, d, Zeros, 8)
    BY <1>8, <2>1, JoinedText
  <2>3. /\ Where(t4, Char(" * Class hash: ")) = Where(t3, Char(" * Class hash: "))
        /\ Where(t4, Char(" 0x")) = Where(t3, Char(" 0x"))
    BY <1>8, <2>1, AddedPlain
  <2> HIDE DEF t4
  <2> QED
    BY <1>5, <1>8, <2>2, <2>3
<1> QED
  BY <1>1, <1>5, <1>9

(* The header behind its comment, up to the zeros and from there on. *)
Middle(name, included) ==
  CommentEnd \o EndLine \o <<Char("#ifndef"), name>> \o EndLine \o included
    \o EndLine \o <<Char("#define __CR_HASH_"), name, Char(" 0x")>> \o Zeros
Rest(name, body) ==
  EndLine \o <<name>> \o body \o <<Char("#endif")>> \o EndLine

(* The same behind a text c. *)
AddMiddle(c, name, included) ==
  c \o CommentEnd \o EndLine \o <<Char("#ifndef"), name>> \o EndLine \o included
    \o EndLine \o <<Char("#define __CR_HASH_"), name, Char(" 0x")>> \o Zeros
AddRest(c, name, body) ==
  c \o EndLine \o <<name>> \o body \o <<Char("#endif")>> \o EndLine

LEMMA MiddleParts ==
  ASSUME NEW name \in ClassNames, NEW n \in Nat, NEW included, Plain(included, n),
         NEW c, NEW k \in Nat, Text(c, k)
  PROVE  /\ Text(Middle(name, included), n + 21)
         /\ Where(Middle(name, included), Char(" * Class hash: ")) = {}
         /\ Where(Middle(name, included), Char(" 0x")) = {n + 13}
         /\ GoesOn(Middle(name, included), n + 13, Zeros, 8)
         /\ AddMiddle(c, name, included) = c \o Middle(name, included)
<1> DEFINE s2 == <<Char("#ifndef"), name>>
           s3 == <<Char("#define __CR_HASH_"), name, Char(" 0x")>>
           t1 == CommentEnd
           t2 == t1 \o EndLine
           t3 == t2 \o s2
           t4 == t3 \o EndLine
           t5 == t4 \o included
           t6 == t5 \o EndLine
           t7 == t6 \o s3
           t8 == t7 \o Zeros
           whole == c \o t1 \o EndLine \o s2 \o EndLine \o included \o EndLine
                      \o s3 \o Zeros
<1>1. Middle(name, included) = t8 /\ AddMiddle(c, name, included) = whole
  BY DEF Middle, AddMiddle
<1>2. name \in Pieces \ Labels
  BY HeaderAssumption DEF Pieces
<1>3. Plain(s2, 2)
  <2>1. Char("#ifndef") \in Pieces \ Labels
    BY Letter, LabelsApart
  <2> QED
    BY <1>2, <2>1, PlainTuples
<1>4. Text(s3, 3) /\ Where(s3, Char(" * Class hash: ")) = {} /\ Where(s3, Char(" 0x")) = {3}
  <2>1. Text(s3, 3)
    BY FixedTexts
  <2>2. /\ DOMAIN s3 = {1, 2, 3} /\ s3[1] = Char("#define __CR_HASH_")
        /\ s3[2] = name /\ s3[3] = Char(" 0x")
    OBVIOUS
  <2>3. /\ s3[1] # Char(" * Class hash: ") /\ s3[1] # Char(" 0x")
        /\ s3[2] # Char(" * Class hash: ") /\ s3[2] # Char(" 0x")
        /\ s3[3] # Char(" * Class hash: ")
    BY <1>2, <2>2, LabelsApart DEF Labels
  <2> HIDE DEF s3
  <2> QED
    BY <2>1, <2>2, <2>3 DEF Where
<1>5. Plain(t1, 5) /\ Plain(EndLine, 1) /\ Plain(Zeros, 8)
  BY PlainTexts
<1> HIDE DEF s2, s3, t1
<1>6. PICK a \in Nat, b \in Nat, d \in Nat, e \in Nat :
         /\ a = n + 9 /\ b = n + 10 /\ d = n + 13 /\ e = n + 21
         /\ 9 + n = a /\ a + 1 = b /\ b + 3 = d /\ d + 8 = e
  OBVIOUS
<1>7. Plain(t2, 6) /\ (c \o t1) \o EndLine = c \o t2
  BY <1>5, PlainAdded, SMTT(30)
<1> HIDE DEF t2
<1>8. Plain(t3, 8) /\ (c \o t2) \o s2 = c \o t3
  BY <1>3, <1>7, PlainAdded, SMTT(30)
<1> HIDE DEF t3
<1>9. Plain(t4, 9) /\ (c \o t3) \o EndLine = c \o t4
  BY <1>5, <1>8, PlainAdded, SMTT(30)
<1> HIDE DEF t4
<1>10. Plain(t5, a) /\ (c \o t4) \o included = c \o t5
  BY <1>6, <1>9, PlainAdded, SMTT(30)
<1> HIDE DEF t5
<1>11. Plain(t6, b) /\ (c \o t5) \o EndLine = c \o t6
  BY <1>5, <1>6, <1>10, PlainAdded, SMTT(30)
<1> HIDE DEF t6
<1>12. /\ Text(t7, d) /\ (c \o t6) \o s3 = c \o t7
       /\ Where(t7, Char(" * Class hash: ")) = {} /\ Where(t7, Char(" 0x")) = {d}
  <2>1. Text(t6, b)
    BY <1>11 DEF Plain
  <2>2. Text(s3, 3)
    BY <1>4
  <2>3. b + 3 = d
    BY <1>6
  <2>4. Text(t7, d)
    BY <2>1, <2>2, <2>3, JoinedTo
  <2>5. (c \o t6) \o s3 = c \o t7
    BY <2>1, <2>2, Regrouped, SMTT(30)
  <2>7. Where(t7, Char(" * Class hash: ")) = {} /\ Where(t7, Char(" 0x")) = {d}
    <3>1. Nowhere(t6, Char(" 0x")) /\ Nowhere(t6, Char(" * Class hash: "))
      BY <1>11 DEF Plain, Unlabelled, Nowhere
    <3>2. OnlyAt(s3, Char(" 0x"), 3) /\ Nowhere(s3, Char(" * Class hash: "))
      BY <1>4 DEF OnlyAt, Nowhere
    <3>3. OnlyAt(t7, Char(" 0x"), d)
      BY <2>1, <2>2, <2>3, <3>1, <3>2, LabelAdded
    <3>4. Nowhere(t7, Char(" * Class hash: "))
      BY <2>1, <2>2, <3>1, <3>2, NoLabelAdded
    <3> QED
      BY <3>3, <3>4 DEF OnlyAt, Nowhere
  <2> QED
    BY <2>3, <2>4, <2>5, <2>7
<1> HIDE DEF t7
<1>13. /\ Text(t8, e) /\ (c \o t7) \o Zeros = c \o t8
       /\ Where(t8, Char(" * Class hash: ")) = {} /\ Where(t8, Char(" 0x")) = {d}
       /\ GoesOn(t8, d, Zeros, 8)
  <2>1. Text(Zeros, 8)
    BY <1>5 DEF Plain
  <2>0. Text(t7, d)
    BY <1>12
  <2>2. Text(t8, d + 8) /\ GoesOn(t8, d, Zeros, 8)
    BY <2>0, <2>1, JoinedText
  <2>3. (c \o t7) \o Zeros = c \o t8
    BY <2>0, <2>1, Regrouped, SMTT(30)
  <2>4. /\ Where(t8, Char(" * Class hash: ")) = Where(t7, Char(" * Class hash: "))
        /\ Where(t8, Char(" 0x")) = Where(t7, Char(" 0x"))
    BY <1>5, <1>12, AddedPlain
  <2> HIDE DEF t8
  <2> QED
    BY <1>6, <1>12, <2>2, <2>3, <2>4
<1> HIDE DEF t8
<1>14. whole = c \o t8
  BY <1>7, <1>8, <1>9, <1>10, <1>11, <1>12, <1>13
<1> QED
  BY <1>1, <1>6, <1>13, <1>14

LEMMA RestParts ==
  ASSUME NEW name \in ClassNames, NEW m \in Nat, NEW body, Plain(body, m),
         NEW c, NEW k \in Nat, Text(c, k)
  PROVE  /\ Plain(Rest(name, body), m + 4)
         /\ AddRest(c, name, body) = c \o Rest(name, body)
<1> DEFINE s1 == <<name>>
           se == <<Char("#endif")>>
           t1 == EndLine
           t2 == t1 \o s1
           t3 == t2 \o body
           t4 == t3 \o se
           t5 == t4 \o EndLine
           whole == c \o t1 \o s1 \o body \o se \o EndLine
<1>1. Rest(name, body) = t5 /\ AddRest(c, name, body) = whole
  BY DEF Rest, AddRest
<1>2. Plain(s1, 1)
  <2>1. name \in Pieces \ Labels
    BY HeaderAssumption DEF Pieces
  <2> QED
    BY <2>1, PlainTuples
<1>3. Plain(se, 1) /\ Plain(t1, 1) /\ t1 = EndLine
  BY PlainTexts
<1>4. PICK a \in Nat, b \in Nat, d \in Nat :
        /\ a = m + 2 /\ b = m + 3 /\ d = m + 4
        /\ 2 + m = a /\ a + 1 = b /\ b + 1 = d
  OBVIOUS
<1> HIDE DEF s1, se, t1
<1>5. Plain(t2, 2) /\ (c \o t1) \o s1 = c \o t2
  BY <1>2, <1>3, PlainAdded
<1> HIDE DEF t2
<1>6. Plain(t3, a) /\ (c \o t2) \o body = c \o t3
  BY <1>4, <1>5, PlainAdded
<1> HIDE DEF t3
<1>7. Plain(t4, b) /\ (c \o t3) \o se = c \o t4
  BY <1>3, <1>4, <1>6, PlainAdded, SMTT(30)
<1> HIDE DEF t4
<1>8. Plain(t5, d) /\ (c \o t4) \o EndLine = c \o t5
  <2>1. Plain(EndLine, 1)
    BY PlainTexts
  <2> QED
    BY <1>4, <1>7, <2>1, PlainAdded, SMTT(30)
<1> HIDE DEF t5
<1>9. whole = c \o t5
  BY <1>5, <1>6, <1>7, <1>8
<1> QED
  BY <1>1, <1>4, <1>8, <1>9

LEMMA BehindComment ==
  ASSUME NEW T, NEW c \in Seq(T), NEW r \in Seq(T), Len(r) >= 6
  PROVE  SubSeq(c \o r, Len(c) + 6, Len(c \o r)) = SubSeq(r, 6, Len(r))
<1> DEFINE u == SubSeq(c \o r, Len(c) + 6, Len(c \o r))
           v == SubSeq(r, 6, Len(r))
           n == Len(c)
           m == Len(r)
           w == c \o r
<1>1. n \in Nat /\ m \in Nat /\ w \in Seq(T) /\ Len(w) = n + m
  OBVIOUS
<1>2. \A j \in 1..m : w[n + j] = r[j]
  BY Joined
<1>3. v \in Seq(T) /\ Len(v) = m - 5 /\ \A i \in 1..(m - 5) : v[i] = r[i + 5]
  OBVIOUS
<1> HIDE DEF n, m, w, v
<1>4. u = SubSeq(w, n + 6, n + m)
  BY <1>1 DEF n, w
<1>5. /\ u \in Seq(T) /\ Len(u) = m - 5
      /\ \A i \in 1..(m - 5) : u[i] = w[i + (n + 5)]
  <2>1. n + 6 \in 1..(n + m) /\ n + m \in 1..Len(w)
    BY <1>1 DEF m
  <2>2. SubSeq(w, n + 6, n + m) \in Seq(T)
        /\ Len(SubSeq(w, n + 6, n + m)) = (n + m) - (n + 6) + 1
        /\ \A i \in 1..((n + m) - (n + 6) + 1) :
             SubSeq(w, n + 6, n + m)[i] = w[(n + 6) + i - 1]
    BY <1>1, <2>1
  <2>3. (n + m) - (n + 6) + 1 = m - 5
    BY <1>1
  <2>4. \A i \in 1..(m - 5) : (n + 6) + i - 1 = i + (n + 5)
    BY <1>1
  <2> QED
    BY <1>4, <2>2, <2>3, <2>4
<1> HIDE DEF u
<1>6. ASSUME NEW i \in 1..(m - 5) PROVE u[i] = v[i]
  <2>1. i + 5 \in 1..m /\ i + (n + 5) = n + (i + 5)
    BY <1>1
  <2> QED
    BY <1>2, <1>3, <1>5, <2>1
<1>7. u = v
  BY <1>3, <1>5, <1>6, SameElements
<1> QED
  BY <1>7 DEF u, v

(* The labels and the zeros of a header; and what is hashed of it does not  *)
(* depend on the time.                                                      *)
HashedRest(name, included, body) ==
  SubSeq(Middle(name, included) \o Rest(name, body), 6,
         Len(Middle(name, included) \o Rest(name, body)))

(* A text of L pieces, with the labels and the zeros behind p and q. *)
Places(text, L, p, q) ==
  /\ Text(text, L)
  /\ OnlyAt(text, Char(" * Class hash: "), p) /\ OnlyAt(text, Char(" 0x"), q)
  /\ GoesOn(text, p, Zeros, 8) /\ GoesOn(text, q, Zeros, 8)

LEMMA HeaderPlaces ==
  ASSUME NEW name \in ClassNames,
         NEW included, NEW n \in Nat, Plain(included, n),
         NEW body, NEW m \in Nat, Plain(body, m),
         NEW time, time = <<>> \/ time \in Times, NEW k \in Nat, k = Len(time)
  PROVE  /\ Text(ToHashDef(time, name, included), k + n + 32)
         /\ Places(Header(time, name, included, body), k + n + m + 36, k + 3, k + n + 24)
         /\ HashedText(time, name, included, body) = HashedRest(name, included, body)
<1> DEFINE c == Comment(time)
           mid == Middle(name, included)
           r == Rest(name, body)
           h == ToHashDef(time, name, included)
           text == Header(time, name, included, body)
           a == k + 11
           b == n + 21
           d == m + 4
           e == k + n + 32
           f == k + n + m + 36
           g == n + 13
           l == k + n + 24
           z == k + 3
<1>0. /\ a \in Nat /\ b \in Nat /\ d \in Nat /\ e \in Nat /\ f \in Nat /\ g \in Nat
      /\ l \in Nat /\ z \in Nat
  OBVIOUS
<1>1. a + b = e /\ e + d = f /\ a + g = l /\ z + 8 = a /\ g + 8 = b /\ l + 8 = e
  OBVIOUS
<1>2. /\ Text(c, a) /\ OnlyAt(c, Char(" * Class hash: "), z)
      /\ Nowhere(c, Char(" 0x")) /\ GoesOn(c, z, Zeros, 8)
  <2>1. /\ Text(c, k + 11) /\ Where(c, Char(" * Class hash: ")) = {k + 3}
        /\ Where(c, Char(" 0x")) = {} /\ GoesOn(c, k + 3, Zeros, 8)
    BY CommentParts
  <2> HIDE DEF c
  <2> QED
    BY <2>1 DEF OnlyAt, Nowhere
<1>d. Text(c, a)
  BY <1>2
<1>a. a = k + 11 /\ b = n + 21 /\ d = m + 4 /\ e = k + n + 32 /\ f = k + n + m + 36
      /\ g = n + 13 /\ l = k + n + 24 /\ z = k + 3
  OBVIOUS
<1> HIDE DEF a, b, d, e, f, g, l, z
<1>3. /\ Text(mid, b) /\ Nowhere(mid, Char(" * Class hash: "))
      /\ OnlyAt(mid, Char(" 0x"), g) /\ GoesOn(mid, g, Zeros, 8)
      /\ h = c \o mid
  <2>1. /\ Text(mid, n + 21) /\ Where(mid, Char(" * Class hash: ")) = {}
        /\ Where(mid, Char(" 0x")) = {n + 13} /\ GoesOn(mid, n + 13, Zeros, 8)
    BY <1>0, <1>d, MiddleParts
  <2>2. AddMiddle(c, name, included) = c \o mid
    BY <1>0, <1>d, MiddleParts
  <2>3. h = AddMiddle(c, name, included)
    BY DEF ToHashDef, AddMiddle
  <2> HIDE DEF c, mid, h
  <2> QED
    BY <1>a, <2>1, <2>2, <2>3 DEF OnlyAt, Nowhere
<1>4. Plain(r, d) /\ text = h \o r
  <2>1. Text(h, e)
    <3> HIDE DEF c, mid, h
    <3> QED
      BY <1>0, <1>1, <1>2, <1>3, JoinedTo
  <2>2. Plain(r, m + 4) /\ AddRest(h, name, body) = h \o r
    <3> HIDE DEF h
    <3> QED
      BY <1>0, <2>1, RestParts
  <2>3. text = AddRest(h, name, body)
    BY DEF Header, AddRest
  <2> HIDE DEF h, r
  <2> QED
    BY <1>a, <2>2, <2>3
<1>c. c = Comment(time) /\ h = ToHashDef(time, name, included)
      /\ text = Header(time, name, included, body)
      /\ mid = Middle(name, included) /\ r = Rest(name, body)
  OBVIOUS
<1> HIDE DEF c, mid, r, h, text
<1>5. /\ Text(h, e) /\ OnlyAt(h, Char(" * Class hash: "), z)
      /\ OnlyAt(h, Char(" 0x"), l) /\ GoesOn(h, z, Zeros, 8) /\ GoesOn(h, l, Zeros, 8)
  <2>1. Text(h, e) /\ Begins(h, c, a) /\ GoesOn(h, a, mid, b)
    BY <1>0, <1>1, <1>2, <1>3, JoinedText
  <2>2. OnlyAt(h, Char(" 0x"), l)
    BY <1>0, <1>1, <1>2, <1>3, LabelAdded
  <2>3. OnlyAt(h, Char(" * Class hash: "), z)
    <3>1. \A i \in 1..b : mid[i] # Char(" * Class hash: ")
      BY <1>0, <1>3, TextDomain DEF Nowhere, Where
    <3>2. Where(h, Char(" * Class hash: ")) =
            Where(c, Char(" * Class hash: ")) \union
              {a + j : j \in Where(mid, Char(" * Class hash: "))}
      <4>1. ASSUME NEW label
            PROVE  Where(h, label) =
                     Where(c, label) \union {a + j : j \in Where(mid, label)}
        <5>1. Text(c, a) /\ Text(mid, b) /\ h = c \o mid
          BY <1>2, <1>3
        <5> QED
          BY <1>0, <5>1, JoinedWhere
      <4> QED
        BY <4>1
    <3> QED
      BY <1>2, <1>3, <3>2 DEF OnlyAt, Nowhere
  <2>4. GoesOn(h, z, Zeros, 8)
    <3>1. \A j \in 1..8 : z + j \in 1..a
      BY <1>0, <1>1
    <3> QED
      BY <1>2, <2>1, <3>1 DEF Begins, GoesOn
  <2>5. GoesOn(h, l, Zeros, 8)
    <3>1. \A j \in 1..8 : g + j \in 1..b /\ a + (g + j) = l + j
      BY <1>0, <1>1
    <3> QED
      BY <1>3, <2>1, <3>1 DEF GoesOn
  <2> QED
    BY <2>1, <2>2, <2>3, <2>4, <2>5
<1>6. /\ Text(text, f) /\ OnlyAt(text, Char(" * Class hash: "), z)
      /\ OnlyAt(text, Char(" 0x"), l)
      /\ GoesOn(text, z, Zeros, 8) /\ GoesOn(text, l, Zeros, 8)
  <2>1. Text(r, d)
    BY <1>4 DEF Plain
  <2>2. Text(text, f) /\ Begins(text, h, e)
    BY <1>0, <1>1, <1>4, <1>5, <2>1, JoinedText
  <2>3. /\ Where(text, Char(" * Class hash: ")) = Where(h, Char(" * Class hash: "))
        /\ Where(text, Char(" 0x")) = Where(h, Char(" 0x"))
    BY <1>0, <1>4, <1>5, AddedPlain
  <2>4. \A j \in 1..8 : z + j \in 1..e /\ l + j \in 1..e
    BY <1>0, <1>1
  <2> QED
    BY <1>5, <2>2, <2>3, <2>4 DEF OnlyAt, Begins, GoesOn
<1>7. HashedText(time, name, included, body) = SubSeq(mid \o r, 6, Len(mid \o r))
  <2>1. Text(r, d)
    BY <1>4 DEF Plain
  <2>2. text = c \o (mid \o r)
    <3>1. Text(c, a) /\ Text(mid, b) /\ text = (c \o mid) \o r
      BY <1>2, <1>3, <1>4
    <3>2. (c \o mid) \o r = c \o (mid \o r)
      <4>1. a \in Nat /\ b \in Nat /\ d \in Nat /\ Text(c, a) /\ Text(mid, b)
        BY <1>0, <3>1
      <4>2. c \in Seq(Pieces) /\ mid \in Seq(Pieces) /\ r \in Seq(Pieces)
        BY <2>1, <4>1 DEF Text
      <4> QED
        BY <4>2, SMTT(30)
    <3> QED
      BY <3>1, <3>2
  <2>3. Text(mid \o r, b + d)
    BY <1>0, <1>3, <2>1, JoinedText
  <2>4. /\ c \in Seq(Pieces) /\ mid \o r \in Seq(Pieces) /\ Len(mid \o r) = b + d
        /\ Len(c) = a
    BY <1>2, <2>3 DEF Text
  <2>5. b + d >= 6 /\ (a - 8) + 13 + 1 = a + 6
    BY <1>0, <1>1
  <2>6. SubSeq(c \o (mid \o r), Len(c) + 6, Len(c \o (mid \o r)))
          = SubSeq(mid \o r, 6, Len(mid \o r))
    BY <2>4, <2>5, BehindComment
  <2>7. BeforeZeros(c) + PlaceBytes + 1 = Len(c) + 6
    BY <2>4, <2>5 DEF BeforeZeros, PlaceBytes
  <2>8. HashedText(time, name, included, body) =
          SubSeq(text, BeforeZeros(c) + PlaceBytes + 1, Len(text))
    BY <1>c DEF HashedText
  <2> QED
    BY <2>2, <2>6, <2>7, <2>8
<1> QED
  BY <1>a, <1>5, <1>6, <1>7, <1>c DEF Places, HashedRest

(* The hash as the header shows it, whose digits are printed over zeros. *)
Printed(digits) == [q \in 1..8 |-> IF q \in DOMAIN digits THEN digits[q] ELSE "0"]

Reads(file, p, digits) == \A r \in 1..8 : file[p + r] = Char(Printed(digits)[r])
OverZeros(file, text, L) ==
  /\ DOMAIN file = 1..L
  /\ \A i \in 1..L : \/ file[i] = text[i]
                     \/ /\ text[i] = Char("0")
                        /\ \E digit \in HexDigits : file[i] = Char(digit)

LEMMA Overwritten ==
  ASSUME NEW text, NEW L \in Nat, NEW digits \in HexHashes,
         NEW p \in Nat, NEW q \in Nat, p + 8 < q, q + 8 <= L, Places(text, L, p, q),
         NEW file,
         file = substituteHash(substituteHash(text, digits, q), digits, p)
  PROVE  /\ Reads(file, p, digits) /\ Reads(file, q, digits)
         /\ OverZeros(file, text, L)
<1> DEFINE D == DOMAIN digits
           half == substituteHash(text, digits, q)
<1>1. D \subseteq 1..8 /\ \A j \in D : digits[j] \in HexDigits
  BY HeaderAssumption
<1>2. DOMAIN text = 1..L
  BY TextDomain DEF Places
<1>3. DOMAIN half = 1..L
      /\ \A i \in 1..L : half[i] = IF i - q \in D THEN Char(digits[i - q]) ELSE text[i]
  BY <1>2 DEF substituteHash
<1>4. file = substituteHash(half, digits, p)
  OBVIOUS
<1> HIDE DEF half
<1>5. DOMAIN file = 1..L
      /\ \A i \in 1..L : file[i] = IF i - p \in D THEN Char(digits[i - p]) ELSE half[i]
  BY <1>3, <1>4 DEF substituteHash
<1> HIDE DEF D
<1>6. \A r \in 1..8 : text[p + r] = Char("0") /\ text[q + r] = Char("0")
  BY DEF Places, GoesOn, Zeros
<1>7. ASSUME NEW r \in 1..8
      PROVE  /\ file[p + r] = Char(Printed(digits)[r])
             /\ file[q + r] = Char(Printed(digits)[r])
  <2>1. /\ p + r \in 1..L /\ (p + r) - p = r /\ ~((p + r) - q \in 1..8)
        /\ q + r \in 1..L /\ (q + r) - q = r /\ ~((q + r) - p \in 1..8)
    OBVIOUS
  <2>2. ~((p + r) - q \in D) /\ ~((q + r) - p \in D)
    BY <1>1, <2>1
  <2>3. Printed(digits)[r] = IF r \in D THEN digits[r] ELSE "0"
    BY DEF Printed, D
  <2>4. file[p + r] = IF r \in D THEN Char(digits[r]) ELSE half[p + r]
    BY <1>5, <2>1
  <2>5. half[p + r] = text[p + r]
    BY <1>3, <2>1, <2>2
  <2>6. file[q + r] = half[q + r]
    BY <1>5, <2>1, <2>2
  <2>7. half[q + r] = IF r \in D THEN Char(digits[r]) ELSE text[q + r]
    BY <1>3, <2>1
  <2> QED
    BY <1>6, <2>3, <2>4, <2>5, <2>6, <2>7
<1>8. ASSUME NEW i \in 1..L
      PROVE  \/ file[i] = text[i]
             \/ /\ text[i] = Char("0")
                /\ \E digit \in HexDigits : file[i] = Char(digit)
  <2>1. CASE i - p \in D
    <3>1. i - p \in 1..8 /\ p + (i - p) = i
      BY <1>1, <2>1
    <3>2. text[i] = Char("0")
      BY <1>6, <3>1
    <3>3. file[i] = Char(digits[i - p]) /\ digits[i - p] \in HexDigits
      BY <1>1, <1>5, <2>1
    <3> QED
      BY <3>2, <3>3
  <2>2. CASE i - p \notin D /\ i - q \in D
    <3>1. i - q \in 1..8 /\ q + (i - q) = i
      BY <1>1, <2>2
    <3>2. text[i] = Char("0")
      BY <1>6, <3>1
    <3>3. file[i] = Char(digits[i - q]) /\ digits[i - q] \in HexDigits
      BY <1>1, <1>3, <1>5, <2>2
    <3> QED
      BY <3>2, <3>3
  <2>3. CASE i - p \notin D /\ i - q \notin D
    BY <1>3, <1>5, <2>3
  <2> QED
    BY <2>1, <2>2, <2>3
<1> QED
  BY <1>5, <1>7, <1>8 DEF Reads, OverZeros

LEMMA ShownIs ==
  ASSUME NEW text, NEW L \in Nat, Text(text, L), NEW file, OverZeros(file, text, L),
         NEW s, Char(s) \in Labels, NEW p \in Nat, OnlyAt(text, Char(s), p),
         NEW digits, Reads(file, p, digits)
  PROVE  Shown(file, s) = Printed(digits)
<1>1. DOMAIN text = 1..L
  BY TextDomain
<1>2. p \in 1..L /\ text[p] = Char(s) /\ \A i \in 1..L : text[i] = Char(s) => i = p
  BY <1>1 DEF OnlyAt, Where
<1>4. \A digit \in HexDigits : Char(digit) # Char(s)
  BY LabelsApart
<1>5. Char("0") # Char(s)
  BY LabelsApart
<1>6. file[p] = Char(s)
  BY <1>2, <1>5 DEF OverZeros
<1>7. \A i \in 1..L : file[i] = Char(s) => i = p
  BY <1>2, <1>4 DEF OverZeros
<1> DEFINE i == CHOOSE j \in DOMAIN file : file[j] = Char(s)
<1>8. i = p
  BY <1>2, <1>6, <1>7 DEF OverZeros
<1>0. Shown(file, s) = [k \in 1..8 |-> file[i + k].char]
  BY DEF Shown
<1> HIDE DEF i
<1>9. \A r \in 1..8 : file[p + r].char = Printed(digits)[r]
  <2>1. \A c : Char(c).char = c
    BY DEF Char
  <2> QED
    BY <2>1 DEF Reads
<1>10. Shown(file, s) = [k \in 1..8 |-> file[p + k].char]
  BY <1>0, <1>8
<1>11. Printed(digits) = [r \in 1..8 |-> Printed(digits)[r]]
  BY DEF Printed
<1>12. [k \in 1..8 |-> file[p + k].char] = [r \in 1..8 |-> Printed(digits)[r]]
  BY <1>9
<1> QED
  BY <1>10, <1>11, <1>12

(* writeHHeaderInclude and writeField write no label. *)
LEMMA PlainClass ==
  ASSUME NEW package \in Packages, NEW c \in ClassNames
  PROVE  /\ \E n \in Nat : Plain(Includes(package[c]), n)
         /\ \E m \in Nat : Plain(Declarations(package[c]), m)
<1> DEFINE included == Includes(package[c])
           body == Declarations(package[c])
<1>1. package[c] \in Seq(Fields)
  BY PackagesAssumption
<1>2. included \in Seq(ClassNames) /\ body \in Seq(Fields)
  BY <1>1, IncludesType, MembersType DEF Declarations
<1> HIDE DEF included, body
<1>3. included \in Seq(Pieces) /\ body \in Seq(Pieces)
  <2>1. ClassNames \subseteq Pieces /\ Fields \subseteq Pieces
    BY DEF Pieces
  <2> QED
    BY <1>2, <2>1
<1>4. Text(included, Len(included)) /\ Text(body, Len(body))
  BY <1>3 DEF Text
<1>5. Unlabelled(included)
  <2>1. \A i \in DOMAIN included : included[i] \in ClassNames
    BY <1>2
  <2>2. \A i \in DOMAIN included : included[i] \notin Labels
    BY <2>1, HeaderAssumption
  <2> QED
    BY <2>2, UnlabelledIf
<1>6. Unlabelled(body)
  <2>1. \A i \in DOMAIN body : body[i] \in Fields
    BY <1>2
  <2>2. \A i \in DOMAIN body : body[i] \notin Labels
    BY <2>1, FieldsApart
  <2> QED
    BY <2>2, UnlabelledIf
<1>7. Len(included) \in Nat /\ Len(body) \in Nat
  BY <1>2
<1>8. Plain(included, Len(included)) /\ Plain(body, Len(body))
  BY <1>4, <1>5, <1>6 DEF Plain
<1> QED
  BY <1>7, <1>8 DEF included, body

(* A header as it is written: what it shows, what it overwrites, and that   *)
(* its hash is that of the class.                                           *)
LEMMA HeaderIsShown ==
  ASSUME NEW name \in ClassNames,
         NEW included, NEW n \in Nat, Plain(included, n),
         NEW body, NEW m \in Nat, Plain(body, m),
         NEW time \in Times, NEW digits \in HexHashes
  PROVE  LET composed == Header(time, name, included, body)
             file == WithHash(time, name, included, body, digits)
         IN  /\ Shown(file, " * Class hash: ") = Printed(digits)
             /\ Shown(file, " 0x") = Printed(digits)
             /\ \A i \in DOMAIN composed :
                  file[i] # composed[i] => composed[i] = Char("0")
<1> DEFINE composed == Header(time, name, included, body)
           cut == ToHashDef(time, name, included)
           file == WithHash(time, name, included, body, digits)
           k == Len(time)
           p == k + 3
           q == k + n + 24
           L == k + n + m + 36
<1>1. k \in Nat
  BY HeaderAssumption
<1>2. Text(cut, k + n + 32) /\ Places(composed, L, p, q)
  <2>1. PICK j \in Nat : j = k
    BY <1>1
  <2> HIDE DEF k
  <2>2. j = Len(time)
    BY <2>1 DEF k
  <2>3. Text(cut, j + n + 32) /\ Places(composed, j + n + m + 36, j + 3, j + n + 24)
    BY <2>2, HeaderPlaces
  <2> QED
    BY <2>1, <2>3
<1>3. Text(Comment(time), k + 11)
  BY <1>1, CommentParts
<1>4. p \in Nat /\ q \in Nat /\ L \in Nat /\ p + 8 < q /\ q + 8 <= L
  BY <1>1
<1>5. BeforeZeros(cut) = q
  <2>1. Len(cut) = k + n + 32
    BY <1>2 DEF Text
  <2> HIDE DEF cut, k
  <2> QED
    BY <1>1, <2>1 DEF BeforeZeros
<1>6. BeforeZeros(Comment(time)) = p
  <2>1. Len(Comment(time)) = k + 11
    BY <1>3 DEF Text
  <2> HIDE DEF k
  <2> QED
    BY <1>1, <2>1 DEF BeforeZeros
<1>7. file = substituteHash(substituteHash(composed, digits, q), digits, p)
  <2>1. file = substituteHash(substituteHash(composed, digits, BeforeZeros(cut)),
                              digits, BeforeZeros(Comment(time)))
    BY DEF WithHash
  <2> HIDE DEF cut, composed, file, p, q
  <2> QED
    BY <1>5, <1>6, <2>1
<1> HIDE DEF composed, cut, file, k, p, q, L
<1>8. /\ Reads(file, p, digits) /\ Reads(file, q, digits)
      /\ OverZeros(file, composed, L)
  BY <1>2, <1>4, <1>7, Overwritten
<1>9. /\ Text(composed, L) /\ OnlyAt(composed, Char(" * Class hash: "), p)
      /\ OnlyAt(composed, Char(" 0x"), q)
  BY <1>2 DEF Places
<1>10. Shown(file, " * Class hash: ") = Printed(digits)
  <2>1. Char(" * Class hash: ") \in Labels
    BY DEF Labels
  <2>2. Text(composed, L) /\ OnlyAt(composed, Char(" * Class hash: "), p)
    BY <1>9
  <2>3. OverZeros(file, composed, L) /\ Reads(file, p, digits)
    BY <1>8
  <2> QED
    BY <1>4, <2>1, <2>2, <2>3, ShownIs
<1>11. Shown(file, " 0x") = Printed(digits)
  <2>1. Char(" 0x") \in Labels
    BY DEF Labels
  <2>2. Text(composed, L) /\ OnlyAt(composed, Char(" 0x"), q)
    BY <1>9
  <2>3. OverZeros(file, composed, L) /\ Reads(file, q, digits)
    BY <1>8
  <2> QED
    BY <1>4, <2>1, <2>2, <2>3, ShownIs
<1>12. \A i \in DOMAIN composed : file[i] # composed[i] => composed[i] = Char("0")
  BY <1>4, <1>8, <1>9, TextDomain DEF OverZeros
<1> QED
  BY <1>10, <1>11, <1>12 DEF file, composed

(* The hash of a class is the same at any time. *)
LEMMA HashAtAnyTime ==
  ASSUME NEW package \in Packages, NEW c \in ClassNames, NEW time \in Times
  PROVE  HashedText(time, c, Includes(package[c]), Declarations(package[c]))
           = ClassHash(package, c)
<1> DEFINE included == Includes(package[c])
           body == Declarations(package[c])
<1>1. PICK n \in Nat : Plain(included, n)
  BY PlainClass
<1>2. PICK m \in Nat : Plain(body, m)
  BY PlainClass
<1>3. ClassHash(package, c) = HashedText(<<>>, c, included, body)
  BY DEF ClassHash
<1> HIDE DEF included, body
<1>4. HashedText(time, c, included, body) = HashedRest(c, included, body)
  <2>1. PICK k \in Nat : k = Len(time)
    BY HeaderAssumption
  <2> QED
    BY <1>1, <1>2, <2>1, HeaderPlaces
<1>5. HashedText(<<>>, c, included, body) = HashedRest(c, included, body)
  <2>1. PICK empty : empty = <<>>
    OBVIOUS
  <2>2. PICK k \in Nat : k = Len(empty)
    BY <2>1
  <2>3. HashedText(empty, c, included, body) = HashedRest(c, included, body)
    BY <1>1, <1>2, <2>1, <2>2, HeaderPlaces
  <2> QED
    BY <2>1, <2>3
<1>6. HashedText(time, c, included, body) = ClassHash(package, c)
  BY <1>3, <1>4, <1>5
<1> QED
  BY <1>6 DEF included, body

-----------------------------------------------------------------------------
(* The activations of a walk. *)

Frames ==
  [members : Seq(Fields), base : Nat, count : Nat, path : Seq(MemberNames)]

TopOf(s) == s[Len(s)]
Has(s) == TopOf(s).members # <<>>
FieldOf(s) == Head(TopOf(s).members)
PathOf(s) == Append(TopOf(s).path, FieldOf(s).name)
Addr(s) == TopOf(s).base + TopOf(s).count
Scalar(s) == Has(s) /\ FieldOf(s).type \notin ClassNames
Entering(s) == Has(s) /\ FieldOf(s).type \in ClassNames
Leaving(s) == ~Has(s) /\ Len(s) > 1
Final(s) == ~Has(s) /\ Len(s) = 1

(* An activation is no deeper than its class and the classes of the objects *)
(* in it allow.                                                             *)
Inside(f, rank) ==
  /\ Len(f.path) + 1 <= Depth
  /\ \A i \in DOMAIN f.members :
       f.members[i].type \in ClassNames =>
         Len(f.path) + 2 + rank[f.members[i].type] <= Depth

(* Each activation but the innermost waits for a member of its own, and the *)
(* next one begins where it has come to.                                    *)
Good(package, s) ==
  /\ s \in Seq(Frames) /\ s # <<>>
  /\ s[1].base = 0
  /\ \A i \in 1..(Len(s) - 1) :
       s[i].members # <<>> /\ s[i + 1].base = s[i].base + s[i].count
  /\ \E rank \in Ranks(package) : \A i \in 1..Len(s) : Inside(s[i], rank)

Entered(package, s) ==
  Append(s, Activation(package, FieldOf(s).type, Addr(s), PathOf(s)))
Left(s) == Append(Front(Front(s)), Past(TopOf(Front(s)), TopOf(s).count))
Passed(s, n) == Append(Front(s), Past(TopOf(s), n))

LEMMA Shortened ==
  ASSUME NEW T, NEW s \in Seq(T), s # <<>>
  PROVE  /\ Front(s) \in Seq(T) /\ Len(Front(s)) = Len(s) - 1
         /\ \A i \in 1..(Len(s) - 1) : Front(s)[i] = s[i]
<1>1. PICK n \in Nat : n = Len(s) - 1
  OBVIOUS
<1>2. \A i \in 1..n : i \in 1..Len(s) /\ s[i] \in T
  BY <1>1
<1>3. SubSeq(s, 1, n) = [i \in 1..n |-> s[i]]
  BY <1>1
<1>4. PICK f \in [1..n -> T] : f = SubSeq(s, 1, n) /\ \A i \in 1..n : f[i] = s[i]
  BY <1>2, <1>3
<1>5. f \in Seq(T) /\ Len(f) = n
  BY Tabulated
<1>6. f = Front(s)
  BY <1>1, <1>4 DEF Front
<1> QED
  BY <1>1, <1>4, <1>5, <1>6

LEMMA ReplacedTop ==
  ASSUME NEW T, NEW s \in Seq(T), s # <<>>, NEW e \in T
  PROVE  /\ Append(Front(s), e) \in Seq(T) /\ Len(Append(Front(s), e)) = Len(s)
         /\ Append(Front(s), e)[Len(s)] = e
         /\ \A i \in 1..(Len(s) - 1) : Append(Front(s), e)[i] = s[i]
<1>1. PICK f \in Seq(T) :
        /\ f = Front(s) /\ Len(f) = Len(s) - 1
        /\ \A i \in 1..(Len(s) - 1) : f[i] = s[i]
  BY Shortened
<1>2. /\ Append(f, e) \in Seq(T) /\ Len(Append(f, e)) = Len(f) + 1
      /\ \A k \in 1..Len(f) : Append(f, e)[k] = f[k]
      /\ Append(f, e)[Len(f) + 1] = e
  BY Extended
<1> QED
  BY <1>1, <1>2

LEMMA AsFunction ==
  ASSUME NEW T, NEW s \in Seq(T), NEW n \in Nat, n = Len(s)
  PROVE  s \in [1..n -> T]
OBVIOUS

LEMMA HeadAndTail ==
  ASSUME NEW T, NEW s \in Seq(T), s # <<>>
  PROVE  /\ Head(s) \in T /\ Head(s) = s[1] /\ Tail(s) \in Seq(T)
         /\ 1 \in 1..Len(s) /\ Len(Tail(s)) = Len(s) - 1
         /\ \A i \in 1..Len(Tail(s)) : Tail(s)[i] = s[i + 1] /\ i + 1 \in 1..Len(s)
OBVIOUS

LEMMA FrameType ==
  ASSUME NEW f \in Frames
  PROVE  /\ f.members \in Seq(Fields) /\ f.base \in Nat /\ f.count \in Nat
         /\ f.path \in Seq(MemberNames) /\ Len(f.path) \in Nat
         /\ DOMAIN f.members = 1..Len(f.members)
<1>1. /\ f.members \in Seq(Fields) /\ f.base \in Nat /\ f.count \in Nat
      /\ f.path \in Seq(MemberNames)
  BY DEF Frames
<1> QED
  BY <1>1

LEMMA PastFrame ==
  ASSUME NEW f \in Frames, f.members # <<>>, NEW n \in Nat
  PROVE  /\ Past(f, n) \in Frames
         /\ Past(f, n).members = Tail(f.members) /\ Past(f, n).base = f.base
         /\ Past(f, n).count = f.count + n /\ Past(f, n).path = f.path
<1>1. PICK m, b, c, p :
        /\ m = f.members /\ b = f.base /\ c = f.count /\ p = f.path
        /\ f = [members |-> m, base |-> b, count |-> c, path |-> p]
  BY DEF Frames
<1>2. /\ m \in Seq(Fields) /\ m # <<>> /\ b \in Nat /\ c \in Nat
      /\ p \in Seq(MemberNames)
  BY <1>1, FrameType
<1>3. PICK l \in Seq(Fields) : l = Tail(m)
  BY <1>2, HeadAndTail
<1>4. PICK k \in Nat : k = c + n
  BY <1>2
<1>5. PICK g : g = [f EXCEPT !.members = l, !.count = k]
  OBVIOUS
<1>6. g = [members |-> l, base |-> b, count |-> k, path |-> p]
  BY <1>1, <1>5
<1>7. Past(f, n) = g
  BY <1>1, <1>3, <1>4, <1>5 DEF Past
<1>8. g \in Frames
  BY <1>2, <1>3, <1>4, <1>6 DEF Frames
<1>9. /\ g.members = l /\ g.base = b /\ g.count = k /\ g.path = p
  BY <1>6
<1> QED
  BY <1>1, <1>3, <1>4, <1>7, <1>8, <1>9

LEMMA PastInside ==
  ASSUME NEW f \in Frames, f.members # <<>>, NEW n \in Nat, NEW rank, Inside(f, rank)
  PROVE  Inside(Past(f, n), rank)
<1>1. PICK g \in Frames :
        /\ g = Past(f, n) /\ g.members = Tail(f.members) /\ g.path = f.path
  BY PastFrame
<1>2. /\ f.members \in Seq(Fields) /\ DOMAIN f.members = 1..Len(f.members)
      /\ DOMAIN g.members = 1..Len(g.members)
  BY FrameType
<1>3. \A i \in 1..Len(g.members) :
        g.members[i] = f.members[i + 1] /\ i + 1 \in 1..Len(f.members)
  BY <1>1, <1>2, HeadAndTail
<1>4. Inside(g, rank)
  BY <1>1, <1>2, <1>3 DEF Inside
<1> QED
  BY <1>1, <1>4

LEMMA TopType ==
  ASSUME NEW package, NEW s, Good(package, s)
  PROVE  /\ Len(s) \in Nat /\ Len(s) >= 1 /\ Len(s) \in 1..Len(s)
         /\ TopOf(s) \in Frames /\ Addr(s) \in Nat
         /\ Has(s) => FieldOf(s) \in Fields
<1>1. s \in Seq(Frames) /\ s # <<>>
  BY DEF Good
<1>2. Len(s) \in Nat /\ Len(s) >= 1 /\ Len(s) \in 1..Len(s) /\ s[Len(s)] \in Frames
  BY <1>1
<1>3. PICK f \in Frames : f = s[Len(s)]
  BY <1>2
<1>4. f.members # <<>> => Head(f.members) \in Fields
  BY FrameType, HeadAndTail
<1> QED
  BY <1>2, <1>3, <1>4, FrameType DEF TopOf, Has, FieldOf, Addr

(* Where a member of a class is, is one of the paths. *)
LEMMA PathType ==
  ASSUME NEW package, NEW s, Good(package, s), Has(s)
  PROVE  PathOf(s) \in Paths /\ PathOf(s) \in Seq(MemberNames)
<1>1. PICK f \in Frames : f = TopOf(s)
  BY TopType
<1>2. PICK name \in MemberNames : name = FieldOf(s).name
  BY TopType DEF Fields
<1>3. Len(f.path) + 1 <= Depth
  <2>1. PICK rank \in Ranks(package) : \A i \in 1..Len(s) : Inside(s[i], rank)
    BY DEF Good
  <2>2. Inside(TopOf(s), rank)
    BY <2>1, TopType DEF TopOf
  <2> QED
    BY <1>1, <2>2 DEF Inside
<1>4. PICK p \in Seq(MemberNames) : p = f.path /\ Len(p) + 1 <= Depth
  BY <1>1, <1>3, FrameType
<1>5. PICK q \in Seq(MemberNames) : q = Append(p, name) /\ Len(q) = Len(p) + 1
  BY Extended
<1>6. q \in SeqOf(MemberNames, Depth)
  <2>1. PICK n \in Nat : n = Len(q)
    OBVIOUS
  <2>2. n \in 0..Depth
    BY <1>4, <1>5, <2>1, PackagesAssumption
  <2>3. q \in [1..n -> MemberNames]
    BY <2>1, AsFunction
  <2>4. PICK S : S = {[1..m -> MemberNames] : m \in 0..Depth}
    OBVIOUS
  <2>5. [1..n -> MemberNames] \in S
    BY <2>2, <2>4
  <2>6. q \in UNION S
    BY <2>3, <2>5
  <2> QED
    BY <2>4, <2>6 DEF SeqOf
<1> QED
  BY <1>1, <1>2, <1>4, <1>5, <1>6, ObjectsAssumption DEF PathOf

LEMMA ActivationFrame ==
  ASSUME NEW package \in Packages, NEW c \in ClassNames, NEW base \in Nat,
         NEW p \in Seq(MemberNames)
  PROVE  /\ Activation(package, c, base, p) \in Frames
         /\ Activation(package, c, base, p).base = base
         /\ Activation(package, c, base, p).count = 0
<1>1. package[c] \in Seq(Fields)
  BY PackagesAssumption
<1>2. PICK m \in Seq(Fields) : m = Members(package[c])
  BY <1>1, MembersType
<1>3. Activation(package, c, base, p)
        = [members |-> m, base |-> base, count |-> 0, path |-> p]
  BY <1>2 DEF Activation
<1> QED
  BY <1>3 DEF Frames

LEMMA ActivationInside ==
  ASSUME NEW package \in Packages, NEW c \in ClassNames, NEW base \in Nat,
         NEW p \in Seq(MemberNames), NEW rank \in Ranks(package),
         Len(p) + 1 + rank[c] <= Depth
  PROVE  Inside(Activation(package, c, base, p), rank)
<1>1. package[c] \in Seq(Fields)
  BY PackagesAssumption
<1>2. PICK m \in Seq(Fields) :
        /\ m = Members(package[c])
        /\ \A i \in DOMAIN m : \E j \in DOMAIN package[c] : m[i] = package[c][j]
  BY <1>1, MembersType
<1>3. PICK f :
        /\ f = Activation(package, c, base, p)
        /\ f.members = m /\ f.path = p
  <2>1. PICK f : f = [members |-> m, base |-> base, count |-> 0, path |-> p]
    OBVIOUS
  <2>2. f.members = m /\ f.path = p
    BY <2>1
  <2>3. f = Activation(package, c, base, p)
    BY <1>2, <2>1 DEF Activation
  <2> QED
    BY <2>2, <2>3
<1>4. rank \in [ClassNames -> 0..(Depth - 1)] /\ Depth \in Nat
  BY PackagesAssumption DEF Ranks
<1>5. PICK l \in Nat : l = Len(p)
  OBVIOUS
<1>6. PICK r \in Nat : r = rank[c]
  BY <1>4
<1>7. l + 1 <= Depth
  BY <1>4, <1>5, <1>6
<1>8. ASSUME NEW i \in DOMAIN m, m[i].type \in ClassNames
      PROVE  l + 2 + rank[m[i].type] <= Depth
  <2>1. PICK j \in DOMAIN package[c] : m[i] = package[c][j]
    BY <1>2
  <2>2. rank[m[i].type] < r
    BY <1>6, <1>8, <2>1 DEF Ranks
  <2>3. PICK q \in Nat : q = rank[m[i].type]
    BY <1>4, <1>8
  <2> QED
    BY <1>4, <1>5, <1>6, <2>2, <2>3
<1>9. Inside(f, rank)
  BY <1>3, <1>5, <1>7, <1>8 DEF Inside
<1> QED
  BY <1>3, <1>9

(* Each of the steps of a walk leaves the activations in order, and moves   *)
(* on by as many bytes as it counts.                                        *)
LEMMA StartGood ==
  ASSUME NEW package \in Packages, NEW c \in ClassNames
  PROVE  /\ Good(package, <<Activation(package, c, 0, <<>>)>>)
         /\ Addr(<<Activation(package, c, 0, <<>>)>>) = 0
<1>1. <<>> \in Seq(MemberNames) /\ Len(<<>>) = 0 /\ 0 \in Nat
  OBVIOUS
<1>2. PICK f \in Frames :
        f = Activation(package, c, 0, <<>>) /\ f.base = 0 /\ f.count = 0
  BY <1>1, ActivationFrame
<1>3. PICK rank \in Ranks(package) : TRUE
  BY PackagesAssumption
<1>4. rank[c] \in 0..(Depth - 1)
  BY <1>3 DEF Ranks
<1>5. 0 + 1 + rank[c] <= Depth
  BY <1>4, PackagesAssumption
<1>6. Inside(f, rank)
  BY <1>1, <1>2, <1>5, ActivationInside
<1>7. PICK s : s = <<f>>
  OBVIOUS
<1>8. s \in Seq(Frames) /\ s # <<>> /\ Len(s) = 1 /\ s[1] = f
  BY <1>7
<1>9. Good(package, s)
  BY <1>2, <1>3, <1>6, <1>8 DEF Good
<1>10. Addr(s) = 0
  BY <1>2, <1>8 DEF Addr, TopOf
<1> QED
  BY <1>2, <1>7, <1>9, <1>10

LEMMA EnterGood ==
  ASSUME NEW package \in Packages, NEW s, Good(package, s), Entering(s)
  PROVE  /\ Good(package, Entered(package, s))
         /\ Addr(Entered(package, s)) = Addr(s)
<1>1. PICK n \in Nat : n = Len(s) /\ n >= 1 /\ s \in Seq(Frames) /\ s # <<>>
  BY TopType DEF Good
<1>2. PICK f \in Frames : f = s[n] /\ f = TopOf(s) /\ f.members # <<>>
  BY <1>1, TopType DEF TopOf, Entering, Has
<1>3. PICK m \in Seq(Fields) : m = f.members /\ m # <<>>
  BY <1>2, FrameType
<1>4. PICK x \in Fields : x = FieldOf(s) /\ x = m[1] /\ 1 \in DOMAIN m
  BY <1>2, <1>3, HeadAndTail DEF FieldOf
<1>5. PICK c \in ClassNames : c = x.type
  BY <1>4 DEF Entering
<1>6. PICK rank \in Ranks(package) : \A i \in 1..Len(s) : Inside(s[i], rank)
  BY DEF Good
<1>7. Inside(f, rank)
  <2>1. Inside(s[n], rank)
    <3>1. n \in 1..Len(s)
      BY <1>1
    <3> QED
      BY <1>6, <3>1
  <2> QED
    BY <1>2, <2>1
<1>8. Len(f.path) + 2 + rank[c] <= Depth
  BY <1>3, <1>4, <1>5, <1>7 DEF Inside
<1>9. PICK p \in Seq(MemberNames) : p = PathOf(s) /\ Len(p) = Len(f.path) + 1
  <2>1. PICK q \in Seq(MemberNames) : q = f.path
    BY FrameType
  <2>2. PICK name \in MemberNames : name = x.name
    BY DEF Fields
  <2>3. Append(q, name) \in Seq(MemberNames) /\ Len(Append(q, name)) = Len(q) + 1
    BY Extended
  <2> QED
    BY <1>2, <1>4, <2>1, <2>2, <2>3 DEF PathOf
<1>10. PICK a \in Nat : a = Addr(s) /\ a = f.base + f.count
  BY <1>2, TopType DEF Addr
<1>11. PICK g \in Frames :
         /\ g = Activation(package, c, a, p) /\ g.base = a /\ g.count = 0
  BY ActivationFrame
<1>12. Len(f.path) \in Nat /\ rank[c] \in Nat
  BY <1>6, FrameType, PackagesAssumption DEF Ranks
<1>13. Len(p) + 1 + rank[c] <= Depth
  BY <1>8, <1>9, <1>12, PackagesAssumption
<1>14. Inside(g, rank)
  BY <1>11, <1>13, ActivationInside
<1>15. PICK t : t = Append(s, g)
  OBVIOUS
<1>16. /\ t \in Seq(Frames) /\ Len(t) = n + 1 /\ t[n + 1] = g
       /\ \A i \in 1..n : t[i] = s[i]
  <2>1. /\ t \in Seq(Frames) /\ Len(t) = Len(s) + 1 /\ t[Len(s) + 1] = g
        /\ \A i \in 1..Len(s) : t[i] = s[i]
    BY <1>1, <1>15, Extended
  <2> QED
    BY <1>1, <2>1
<1>17. Good(package, t)
  <2>1. t # <<>> /\ t[1].base = 0
    BY <1>1, <1>16 DEF Good
  <2>2. ASSUME NEW i \in 1..(Len(t) - 1)
        PROVE  t[i].members # <<>> /\ t[i + 1].base = t[i].base + t[i].count
    <3>3. t[n] = s[n]
      BY <1>1, <1>16
    <3>1. CASE i = n
      BY <1>2, <1>10, <1>11, <1>16, <3>1, <3>3
    <3>2. CASE i # n
      <4>1. i \in 1..(Len(s) - 1) /\ i \in 1..n /\ i + 1 \in 1..n
        BY <1>1, <1>16, <3>2
      <4>2. s[i].members # <<>> /\ s[i + 1].base = s[i].base + s[i].count
        BY <4>1 DEF Good
      <4> QED
        BY <1>16, <4>1, <4>2
    <3> QED
      BY <3>1, <3>2
  <2>3. ASSUME NEW i \in 1..Len(t) PROVE Inside(t[i], rank)
    <3>1. CASE i = n + 1
      BY <1>14, <1>16, <3>1
    <3>2. CASE i # n + 1
      <4>1. i \in 1..n
        BY <1>16, <3>2
      <4> QED
        BY <1>1, <1>6, <1>16, <4>1
    <3> QED
      BY <3>1, <3>2
  <2> QED
    BY <1>6, <1>16, <2>1, <2>2, <2>3 DEF Good
<1>18. t = Entered(package, s)
  BY <1>4, <1>5, <1>9, <1>10, <1>11, <1>15 DEF Entered
<1>19. Addr(t) = a
  BY <1>10, <1>11, <1>16 DEF Addr, TopOf
<1> QED
  BY <1>10, <1>17, <1>18, <1>19

(* A member behind which nothing is on the stack, and n bytes. *)
LEMMA PassGood ==
  ASSUME NEW package, NEW s, Good(package, s), Has(s), NEW n \in Nat
  PROVE  /\ Good(package, Passed(s, n)) /\ Addr(Passed(s, n)) = Addr(s) + n
<1>1. PICK l \in Nat : l = Len(s) /\ l >= 1 /\ s \in Seq(Frames) /\ s # <<>>
  BY TopType DEF Good
<1>2. PICK f \in Frames : f = s[l] /\ f = TopOf(s) /\ f.members # <<>>
  BY <1>1, TopType DEF TopOf, Has
<1>3. PICK g \in Frames :
        /\ g = Past(f, n) /\ g.base = f.base /\ g.count = f.count + n
  BY <1>2, PastFrame
<1>4. PICK rank \in Ranks(package) : \A i \in 1..Len(s) : Inside(s[i], rank)
  BY DEF Good
<1>5. Inside(f, rank)
  <2>1. Inside(s[l], rank)
    <3>1. l \in 1..Len(s)
      BY <1>1
    <3> QED
      BY <1>4, <3>1
  <2> QED
    BY <1>2, <2>1
<1>6. Inside(g, rank)
  BY <1>2, <1>3, <1>5, PastInside
<1>0. PICK t : t = Append(Front(s), g)
  OBVIOUS
<1>7. /\ t \in Seq(Frames) /\ Len(t) = l /\ t[l] = g
      /\ \A i \in 1..(l - 1) : t[i] = s[i]
  <2>1. /\ t \in Seq(Frames) /\ Len(t) = Len(s) /\ t[Len(s)] = g
        /\ \A i \in 1..(Len(s) - 1) : t[i] = s[i]
    BY <1>0, <1>1, ReplacedTop
  <2> QED
    BY <1>1, <2>1
<1>8. Good(package, t)
  <2>1. t # <<>>
    BY <1>1, <1>7
  <2>2. t[1].base = 0
    <3>1. CASE l = 1
      BY <1>2, <1>3, <1>7, <3>1 DEF Good
    <3>2. CASE l # 1
      BY <1>1, <1>7, <3>2 DEF Good
    <3> QED
      BY <3>1, <3>2
  <2>3. ASSUME NEW i \in 1..(Len(t) - 1)
        PROVE  t[i].members # <<>> /\ t[i + 1].base = t[i].base + t[i].count
    <3>1. i \in 1..(Len(s) - 1) /\ i \in 1..(l - 1) /\ i + 1 \in 1..l
      BY <1>1, <1>7
    <3>2. s[i].members # <<>> /\ s[i + 1].base = s[i].base + s[i].count
      BY <3>1 DEF Good
    <3>3. t[i + 1].base = s[i + 1].base
      <4>1. CASE i + 1 = l
        BY <1>2, <1>3, <1>7, <4>1
      <4>2. CASE i + 1 # l
        <5>1. i + 1 \in 1..(l - 1)
          BY <3>1, <4>2
        <5> QED
          BY <1>7, <5>1
      <4> QED
        BY <4>1, <4>2
    <3> QED
      BY <1>7, <3>1, <3>2, <3>3
  <2>4. ASSUME NEW i \in 1..Len(t) PROVE Inside(t[i], rank)
    <3>1. CASE i = l
      BY <1>6, <1>7, <3>1
    <3>2. CASE i # l
      <4>1. i \in 1..(l - 1) /\ i \in 1..Len(s)
        BY <1>1, <1>7, <3>2
      <4> QED
        BY <1>4, <1>7, <4>1
    <3> QED
      BY <3>1, <3>2
  <2> QED
    BY <1>4, <1>7, <2>1, <2>2, <2>3, <2>4 DEF Good
<1>9. t = Passed(s, n)
  BY <1>0, <1>2, <1>3 DEF Passed
<1>10. f.base \in Nat /\ f.count \in Nat
  BY FrameType
<1>11. Addr(t) = Addr(s) + n
  BY <1>2, <1>3, <1>7, <1>10 DEF Addr, TopOf
<1> QED
  BY <1>8, <1>9, <1>11

LEMMA LeaveGood ==
  ASSUME NEW package, NEW s, Good(package, s), Leaving(s)
  PROVE  Good(package, Left(s)) /\ Addr(Left(s)) = Addr(s)
<1>1. PICK l \in Nat : l = Len(s) /\ l > 1 /\ s \in Seq(Frames) /\ s # <<>>
  BY TopType DEF Good, Leaving
<1>2. PICK k \in Nat : k = l - 1 /\ k >= 1 /\ k \in 1..l /\ l \in 1..l
  BY <1>1
<1>3. PICK u \in Seq(Frames) :
        u = Front(s) /\ Len(u) = k /\ \A i \in 1..k : u[i] = s[i]
  BY <1>1, <1>2, Shortened
<1>4. s[k].members # <<>> /\ s[l].base = s[k].base + s[k].count
  <2>1. k \in 1..(Len(s) - 1) /\ k + 1 = l
    BY <1>1, <1>2
  <2> QED
    BY <2>1 DEF Good
<1>5. Good(package, u)
  <2>1. u # <<>> /\ u[1].base = 0
    BY <1>1, <1>2, <1>3 DEF Good
  <2>2. ASSUME NEW i \in 1..(Len(u) - 1)
        PROVE  u[i].members # <<>> /\ u[i + 1].base = u[i].base + u[i].count
    <3>1. i \in 1..(Len(s) - 1) /\ i \in 1..k /\ i + 1 \in 1..k
      BY <1>1, <1>2, <1>3
    <3>2. s[i].members # <<>> /\ s[i + 1].base = s[i].base + s[i].count
      BY <3>1 DEF Good
    <3> QED
      BY <1>3, <3>1, <3>2
  <2>3. PICK rank \in Ranks(package) : \A i \in 1..Len(s) : Inside(s[i], rank)
    BY DEF Good
  <2>4. ASSUME NEW i \in 1..Len(u) PROVE Inside(u[i], rank)
    <3>1. i \in 1..k /\ i \in 1..Len(s)
      BY <1>1, <1>2, <1>3
    <3> QED
      BY <1>3, <2>3, <3>1
  <2> QED
    BY <2>1, <2>2, <2>3, <2>4 DEF Good
<1>6. PICK g \in Frames : g = s[k] /\ g = TopOf(u)
  BY <1>1, <1>2, <1>3 DEF TopOf
<1>7. PICK f \in Frames : f = s[l] /\ f = TopOf(s)
  BY <1>1, <1>2 DEF TopOf
<1>8. PICK n \in Nat : n = f.count
  BY FrameType
<1>9. Has(u)
  BY <1>4, <1>6 DEF Has
<1>10. Good(package, Passed(u, n)) /\ Addr(Passed(u, n)) = Addr(u) + n
  BY <1>5, <1>9, PassGood
<1>11. Passed(u, n) = Left(s)
  BY <1>3, <1>7, <1>8 DEF Passed, Left
<1>12. Addr(u) + n = Addr(s)
  BY <1>4, <1>6, <1>7, <1>8 DEF Addr
<1> QED
  BY <1>10, <1>11, <1>12

-----------------------------------------------------------------------------
(* The walk over an object, as getSerializedSize makes it. *)

Bytes(obj, s) == SizeOf(FieldOf(s).type, obj[PathOf(s)])

NextOf(package, obj, s) ==
  IF Entering(s) THEN Entered(package, s)
  ELSE IF Leaving(s) THEN Left(s)
  ELSE Passed(s, Bytes(obj, s))

(* The first k steps of it.  It only goes forward, and behind a member that *)
(* is no object it has gone on by all of its bytes.                         *)
Trace(package, c, obj, k, tr) ==
  /\ k \in Nat
  /\ tr[0] = <<Activation(package, c, 0, <<>>)>>
  /\ \A i \in 0..k : Good(package, tr[i])
  /\ \A i \in 0..(k - 1) : ~Final(tr[i]) /\ tr[i + 1] = NextOf(package, obj, tr[i])
  /\ \A i \in 0..k : \A j \in 0..k :
       /\ i <= j => Addr(tr[i]) <= Addr(tr[j])
       /\ i < j /\ Scalar(tr[i]) => Addr(tr[i]) + Bytes(obj, tr[i]) <= Addr(tr[j])

LEMMA BytesType ==
  ASSUME NEW package, NEW s, Good(package, s), Scalar(s), NEW obj \in Objects
  PROVE  /\ Bytes(obj, s) \in Nat /\ Bytes(obj, s) >= 1
         /\ obj[PathOf(s)] \in Nat /\ PathOf(s) \in Paths
         /\ FieldOf(s).type \notin Varying => FieldOf(s).type \in DOMAIN Width
<1>1. PICK x \in Fields : x = FieldOf(s)
  BY TopType DEF Scalar
<1>2. PICK p \in Paths : p = PathOf(s)
  BY PathType DEF Scalar
<1>3. PICK l \in Nat : l = obj[p]
  BY ObjectsAssumption
<1>4. PICK type \in DOMAIN Width \union Varying : type = x.type
  BY <1>1 DEF Fields, Scalar
<1>5. SizeOf(type, l) \in Nat /\ SizeOf(type, l) >= 1
  <2>1. CASE type \in Varying
    BY <2>1 DEF SizeOf
  <2>2. CASE type \notin Varying
    <3>1. Width[type] \in Nat \ {0}
      BY <1>4, <2>2, PackagesAssumption
    <3>2. SizeOf(type, l) = Width[type]
      BY <2>2 DEF SizeOf
    <3> QED
      BY <3>1, <3>2
  <2> QED
    BY <2>1, <2>2
<1> QED
  BY <1>1, <1>2, <1>3, <1>4, <1>5 DEF Bytes

LEMMA NextGood ==
  ASSUME NEW package \in Packages, NEW s, Good(package, s), ~Final(s),
         NEW obj \in Objects
  PROVE  /\ Good(package, NextOf(package, obj, s))
         /\ Addr(NextOf(package, obj, s)) \in Nat
         /\ Addr(s) <= Addr(NextOf(package, obj, s))
         /\ Scalar(s) =>
              Addr(NextOf(package, obj, s)) = Addr(s) + Bytes(obj, s)
<1>1. PICK a \in Nat : a = Addr(s)
  BY TopType
<1>2. CASE Entering(s)
  <2>1. NextOf(package, obj, s) = Entered(package, s) /\ ~Scalar(s)
    BY <1>2 DEF NextOf, Entering, Scalar
  <2>2. Good(package, Entered(package, s)) /\ Addr(Entered(package, s)) = a
    BY <1>1, <1>2, EnterGood
  <2> QED
    BY <1>1, <2>1, <2>2
<1>3. CASE Leaving(s)
  <2>1. NextOf(package, obj, s) = Left(s) /\ ~Scalar(s)
    BY <1>3 DEF NextOf, Entering, Leaving, Scalar
  <2>2. Good(package, Left(s)) /\ Addr(Left(s)) = a
    BY <1>1, <1>3, LeaveGood
  <2> QED
    BY <1>1, <2>1, <2>2
<1>4. CASE ~Entering(s) /\ ~Leaving(s)
  <2>1. PICK l \in Nat : l = Len(s) /\ (l = 1 \/ l > 1)
    BY TopType
  <2>2. Scalar(s) /\ Has(s)
    <3>1. Has(s)
      BY <1>4, <2>1 DEF Leaving, Final
    <3> QED
      BY <1>4, <3>1 DEF Entering, Scalar
  <2>3. PICK n \in Nat : n = Bytes(obj, s)
    BY <2>2, BytesType
  <2>4. Good(package, Passed(s, n)) /\ Addr(Passed(s, n)) = a + n
    BY <1>1, <2>2, PassGood
  <2>5. NextOf(package, obj, s) = Passed(s, n)
    BY <1>4, <2>3 DEF NextOf
  <2> QED
    BY <1>1, <2>3, <2>4, <2>5
<1> QED
  BY <1>2, <1>3, <1>4

LEMMA TraceStart ==
  ASSUME NEW package \in Packages, NEW c \in ClassNames, NEW obj
  PROVE  \E tr : /\ Trace(package, c, obj, 0, tr)
                 /\ tr[0] = <<Activation(package, c, 0, <<>>)>>
<1>1. PICK s : s = <<Activation(package, c, 0, <<>>)>>
  OBVIOUS
<1>2. Good(package, s) /\ Addr(s) = 0
  BY <1>1, StartGood
<1>3. PICK tr : tr = [i \in {0} |-> s]
  OBVIOUS
<1>4. tr[0] = s
  BY <1>3
<1>5. \A i \in 0..0 : i = 0
  OBVIOUS
<1>6. 0..(0 - 1) = {}
  OBVIOUS
<1>7. \A i \in 0..0 : \A j \in 0..0 :
        Addr(tr[i]) = 0 /\ Addr(tr[j]) = 0 /\ ~(i < j)
  BY <1>2, <1>4, <1>5
<1>8. Trace(package, c, obj, 0, tr)
  <2>1. \A i \in 0..0 : Good(package, tr[i])
    BY <1>2, <1>4, <1>5
  <2> QED
    BY <1>1, <1>4, <1>6, <1>7, <2>1 DEF Trace
<1> QED
  BY <1>1, <1>4, <1>8

LEMMA TraceExtended ==
  ASSUME NEW package \in Packages, NEW c \in ClassNames, NEW obj \in Objects,
         NEW k, NEW tr, Trace(package, c, obj, k, tr), ~Final(tr[k])
  PROVE  \E ext : /\ Trace(package, c, obj, k + 1, ext)
                  /\ ext[k + 1] = NextOf(package, obj, tr[k])
<1>1. k \in Nat /\ k \in 0..k /\ Good(package, tr[k])
  BY DEF Trace
<1>2. PICK next : next = NextOf(package, obj, tr[k])
  OBVIOUS
<1>3. /\ Good(package, next) /\ Addr(next) \in Nat /\ Addr(tr[k]) <= Addr(next)
      /\ Scalar(tr[k]) => Addr(next) = Addr(tr[k]) + Bytes(obj, tr[k])
  BY <1>1, <1>2, NextGood
<1>4. PICK ext : ext = [i \in 0..(k + 1) |-> IF i = k + 1 THEN next ELSE tr[i]]
  OBVIOUS
<1>5. ext[k + 1] = next /\ \A i \in 0..k : ext[i] = tr[i]
  BY <1>1, <1>4
<1>6. \A i \in 0..k : Addr(tr[i]) \in Nat
  BY TopType DEF Trace
<1>7. ext[0] = <<Activation(package, c, 0, <<>>)>>
  BY <1>1, <1>5 DEF Trace
<1>8. ASSUME NEW i \in 0..(k + 1) PROVE Good(package, ext[i])
  <2>1. i = k + 1 \/ i \in 0..k
    BY <1>1
  <2> QED
    BY <1>3, <1>5, <2>1 DEF Trace
<1>9. ASSUME NEW i \in 0..((k + 1) - 1)
      PROVE  ~Final(ext[i]) /\ ext[i + 1] = NextOf(package, obj, ext[i])
  <2>1. CASE i = k
    BY <1>1, <1>2, <1>5, <2>1
  <2>2. CASE i # k
    <3>1. i \in 0..(k - 1) /\ i \in 0..k /\ i + 1 \in 0..k
      BY <1>1, <2>2
    <3>2. ~Final(tr[i]) /\ tr[i + 1] = NextOf(package, obj, tr[i])
      BY <3>1 DEF Trace
    <3> QED
      BY <1>5, <3>1, <3>2
  <2> QED
    BY <2>1, <2>2
<1>10. ASSUME NEW i \in 0..(k + 1), NEW j \in 0..(k + 1)
       PROVE  /\ i <= j => Addr(ext[i]) <= Addr(ext[j])
              /\ i < j /\ Scalar(ext[i]) =>
                   Addr(ext[i]) + Bytes(obj, ext[i]) <= Addr(ext[j])
  <2>1. CASE j = k + 1 /\ i = k + 1
    BY <1>1, <1>3, <1>5, <2>1
  <2>2. CASE j = k + 1 /\ i = k
    BY <1>1, <1>3, <1>5, <1>6, <2>2
  <2>3. CASE j = k + 1 /\ i # k + 1 /\ i # k
    <3>1. i \in 0..k /\ i < k /\ k \in 0..k
      BY <1>1, <2>3
    <3>2. /\ Addr(tr[i]) <= Addr(tr[k])
          /\ Scalar(tr[i]) => Addr(tr[i]) + Bytes(obj, tr[i]) <= Addr(tr[k])
      BY <3>1 DEF Trace
    <3>3. PICK a \in Nat : a = Addr(tr[i])
      BY <1>6, <3>1
    <3>4. PICK b \in Nat : b = Addr(tr[k])
      BY <1>6, <3>1
    <3>5. PICK d \in Nat : d = Addr(next)
      BY <1>3
    <3>6. a <= d /\ (Scalar(tr[i]) => a + Bytes(obj, tr[i]) <= d)
      <4>1. Scalar(tr[i]) => Bytes(obj, tr[i]) \in Nat
        BY <3>1, BytesType DEF Trace
      <4> QED
        BY <1>3, <3>2, <3>3, <3>4, <3>5, <4>1
    <3>7. ext[i] = tr[i] /\ ext[j] = next
      BY <1>5, <2>3, <3>1
    <3> QED
      BY <3>3, <3>5, <3>6, <3>7
  <2>4. CASE j # k + 1 /\ i # k + 1
    <3>1. i \in 0..k /\ j \in 0..k
      BY <1>1, <2>4
    <3>2. ext[i] = tr[i] /\ ext[j] = tr[j]
      BY <1>5, <3>1
    <3> QED
      BY <3>1, <3>2 DEF Trace
  <2>5. CASE j # k + 1 /\ i = k + 1
    BY <1>1, <2>5
  <2> QED
    BY <2>1, <2>2, <2>3, <2>4, <2>5
<1>11. Trace(package, c, obj, k + 1, ext)
  BY <1>1, <1>7, <1>8, <1>9, <1>10 DEF Trace
<1> QED
  BY <1>2, <1>5, <1>11

(* Where the walk ends is the only place of it that is final. *)
LEMMA TraceGoesOn ==
  ASSUME NEW package, NEW c, NEW obj, NEW k, NEW tr,
         Trace(package, c, obj, k, tr), Final(tr[k]), NEW i \in 0..k
  PROVE  /\ Final(tr[i]) => i = k
         /\ ~Final(tr[i]) =>
              /\ i + 1 \in 0..k /\ k \in 0..k
              /\ tr[i + 1] = NextOf(package, obj, tr[i])
<1>1. k \in Nat
  BY DEF Trace
<1>2. i # k => i \in 0..(k - 1)
  BY <1>1
<1>3. i # k => ~Final(tr[i]) /\ tr[i + 1] = NextOf(package, obj, tr[i])
  BY <1>2 DEF Trace
<1> QED
  BY <1>1, <1>3

-----------------------------------------------------------------------------
(* What serialize leaves in the buffer. *)

UnitsOf(obj, s) ==
  IF FieldOf(s).type \in Varying
  THEN {[at |-> Addr(s), len |-> 8, is |-> "length", of |-> PathOf(s)],
        [at |-> Addr(s) + 8, len |-> obj[PathOf(s)], is |-> "contents",
         of |-> PathOf(s)]}
  ELSE {[at |-> Addr(s), len |-> Width[FieldOf(s).type], is |-> "value",
         of |-> PathOf(s)]}

(* The buffer holds what the first i steps of the walk write, no more. *)
HoldsUpTo(obj, tr, i, bytes) ==
  \A u : u \in bytes <=>
           \E j \in 0..(i - 1) : Scalar(tr[j]) /\ u \in UnitsOf(obj, tr[j])

(* Every member of the first i steps was read, from the one it was. *)
ReadUpTo(tr, i, vals) ==
  /\ \A p : p \in DOMAIN vals <=>
              \E j \in 0..(i - 1) : Scalar(tr[j]) /\ p = PathOf(tr[j])
  /\ \A p \in DOMAIN vals : vals[p] = p

LEMMA UnitsType ==
  ASSUME NEW package, NEW s, Good(package, s), Scalar(s), NEW obj \in Objects,
         NEW u \in UnitsOf(obj, s)
  PROVE  /\ u.at \in Nat /\ u.len \in Nat /\ u.of = PathOf(s) /\ u.of \in Paths
         /\ Addr(s) <= u.at /\ u.at + u.len <= Addr(s) + Bytes(obj, s)
         /\ u.is # "contents" => u.at = Addr(s)
<1>1. PICK a \in Nat : a = Addr(s)
  BY TopType
<1>2. PICK x \in Fields : x = FieldOf(s)
  BY TopType DEF Scalar
<1>3. PICK p \in Paths : p = PathOf(s)
  BY PathType DEF Scalar
<1>4. PICK l \in Nat : l = obj[p]
  BY <1>3, BytesType
<1>5. CASE x.type \in Varying
  <2>1. Bytes(obj, s) = 8 + l
    BY <1>2, <1>3, <1>4, <1>5 DEF Bytes, SizeOf
  <2>2. \/ u = [at |-> a, len |-> 8, is |-> "length", of |-> p]
        \/ u = [at |-> a + 8, len |-> l, is |-> "contents", of |-> p]
    BY <1>1, <1>2, <1>3, <1>4, <1>5 DEF UnitsOf
  <2> QED
    BY <1>1, <1>3, <2>1, <2>2
<1>6. CASE x.type \notin Varying
  <2>1. x.type \in DOMAIN Width
    BY <1>2, <1>6, BytesType
  <2>2. PICK w \in Nat : w = Width[x.type]
    BY <2>1, PackagesAssumption
  <2>3. Bytes(obj, s) = w
    BY <1>2, <1>6, <2>2 DEF Bytes, SizeOf
  <2>4. u = [at |-> a, len |-> w, is |-> "value", of |-> p]
    BY <1>1, <1>2, <1>3, <1>6, <2>2 DEF UnitsOf
  <2> QED
    BY <1>1, <1>3, <2>3, <2>4
<1> QED
  BY <1>5, <1>6

(* What was written lies before the place that the walk has come to. *)
LEMMA WrittenBefore ==
  ASSUME NEW package, NEW c, NEW obj \in Objects, NEW k, NEW tr,
         Trace(package, c, obj, k, tr), NEW i \in 0..k, NEW bytes,
         HoldsUpTo(obj, tr, i, bytes), NEW u \in bytes
  PROVE  u.at \in Nat /\ u.len \in Nat /\ u.of \in Paths
           /\ u.at + u.len <= Addr(tr[i])
<1>1. PICK j \in 0..(i - 1) : Scalar(tr[j]) /\ u \in UnitsOf(obj, tr[j])
  BY DEF HoldsUpTo
<1>2. k \in Nat /\ j \in 0..k /\ j < i
  BY DEF Trace
<1>3. Good(package, tr[j]) /\ Good(package, tr[i])
  BY <1>2 DEF Trace
<1>4. /\ u.at \in Nat /\ u.len \in Nat /\ u.of \in Paths
      /\ u.at + u.len <= Addr(tr[j]) + Bytes(obj, tr[j])
  BY <1>1, <1>3, UnitsType
<1>5. Addr(tr[j]) + Bytes(obj, tr[j]) <= Addr(tr[i])
  BY <1>1, <1>2 DEF Trace
<1>6. PICK a \in Nat : a = Addr(tr[j]) + Bytes(obj, tr[j])
  <2>1. Addr(tr[j]) \in Nat /\ Bytes(obj, tr[j]) \in Nat
    BY <1>1, <1>3, TopType, BytesType
  <2> QED
    BY <2>1
<1>7. PICK b \in Nat : b = Addr(tr[i])
  BY <1>3, TopType
<1>8. PICK e \in Nat : e = u.at + u.len
  BY <1>4
<1> QED
  BY <1>4, <1>5, <1>6, <1>7, <1>8

(* What begins where a member does, and is no contents, is of that member. *)
LEMMA FoundIsOf ==
  ASSUME NEW package, NEW c, NEW obj \in Objects, NEW k, NEW tr,
         Trace(package, c, obj, k, tr), NEW bytes, HoldsUpTo(obj, tr, k, bytes),
         NEW i \in 0..k, Scalar(tr[i]),
         NEW u \in bytes, u.is # "contents", u.at = Addr(tr[i])
  PROVE  u.of = PathOf(tr[i])
<1>1. PICK j \in 0..(k - 1) : Scalar(tr[j]) /\ u \in UnitsOf(obj, tr[j])
  BY DEF HoldsUpTo
<1>2. k \in Nat /\ j \in 0..k
  BY DEF Trace
<1>3. Good(package, tr[j]) /\ Good(package, tr[i])
  BY <1>2 DEF Trace
<1>4. u.of = PathOf(tr[j]) /\ u.at = Addr(tr[j])
  BY <1>1, <1>3, UnitsType
<1>5. PICK a \in Nat : a = Addr(tr[i]) /\ a = Addr(tr[j])
  BY <1>3, <1>4, TopType
<1>6. PICK m \in Nat : m = Bytes(obj, tr[j]) /\ m >= 1
  BY <1>1, <1>3, BytesType
<1>7. PICK n \in Nat : n = Bytes(obj, tr[i]) /\ n >= 1
  BY <1>3, BytesType
<1>8. ~(j < i)
  <2>1. j < i => a + m <= a
    BY <1>1, <1>2, <1>5, <1>6 DEF Trace
  <2> QED
    BY <1>5, <1>6, <2>1
<1>9. ~(i < j)
  <2>1. i < j => a + n <= a
    BY <1>2, <1>5, <1>7 DEF Trace
  <2> QED
    BY <1>5, <1>7, <2>1
<1>10. i = j
  BY <1>2, <1>8, <1>9
<1> QED
  BY <1>4, <1>10

(* Another step, by whatever else than a member that is no object. *)
LEMMA NothingWritten ==
  ASSUME NEW obj, NEW tr, NEW i \in Nat, ~Scalar(tr[i]),
         NEW bytes, HoldsUpTo(obj, tr, i, bytes)
  PROVE  HoldsUpTo(obj, tr, i + 1, bytes)
<1>1. \A j : j \in 0..((i + 1) - 1) <=> j \in 0..(i - 1) \/ j = i
  OBVIOUS
<1> QED
  BY <1>1 DEF HoldsUpTo

LEMMA NothingRead ==
  ASSUME NEW tr, NEW i \in Nat, ~Scalar(tr[i]), NEW vals, ReadUpTo(tr, i, vals)
  PROVE  ReadUpTo(tr, i + 1, vals)
<1>1. \A j : j \in 0..((i + 1) - 1) <=> j \in 0..(i - 1) \/ j = i
  OBVIOUS
<1> QED
  BY <1>1 DEF ReadUpTo

LEMMA UnitsWritten ==
  ASSUME NEW obj, NEW tr, NEW i \in Nat, Scalar(tr[i]),
         NEW bytes, HoldsUpTo(obj, tr, i, bytes), NEW new,
         new = bytes \union UnitsOf(obj, tr[i])
  PROVE  HoldsUpTo(obj, tr, i + 1, new)
<1>1. \A j : j \in 0..((i + 1) - 1) <=> j \in 0..(i - 1) \/ j = i
  OBVIOUS
<1>2. \A u : u \in new <=> u \in bytes \/ u \in UnitsOf(obj, tr[i])
  OBVIOUS
<1> QED
  BY <1>1, <1>2 DEF HoldsUpTo

LEMMA MemberRead ==
  ASSUME NEW tr, NEW i \in Nat, Scalar(tr[i]), NEW vals, ReadUpTo(tr, i, vals),
         NEW p, p = PathOf(tr[i]), NEW new,
         new = [q \in DOMAIN vals \union {p} |-> IF q = p THEN p ELSE vals[q]]
  PROVE  ReadUpTo(tr, i + 1, new)
<1>1. \A j : j \in 0..((i + 1) - 1) <=> j \in 0..(i - 1) \/ j = i
  OBVIOUS
<1>2. \A q : q \in DOMAIN new <=> q \in DOMAIN vals \/ q = p
  OBVIOUS
<1>3. \A q \in DOMAIN new : new[q] = q
  BY DEF ReadUpTo
<1> QED
  BY <1>1, <1>2, <1>3 DEF ReadUpTo

-----------------------------------------------------------------------------
(* The inductive invariant. *)

Program == IF phase = "reading" THEN receiver ELSE sender

Agreed == \A c \in ClassNames : Members(sender[c]) = Members(receiver[c])

(* The whole of the walk that getSerializedSize made. *)
Walked(k, tr) ==
  Trace(sender, class, object, k, tr) /\ Final(tr[k]) /\ size = Addr(tr[k])

Types ==
  /\ sender \in Packages /\ receiver \in Packages
  /\ class \in ClassNames /\ object \in Objects
  /\ phase \in Walks \union Ends
  /\ phase \in Walks <=> stack # <<>>
  /\ phase \in Walks => Good(Program, stack)
  /\ \A u \in buffer : u.at \in Nat /\ u.len \in Nat /\ u.of \in Paths
  /\ size \in Nat /\ consumed \in Nat
  /\ \A p \in DOMAIN values : p \in Paths /\ values[p] \in Paths \union {Junk}

Sizing ==
  phase = "sizing" =>
    /\ buffer = {} /\ DOMAIN values = {}
    /\ \E k, tr : Trace(sender, class, object, k, tr) /\ stack = tr[k]

(* serialize is at a place of that walk, and has written all up to there. *)
Writing ==
  phase = "writing" =>
    /\ DOMAIN values = {}
    /\ \E k, tr : Walked(k, tr) /\
         \E i \in 0..k : stack = tr[i] /\ HoldsUpTo(object, tr, i, buffer)

(* All of it was written; and internalize is at a place of the same walk, if *)
(* it is the same, and has read all up to there.                             *)
Reading ==
  phase = "reading" =>
    \E k, tr :
      /\ Walked(k, tr) /\ HoldsUpTo(object, tr, k, buffer)
      /\ Agreed => \E i \in 0..k : stack = tr[i] /\ ReadUpTo(tr, i, values)

Ended ==
  /\ phase # "thrown"
  /\ phase # "sizing" => \A u \in buffer : u.at + u.len <= size
  /\ phase \in {"reading", "read", "lost"} =>
       ClassHash(sender, class) = ClassHash(receiver, class)
  /\ Agreed => phase # "lost" /\ (phase = "read" => Restored)

IInv == Types /\ Sizing /\ Writing /\ Reading /\ Ended

LEMMA Names ==
  /\ top = TopOf(stack) /\ HasField = Has(stack) /\ field = FieldOf(stack)
  /\ path = PathOf(stack) /\ address = Addr(stack)
BY DEF top, HasField, field, path, address, TopOf, Has, FieldOf, PathOf, Addr, Last

LEMMA AdvanceIs ==
  ASSUME NEW n, Advance(n)
  PROVE  stack' = Passed(stack, n)
BY Names DEF Advance, Passed

LEMMA ScalarNext ==
  ASSUME NEW package, NEW obj, NEW s, Scalar(s)
  PROVE  ~Final(s) /\ NextOf(package, obj, s) = Passed(s, Bytes(obj, s))
BY DEF NextOf, Scalar, Final, Entering, Leaving

(* Two programs that agree on the members make the same steps. *)
LEMMA SameNext ==
  ASSUME Agreed, NEW obj, NEW s
  PROVE  NextOf(receiver, obj, s) = NextOf(sender, obj, s)
<1>1. CASE Entering(s)
  <2>1. PICK c \in ClassNames : c = FieldOf(s).type
    BY <1>1 DEF Entering
  <2>2. Members(sender[c]) = Members(receiver[c])
    BY DEF Agreed
  <2>3. Entered(receiver, s) = Entered(sender, s)
    BY <2>1, <2>2 DEF Entered, Activation
  <2> QED
    BY <1>1, <2>3 DEF NextOf
<1>2. CASE ~Entering(s)
  BY <1>2 DEF NextOf
<1> QED
  BY <1>1, <1>2

LEMMA SameStart ==
  ASSUME Agreed, class \in ClassNames
  PROVE  Activation(receiver, class, 0, <<>>) = Activation(sender, class, 0, <<>>)
BY DEF Agreed, Activation

LEMMA InitIInv ==
  ASSUME Init
  PROVE  IInv
<1> USE DEF Init
<1>1. Good(sender, stack) /\ stack # <<>>
  BY StartGood
<1>2. Types
  BY <1>1 DEF Types, Program, Walks, Ends
<1>3. Sizing
  BY TraceStart DEF Sizing
<1>4. Writing /\ Reading
  BY DEF Writing, Reading
<1>5. Ended
  BY DEF Ended
<1> QED
  BY <1>2, <1>3, <1>4, <1>5 DEF IInv

(* Any step of a walk that neither writes nor reads. *)
LEMMA Moves ==
  ASSUME IInv, phase \in Walks, ~Final(stack),
         phase = "sizing" \/ ~Scalar(stack),
         stack' = NextOf(Program, object, stack),
         UNCHANGED <<programs, phase, size, buffer, consumed, values>>
  PROVE  IInv'
<1>0. /\ sender' = sender /\ receiver' = receiver /\ class' = class
      /\ object' = object /\ phase' = phase /\ size' = size /\ buffer' = buffer
      /\ consumed' = consumed /\ values' = values
  BY DEF programs
<1>1. /\ sender \in Packages /\ receiver \in Packages /\ class \in ClassNames
      /\ object \in Objects /\ Program \in Packages /\ Good(Program, stack)
  BY DEF IInv, Types, Program
<1>2. Good(Program, stack')
  BY <1>1, NextGood
<1>3. Types'
  <2>1. stack' # <<>>
    BY <1>2 DEF Good
  <2>2. Program' = Program
    BY <1>0 DEF Program
  <2> QED
    BY <1>0, <1>2, <2>1, <2>2 DEF IInv, Types
<1>4. Sizing'
  <2> SUFFICES ASSUME phase = "sizing"
      PROVE  \E k, tr : Trace(sender, class, object, k, tr) /\ stack' = tr[k]
    BY <1>0 DEF IInv, Sizing
  <2>1. PICK k, tr : Trace(sender, class, object, k, tr) /\ stack = tr[k]
    BY DEF IInv, Sizing
  <2>2. Program = sender
    BY DEF Program
  <2>3. PICK ext : /\ Trace(sender, class, object, k + 1, ext)
                   /\ ext[k + 1] = NextOf(sender, object, tr[k])
    BY <1>1, <2>1, TraceExtended
  <2> QED
    BY <2>1, <2>2, <2>3
<1>5. Writing'
  <2> SUFFICES ASSUME phase = "writing"
      PROVE  \E k, tr : Walked(k, tr) /\
               \E i \in 0..k : stack' = tr[i] /\ HoldsUpTo(object, tr, i, buffer)
    BY <1>0 DEF IInv, Writing, Walked
  <2>1. PICK k, tr : Walked(k, tr) /\
          \E i \in 0..k : stack = tr[i] /\ HoldsUpTo(object, tr, i, buffer)
    BY DEF IInv, Writing
  <2>2. PICK i \in 0..k : stack = tr[i] /\ HoldsUpTo(object, tr, i, buffer)
    BY <2>1
  <2>3. i + 1 \in 0..k /\ tr[i + 1] = NextOf(sender, object, tr[i])
    BY <2>1, <2>2, TraceGoesOn DEF Walked
  <2>4. Program = sender /\ ~Scalar(tr[i])
    BY <2>2 DEF Program
  <2>5. HoldsUpTo(object, tr, i + 1, buffer)
    BY <2>2, <2>4, NothingWritten
  <2> QED
    BY <2>1, <2>2, <2>3, <2>4, <2>5
<1>6. Reading'
  <2> SUFFICES ASSUME phase = "reading"
      PROVE  \E k, tr :
               /\ Walked(k, tr) /\ HoldsUpTo(object, tr, k, buffer)
               /\ Agreed => \E i \in 0..k : stack' = tr[i] /\ ReadUpTo(tr, i, values)
    BY <1>0 DEF Reading, Walked, Agreed
  <2>1. PICK k, tr :
          /\ Walked(k, tr) /\ HoldsUpTo(object, tr, k, buffer)
          /\ Agreed => \E i \in 0..k : stack = tr[i] /\ ReadUpTo(tr, i, values)
    BY DEF IInv, Reading
  <2>2. ASSUME Agreed
        PROVE  \E i \in 0..k : stack' = tr[i] /\ ReadUpTo(tr, i, values)
    <3>1. PICK i \in 0..k : stack = tr[i] /\ ReadUpTo(tr, i, values)
      BY <2>1, <2>2
    <3>2. i + 1 \in 0..k /\ tr[i + 1] = NextOf(sender, object, tr[i])
      BY <2>1, <3>1, TraceGoesOn DEF Walked
    <3>3. Program = receiver /\ ~Scalar(tr[i])
      BY <3>1 DEF Program
    <3>4. stack' = tr[i + 1]
      BY <2>2, <3>1, <3>2, <3>3, SameNext
    <3>5. ReadUpTo(tr, i + 1, values)
      BY <3>1, <3>3, NothingRead
    <3> QED
      BY <3>2, <3>4, <3>5
  <2> QED
    BY <2>1, <2>2
<1>7. Ended'
  BY <1>0 DEF IInv, Ended, Agreed, Restored
<1> QED
  BY <1>3, <1>4, <1>5, <1>6, <1>7 DEF IInv

-----------------------------------------------------------------------------
(* Each action keeps the invariant. *)

LEMMA EnterObjectIInv ==
  ASSUME IInv, EnterObject
  PROVE  IInv'
<1>1. phase \in Walks /\ Entering(stack)
  BY Names DEF EnterObject, Entering
<1>2. stack' = NextOf(Program, object, stack)
  <2>1. stack' = Entered(Program, stack)
    BY Names DEF EnterObject, Entered, Program
  <2> QED
    BY <1>1, <2>1 DEF NextOf
<1>3. ~Final(stack) /\ ~Scalar(stack)
  BY <1>1 DEF Final, Scalar, Entering
<1>4. UNCHANGED <<programs, phase, size, buffer, consumed, values>>
  BY DEF EnterObject
<1> QED
  BY <1>1, <1>2, <1>3, <1>4, Moves

LEMMA LeaveObjectIInv ==
  ASSUME IInv, LeaveObject
  PROVE  IInv'
<1>1. phase \in Walks /\ Leaving(stack)
  BY Names DEF LeaveObject, Leaving
<1>2. stack' = NextOf(Program, object, stack)
  <2>1. stack' = Left(stack)
    BY Names DEF LeaveObject, Left, TopOf, Last
  <2>2. ~Entering(stack)
    BY <1>1 DEF Entering, Leaving
  <2> QED
    BY <1>1, <2>1, <2>2 DEF NextOf
<1>3. ~Final(stack) /\ ~Scalar(stack)
  <2>1. PICK l \in Nat : l = Len(stack) /\ l > 1
    BY <1>1, TopType DEF IInv, Types, Leaving
  <2> QED
    BY <1>1, <2>1 DEF Final, Scalar, Leaving
<1>4. UNCHANGED <<programs, phase, size, buffer, consumed, values>>
  BY DEF LeaveObject
<1> QED
  BY <1>1, <1>2, <1>3, <1>4, Moves

LEMMA SizeFieldIInv ==
  ASSUME IInv, SizeField
  PROVE  IInv'
<1>1. phase = "sizing" /\ Scalar(stack)
  BY Names DEF SizeField, InWalk, Scalar
<1>2. stack' = Passed(stack, Bytes(object, stack))
  BY Names, AdvanceIs DEF SizeField, Bytes
<1>3. UNCHANGED <<programs, phase, size, buffer, consumed, values>>
  BY DEF SizeField
<1>4. phase \in Walks
  BY <1>1 DEF Walks
<1> QED
  BY <1>1, <1>2, <1>3, <1>4, ScalarNext, Moves

(* Where a walk ends, it has counted what it came to. *)
LEMMA FinalCount ==
  ASSUME NEW package, Good(package, stack), ~HasField, Len(stack) = 1
  PROVE  Final(stack) /\ top.count = Addr(stack)
<1>1. stack[1].base = 0 /\ TopOf(stack) \in Frames
  BY TopType DEF Good
<1>2. PICK f \in Frames : f = stack[1] /\ f = TopOf(stack)
  BY <1>1 DEF TopOf
<1>3. f.count \in Nat
  BY FrameType
<1> QED
  BY <1>1, <1>2, <1>3, Names DEF Final, Addr

LEMMA EndSizingIInv ==
  ASSUME IInv, EndSizing
  PROVE  IInv'
<1>0. /\ sender' = sender /\ receiver' = receiver /\ class' = class
      /\ object' = object /\ buffer' = buffer
      /\ consumed' = consumed /\ values' = values
      /\ phase = "sizing" /\ phase' = "writing" /\ size' = top.count
      /\ stack' = <<Activation(sender, class, 0, <<>>)>>
  BY DEF EndSizing, AtEnd, programs
<1>1. /\ sender \in Packages /\ class \in ClassNames /\ Good(sender, stack)
      /\ buffer = {} /\ DOMAIN values = {}
  BY <1>0 DEF IInv, Types, Program, Sizing, Walks
<1>2. Final(stack) /\ size' = Addr(stack) /\ Addr(stack) \in Nat
  BY <1>0, <1>1, FinalCount, TopType DEF EndSizing, AtEnd
<1>3. Good(sender, stack') /\ stack' # <<>>
  BY <1>0, <1>1, StartGood
<1>4. Types'
  <2>1. Program' = sender
    BY <1>0 DEF Program
  <2> QED
    BY <1>0, <1>2, <1>3, <2>1 DEF IInv, Types, Walks
<1>5. Sizing' /\ Reading'
  BY <1>0 DEF Sizing, Reading
<1>6. Writing'
  <2>1. PICK k, tr : Trace(sender, class, object, k, tr) /\ stack = tr[k]
    BY <1>0 DEF IInv, Sizing
  <2>2. Walked(k, tr)'
    BY <1>0, <1>2, <2>1 DEF Walked
  <2>3. 0 \in 0..k /\ stack' = tr[0]
    BY <1>0, <2>1 DEF Trace
  <2>4. HoldsUpTo(object, tr, 0, buffer)
    <3>1. 0..(0 - 1) = {}
      OBVIOUS
    <3> QED
      BY <1>1, <3>1 DEF HoldsUpTo
  <2>5. Walked(k, tr)' /\ 0 \in 0..k /\ stack' = tr[0]
          /\ HoldsUpTo(object', tr, 0, buffer')
    BY <1>0, <2>2, <2>3, <2>4
  <2>6. DOMAIN values' = {}
    BY <1>0, <1>1
  <2> QED
    BY <2>5, <2>6 DEF Writing
<1>7. Ended'
  BY <1>0, <1>1 DEF Ended
<1> QED
  BY <1>4, <1>5, <1>6, <1>7 DEF IInv

(* Serialization::write returns what the generator computed.               *)
LEMMA ReturnsSize ==
  ASSUME NEW type, NEW length
  PROVE  WriteReturns(type, length) = SizeOf(type, length)
BY DEF WriteReturns, SizeOf

LEMMA SerializeFieldIInv ==
  ASSUME IInv, SerializeField
  PROVE  IInv'
<1>0. /\ sender' = sender /\ receiver' = receiver /\ class' = class
      /\ object' = object /\ phase' = phase /\ size' = size
      /\ consumed' = consumed /\ values' = values /\ phase = "writing"
  BY DEF SerializeField, InWalk, programs
<1>1. /\ sender \in Packages /\ class \in ClassNames /\ object \in Objects
      /\ Good(sender, stack)
  BY <1>0 DEF IInv, Types, Program, Walks
<1>2. Scalar(stack)
  BY Names DEF SerializeField, InWalk, Scalar
<1>3. stack' = NextOf(sender, object, stack) /\ ~Final(stack)
  <2>1. stack' = Passed(stack, Bytes(object, stack))
    BY Names, AdvanceIs, ReturnsSize DEF SerializeField, Bytes
  <2> QED
    BY <1>2, <2>1, ScalarNext
<1>4. PICK units : units = UnitsOf(object, stack)
  OBVIOUS
<1>5. buffer' = {old \in buffer : \A u \in units :
                   old.at + old.len <= u.at \/ u.at + u.len <= old.at}
                \union units
  <2>1. Written(field.type, address) = units
    BY <1>4, Names DEF Written, UnitsOf
  <2> QED
    BY <2>1 DEF SerializeField
<1>6. PICK k, tr : Walked(k, tr) /\
        \E i \in 0..k : stack = tr[i] /\ HoldsUpTo(object, tr, i, buffer)
  BY <1>0 DEF IInv, Writing
<1>7. PICK i \in 0..k : stack = tr[i] /\ HoldsUpTo(object, tr, i, buffer)
  BY <1>6
<1>8. /\ i + 1 \in 0..k /\ k \in 0..k /\ i \in Nat /\ i + 1 <= k
      /\ tr[i + 1] = NextOf(sender, object, tr[i])
  <2>1. k \in Nat
    BY <1>6 DEF Walked, Trace
  <2> QED
    BY <1>3, <1>6, <1>7, <2>1, TraceGoesOn DEF Walked
<1>9. ASSUME NEW old \in buffer, NEW u \in units
      PROVE  old.at + old.len <= u.at
  <2>1. /\ old.at \in Nat /\ old.len \in Nat
        /\ old.at + old.len <= Addr(tr[i])
    BY <1>1, <1>6, <1>7, WrittenBefore DEF Walked
  <2>2. u.at \in Nat /\ Addr(tr[i]) <= u.at
    BY <1>1, <1>2, <1>4, <1>7, UnitsType
  <2>3. Addr(tr[i]) \in Nat
    BY <1>1, <1>7, TopType
  <2> QED
    BY <2>1, <2>2, <2>3
<1>10. buffer' = buffer \union UnitsOf(object, tr[i])
  BY <1>4, <1>5, <1>7, <1>9
<1>11. HoldsUpTo(object, tr, i + 1, buffer')
  BY <1>2, <1>7, <1>8, <1>10, UnitsWritten
<1>12. ASSUME NEW u \in buffer'
       PROVE  /\ u.at \in Nat /\ u.len \in Nat /\ u.of \in Paths
              /\ u.at + u.len <= size
  <2>1. /\ u.at \in Nat /\ u.len \in Nat /\ u.of \in Paths
        /\ u.at + u.len <= Addr(tr[i + 1])
    BY <1>1, <1>6, <1>8, <1>11, WrittenBefore DEF Walked
  <2>2. Addr(tr[i + 1]) <= Addr(tr[k]) /\ size = Addr(tr[k])
    BY <1>6, <1>8 DEF Walked, Trace
  <2>3. Addr(tr[i + 1]) \in Nat /\ Addr(tr[k]) \in Nat
    BY <1>6, <1>8, TopType DEF Walked, Trace
  <2> QED
    BY <2>1, <2>2, <2>3
<1>13. Good(sender, stack') /\ stack' # <<>>
  <2>1. Good(sender, stack')
    BY <1>1, <1>3, NextGood
  <2> QED
    BY <2>1 DEF Good
<1>14. Types'
  <2>1. Program' = sender
    BY <1>0 DEF Program
  <2> QED
    BY <1>0, <1>12, <1>13, <2>1 DEF IInv, Types, Walks
<1>15. Sizing' /\ Reading'
  BY <1>0 DEF Sizing, Reading
<1>16. Writing'
  <2>1. Walked(k, tr)'
    BY <1>0, <1>6 DEF Walked
  <2>2. stack' = tr[i + 1] /\ HoldsUpTo(object', tr, i + 1, buffer')
    BY <1>0, <1>3, <1>7, <1>8, <1>11
  <2>3. DOMAIN values' = {}
    BY <1>0 DEF IInv, Writing
  <2> QED
    BY <1>8, <2>1, <2>2, <2>3 DEF Writing
<1>17. Ended'
  BY <1>0, <1>12 DEF Ended
<1> QED
  BY <1>14, <1>15, <1>16, <1>17 DEF IInv

LEMMA EndSerializeIInv ==
  ASSUME IInv, EndSerialize
  PROVE  IInv'
<1>0. /\ sender' = sender /\ receiver' = receiver /\ class' = class
      /\ object' = object /\ size' = size /\ buffer' = buffer
      /\ consumed' = consumed /\ values' = values /\ phase = "writing"
  BY DEF EndSerialize, AtEnd, programs
<1>1. /\ sender \in Packages /\ receiver \in Packages /\ class \in ClassNames
      /\ object \in Objects /\ Good(sender, stack) /\ DOMAIN values = {}
  BY <1>0 DEF IInv, Types, Program, Writing, Walks
<1>2. Final(stack) /\ top.count = Addr(stack)
  BY <1>1, FinalCount DEF EndSerialize, AtEnd
<1>3. PICK k, tr : Walked(k, tr) /\
        \E i \in 0..k : stack = tr[i] /\ HoldsUpTo(object, tr, i, buffer)
  BY <1>0 DEF IInv, Writing
<1>4. PICK i \in 0..k : stack = tr[i] /\ HoldsUpTo(object, tr, i, buffer)
  BY <1>3
<1>5. i = k
  BY <1>2, <1>3, <1>4, TraceGoesOn DEF Walked
<1>6. top.count = size /\ HoldsUpTo(object, tr, k, buffer)
  BY <1>2, <1>3, <1>4, <1>5 DEF Walked
<1>7. CASE ClassHash(sender, class) # ClassHash(receiver, class)
  <2>1. phase' = "refused" /\ stack' = <<>>
    BY <1>6, <1>7 DEF EndSerialize
  <2>2. Types'
    BY <1>0, <2>1 DEF IInv, Types, Walks, Ends
  <2>3. Sizing' /\ Writing' /\ Reading'
    BY <2>1 DEF Sizing, Writing, Reading
  <2>4. Ended'
    BY <1>0, <2>1 DEF IInv, Ended
  <2> QED
    BY <2>2, <2>3, <2>4 DEF IInv
<1>8. CASE ClassHash(sender, class) = ClassHash(receiver, class)
  <2>1. phase' = "reading" /\ stack' = <<Activation(receiver, class, 0, <<>>)>>
    BY <1>6, <1>8 DEF EndSerialize
  <2>2. Good(receiver, stack') /\ stack' # <<>>
    BY <1>1, <2>1, StartGood
  <2>3. Types'
    <3>1. Program' = receiver
      BY <1>0, <2>1 DEF Program
    <3> QED
      BY <1>0, <2>1, <2>2, <3>1 DEF IInv, Types, Walks
  <2>4. Sizing' /\ Writing'
    BY <2>1 DEF Sizing, Writing
  <2>5. Reading'
    <3>1. Walked(k, tr)' /\ HoldsUpTo(object', tr, k, buffer')
      BY <1>0, <1>3, <1>6 DEF Walked
    <3>2. ASSUME Agreed'
          PROVE  0 \in 0..k /\ stack' = tr[0] /\ ReadUpTo(tr, 0, values')
      <4>1. Agreed
        BY <1>0, <3>2 DEF Agreed
      <4>2. 0 \in 0..k /\ tr[0] = <<Activation(sender, class, 0, <<>>)>>
        BY <1>3 DEF Walked, Trace
      <4>3. stack' = tr[0]
        BY <1>1, <2>1, <4>1, <4>2, SameStart
      <4>4. ReadUpTo(tr, 0, values')
        <5>1. 0..(0 - 1) = {}
          OBVIOUS
        <5> QED
          BY <1>0, <1>1, <5>1 DEF ReadUpTo
      <4> QED
        BY <4>2, <4>3, <4>4
    <3> QED
      BY <3>1, <3>2 DEF Reading
  <2>6. Ended'
    BY <1>0, <1>8, <2>1 DEF IInv, Ended
  <2> QED
    BY <2>3, <2>4, <2>5, <2>6 DEF IInv
<1> QED
  BY <1>7, <1>8

(* Some unit of a member begins where it does, and tells which it is. *)
LEMMA UnitOfMember ==
  ASSUME NEW obj, NEW s
  PROVE  \E u \in UnitsOf(obj, s) :
           /\ u.at = Addr(s) /\ u.of = PathOf(s)
           /\ FieldOf(s).type \in Varying => u.is = "length" /\ u.len = 8
           /\ FieldOf(s).type \notin Varying =>
                u.is = "value" /\ u.len = Width[FieldOf(s).type]
<1>1. CASE FieldOf(s).type \in Varying
  <2>1. PICK u : u = [at |-> Addr(s), len |-> 8, is |-> "length", of |-> PathOf(s)]
    OBVIOUS
  <2>2. u \in UnitsOf(obj, s)
    BY <1>1, <2>1 DEF UnitsOf
  <2>3. u.at = Addr(s) /\ u.of = PathOf(s) /\ u.is = "length" /\ u.len = 8
    BY <2>1
  <2> QED
    BY <1>1, <2>2, <2>3
<1>2. CASE FieldOf(s).type \notin Varying
  <2>1. PICK u : u = [at |-> Addr(s), len |-> Width[FieldOf(s).type],
                      is |-> "value", of |-> PathOf(s)]
    OBVIOUS
  <2>2. u \in UnitsOf(obj, s)
    BY <1>2, <2>1 DEF UnitsOf
  <2>3. /\ u.at = Addr(s) /\ u.of = PathOf(s) /\ u.is = "value"
        /\ u.len = Width[FieldOf(s).type]
    BY <2>1
  <2> QED
    BY <1>2, <2>2, <2>3
<1> QED
  BY <1>1, <1>2

(* A receiver that agrees on the members finds each where it looks for it, *)
(* and finds no other there.                                               *)
LEMMA FoundWhereWritten ==
  ASSUME IInv, phase = "reading", Agreed, Scalar(stack)
  PROVE  /\ UnitsOf(object, stack) \subseteq buffer
         /\ \A u \in buffer :
              u.is # "contents" /\ u.at = Addr(stack) => u.of = PathOf(stack)
<1>1. object \in Objects
  BY DEF IInv, Types
<1>2. PICK k, tr :
        /\ Walked(k, tr) /\ HoldsUpTo(object, tr, k, buffer)
        /\ Agreed => \E i \in 0..k : stack = tr[i] /\ ReadUpTo(tr, i, values)
  BY DEF IInv, Reading
<1>3. PICK i \in 0..k : stack = tr[i]
  BY <1>2
<1>4. ~Final(tr[i])
  BY <1>3 DEF Final, Scalar
<1>5. i \in 0..(k - 1)
  <2>1. k \in Nat /\ i + 1 \in 0..k
    BY <1>2, <1>3, <1>4, TraceGoesOn DEF Walked, Trace
  <2> QED
    BY <2>1
<1>6. UnitsOf(object, stack) \subseteq buffer
  BY <1>2, <1>3, <1>5 DEF HoldsUpTo
<1>7. ASSUME NEW u \in buffer, u.is # "contents", u.at = Addr(stack)
      PROVE  u.of = PathOf(stack)
  BY <1>1, <1>2, <1>3, <1>7, FoundIsOf DEF Walked
<1> QED
  BY <1>6, <1>7

(* A member that was read, from whatever it was. *)
LEMMA StoredIInv ==
  ASSUME IInv, phase = "reading", Scalar(stack),
         NEW source \in Paths \union {Junk}, NEW n \in Nat,
         stack' = Passed(stack, n), Store(source),
         Agreed => source = PathOf(stack) /\ n = Bytes(object, stack),
         UNCHANGED <<programs, phase, size, buffer, consumed>>
  PROVE  IInv'
<1>0. /\ sender' = sender /\ receiver' = receiver /\ class' = class
      /\ object' = object /\ phase' = phase /\ size' = size /\ buffer' = buffer
      /\ consumed' = consumed
  BY DEF programs
<1>1. /\ receiver \in Packages /\ object \in Objects /\ Good(receiver, stack)
  BY DEF IInv, Types, Program, Walks
<1>2. PICK p \in Paths : p = PathOf(stack)
  BY <1>1, PathType DEF Scalar
<1>3. values' = [q \in DOMAIN values \union {p} |->
                   IF q = p THEN source ELSE values[q]]
  BY <1>2, Names DEF Store
<1>4. Types'
  <2>1. Good(receiver, stack') /\ stack' # <<>>
    <3>1. Has(stack)
      BY DEF Scalar
    <3>2. Good(receiver, stack')
      BY <1>1, <3>1, PassGood
    <3> QED
      BY <3>2 DEF Good
  <2>2. \A q \in DOMAIN values' : q \in Paths /\ values'[q] \in Paths \union {Junk}
    BY <1>2, <1>3 DEF IInv, Types
  <2>3. Program' = receiver
    BY <1>0 DEF Program
  <2> QED
    BY <1>0, <2>1, <2>2, <2>3 DEF IInv, Types, Walks
<1>5. Sizing' /\ Writing'
  BY <1>0 DEF Sizing, Writing
<1>6. Reading'
  <2>1. PICK k, tr :
          /\ Walked(k, tr) /\ HoldsUpTo(object, tr, k, buffer)
          /\ Agreed => \E i \in 0..k : stack = tr[i] /\ ReadUpTo(tr, i, values)
    BY DEF IInv, Reading
  <2>2. Walked(k, tr)' /\ HoldsUpTo(object', tr, k, buffer')
    BY <1>0, <2>1 DEF Walked
  <2>3. ASSUME Agreed'
        PROVE  \E i \in 0..k : stack' = tr[i] /\ ReadUpTo(tr, i, values')
    <3>0. Agreed
      BY <1>0, <2>3 DEF Agreed
    <3>1. PICK i \in 0..k : stack = tr[i] /\ ReadUpTo(tr, i, values)
      BY <2>1, <3>0
    <3>2. ~Final(stack) /\ stack' = NextOf(sender, object, stack)
      BY <3>0, ScalarNext
    <3>3. i \in Nat /\ i + 1 \in 0..k /\ tr[i + 1] = stack'
      BY <2>1, <3>1, <3>2, TraceGoesOn DEF Walked
    <3>4. values' = [q \in DOMAIN values \union {p} |->
                       IF q = p THEN p ELSE values[q]]
      BY <1>2, <1>3, <3>0
    <3>5. ReadUpTo(tr, i + 1, values')
      <4>1. Scalar(tr[i]) /\ p = PathOf(tr[i])
        BY <1>2, <3>1
      <4> HIDE <1>3
      <4> QED
        BY <3>1, <3>3, <3>4, <4>1, MemberRead
    <3> QED
      BY <3>3, <3>5
  <2> QED
    BY <2>2, <2>3 DEF Reading
<1>7. Ended'
  BY <1>0 DEF IInv, Ended
<1> QED
  BY <1>4, <1>5, <1>6, <1>7 DEF IInv

LEMMA InternalizeValueIInv ==
  ASSUME IInv, InternalizeValue
  PROVE  IInv'
<1>1. phase = "reading" /\ Scalar(stack) /\ FieldOf(stack).type \notin Varying
  BY Names DEF InternalizeValue, InWalk, Scalar
<1>2. Good(receiver, stack) /\ object \in Objects
  BY <1>1 DEF IInv, Types, Program, Walks
<1>3. PICK w : w = Width[FieldOf(stack).type]
  OBVIOUS
<1>4. w \in Nat /\ w = Bytes(object, stack)
  <2>1. FieldOf(stack).type \in DOMAIN Width
    BY <1>1, <1>2, BytesType
  <2> QED
    BY <1>1, <1>3, <2>1, PackagesAssumption DEF Bytes, SizeOf
<1>5. PICK found : found = At("value", w)
  OBVIOUS
<1>6. found = {u \in buffer : u.is = "value" /\ u.at = Addr(stack) /\ u.len = w}
  BY <1>5, Names DEF At
<1>7. PICK source :
        source = IF found = {} THEN Junk ELSE (CHOOSE u \in found : TRUE).of
  OBVIOUS
<1>8. Store(source) /\ stack' = Passed(stack, w)
  BY <1>3, <1>5, <1>7, Names, AdvanceIs DEF InternalizeValue
<1>9. found # {} => \E u \in found : source = u.of
  <2> SUFFICES ASSUME found # {} PROVE \E u \in found : source = u.of
    OBVIOUS
  <2>1. (CHOOSE u \in found : TRUE) \in found
    OBVIOUS
  <2> QED
    BY <1>7, <2>1
<1>10. source \in Paths \union {Junk}
  BY <1>6, <1>7, <1>9 DEF IInv, Types
<1>11. ASSUME Agreed
       PROVE  source = PathOf(stack)
  <2>1. PICK u \in UnitsOf(object, stack) :
          u.at = Addr(stack) /\ u.is = "value" /\ u.len = w
    BY <1>1, <1>3, UnitOfMember
  <2>2. u \in found
    BY <1>1, <1>6, <1>11, <2>1, FoundWhereWritten
  <2> QED
    BY <1>1, <1>6, <1>9, <1>11, <2>2, FoundWhereWritten
<1>12. UNCHANGED <<programs, phase, size, buffer, consumed>>
  BY DEF InternalizeValue
<1> QED
  BY <1>1, <1>4, <1>8, <1>10, <1>11, <1>12, StoredIInv

LEMMA InternalizeContentsIInv ==
  ASSUME IInv, InternalizeContents
  PROVE  IInv'
<1>1. phase = "reading" /\ Scalar(stack) /\ FieldOf(stack).type \in Varying
  BY Names DEF InternalizeContents, InWalk, Scalar
<1>2. object \in Objects
  BY DEF IInv, Types
<1>3. PICK u \in At("length", 8) : Store(u.of) /\ Advance(8 + object[u.of])
  BY DEF InternalizeContents
<1>4. u \in buffer /\ u.is = "length" /\ u.at = Addr(stack)
  BY <1>3, Names DEF At
<1>5. PICK source \in Paths : source = u.of
  BY <1>4 DEF IInv, Types
<1>6. PICK n \in Nat : n = 8 + object[source]
  BY <1>2, ObjectsAssumption
<1>7. Store(source) /\ stack' = Passed(stack, n)
  BY <1>3, <1>5, <1>6, AdvanceIs
<1>8. Agreed => source = PathOf(stack)
  BY <1>1, <1>4, <1>5, FoundWhereWritten
<1>9. source = PathOf(stack) => n = Bytes(object, stack)
  BY <1>1, <1>6 DEF Bytes, SizeOf
<1>10. UNCHANGED <<programs, phase, size, buffer, consumed>>
  BY DEF InternalizeContents
<1> QED
  BY <1>1, <1>7, <1>8, <1>9, <1>10, StoredIInv

LEMMA InternalizeAnythingIInv ==
  ASSUME IInv, InternalizeAnything
  PROVE  IInv'
<1>0. /\ sender' = sender /\ receiver' = receiver /\ class' = class
      /\ object' = object /\ size' = size /\ buffer' = buffer
      /\ consumed' = consumed /\ values' = values
      /\ phase = "reading" /\ phase' = "lost" /\ stack' = <<>>
  BY DEF InternalizeAnything, InWalk, programs
<1>1. Scalar(stack) /\ FieldOf(stack).type \in Varying
  BY Names DEF InternalizeAnything, InWalk, Scalar
<1>2. ~Agreed
  <2> SUFFICES ASSUME Agreed PROVE FALSE
    OBVIOUS
  <2>1. PICK u \in UnitsOf(object, stack) :
          u.at = Addr(stack) /\ u.is = "length" /\ u.len = 8
    BY <1>1, UnitOfMember
  <2>2. u \in buffer
    BY <1>0, <1>1, <2>1, FoundWhereWritten
  <2>3. u \in At("length", 8)
    BY <2>1, <2>2, Names DEF At
  <2> QED
    BY <2>3 DEF InternalizeAnything
<1>3. Types'
  BY <1>0 DEF IInv, Types, Walks, Ends
<1>4. Sizing' /\ Writing' /\ Reading'
  BY <1>0 DEF Sizing, Writing, Reading
<1>5. Ended'
  BY <1>0, <1>2 DEF IInv, Ended, Agreed
<1> QED
  BY <1>3, <1>4, <1>5 DEF IInv

LEMMA EndInternalizeIInv ==
  ASSUME IInv, EndInternalize
  PROVE  IInv'
<1>0. /\ sender' = sender /\ receiver' = receiver /\ class' = class
      /\ object' = object /\ size' = size /\ buffer' = buffer
      /\ consumed' = top.count /\ values' = values
      /\ phase = "reading" /\ phase' = "read" /\ stack' = <<>>
  BY DEF EndInternalize, AtEnd, programs
<1>1. Good(receiver, stack) /\ object \in Objects
  BY <1>0 DEF IInv, Types, Program, Walks
<1>2. Final(stack) /\ consumed' = Addr(stack) /\ Addr(stack) \in Nat
  BY <1>0, <1>1, FinalCount, TopType DEF EndInternalize, AtEnd
<1>3. Types'
  BY <1>0, <1>2 DEF IInv, Types, Walks, Ends
<1>4. Sizing' /\ Writing' /\ Reading'
  BY <1>0 DEF Sizing, Writing, Reading
<1>5. ASSUME Agreed
      PROVE  Restored'
  <2>1. PICK k, tr :
          /\ Walked(k, tr) /\ HoldsUpTo(object, tr, k, buffer)
          /\ Agreed => \E i \in 0..k : stack = tr[i] /\ ReadUpTo(tr, i, values)
    BY <1>0 DEF IInv, Reading
  <2>2. PICK i \in 0..k : stack = tr[i] /\ ReadUpTo(tr, i, values)
    BY <1>5, <2>1
  <2>3. i = k
    BY <1>2, <2>1, <2>2, TraceGoesOn DEF Walked
  <2>4. consumed' = size
    BY <1>2, <2>1, <2>2, <2>3 DEF Walked
  <2>5. /\ \A p \in DOMAIN values : values[p] = p
        /\ \A p : p \in DOMAIN values <=>
                    \E j \in 0..(k - 1) : Scalar(tr[j]) /\ p = PathOf(tr[j])
    BY <2>2, <2>3 DEF ReadUpTo
  <2>6. ASSUME NEW u \in buffer PROVE u.of \in DOMAIN values
    <3>1. PICK j \in 0..(k - 1) : Scalar(tr[j]) /\ u \in UnitsOf(object, tr[j])
      BY <2>1 DEF HoldsUpTo
    <3>2. j \in 0..k
      BY <2>1 DEF Walked, Trace
    <3>3. Good(sender, tr[j])
      BY <2>1, <3>2 DEF Walked, Trace
    <3>4. u.of = PathOf(tr[j])
      BY <1>1, <3>1, <3>3, UnitsType
    <3> QED
      BY <2>5, <3>1, <3>4
  <2>7. ASSUME NEW p \in DOMAIN values PROVE \E u \in buffer : p = u.of
    <3>1. PICK j \in 0..(k - 1) : Scalar(tr[j]) /\ p = PathOf(tr[j])
      BY <2>5
    <3>2. PICK u \in UnitsOf(object, tr[j]) : u.of = PathOf(tr[j])
      BY UnitOfMember
    <3>3. u \in buffer
      BY <2>1, <3>1 DEF HoldsUpTo
    <3> QED
      BY <3>1, <3>2, <3>3
  <2>8. DOMAIN values = {u.of : u \in buffer}
    BY <2>6, <2>7
  <2> QED
    BY <1>0, <2>4, <2>5, <2>8 DEF Restored
<1>6. Ended'
  BY <1>0, <1>5 DEF IInv, Ended, Agreed
<1> QED
  BY <1>3, <1>4, <1>6 DEF IInv

LEMMA NextIInv ==
  ASSUME IInv, [Next]_vars
  PROVE  IInv'
<1>1. CASE EnterObject
  BY <1>1, EnterObjectIInv
<1>2. CASE LeaveObject
  BY <1>2, LeaveObjectIInv
<1>3. CASE SizeField
  BY <1>3, SizeFieldIInv
<1>4. CASE EndSizing
  BY <1>4, EndSizingIInv
<1>5. CASE SerializeField
  BY <1>5, SerializeFieldIInv
<1>6. CASE EndSerialize
  BY <1>6, EndSerializeIInv
<1>7. CASE InternalizeValue
  BY <1>7, InternalizeValueIInv
<1>8. CASE InternalizeContents
  BY <1>8, InternalizeContentsIInv
<1>9. CASE InternalizeAnything
  BY <1>9, InternalizeAnythingIInv
<1>10. CASE EndInternalize
  BY <1>10, EndInternalizeIInv
<1>11. CASE UNCHANGED vars
  <2>1. /\ sender' = sender /\ receiver' = receiver /\ class' = class
        /\ object' = object /\ phase' = phase /\ stack' = stack /\ size' = size
        /\ buffer' = buffer /\ consumed' = consumed /\ values' = values
    BY <1>11 DEF vars
  <2>2. Program' = Program /\ (Agreed' <=> Agreed) /\ (Restored' <=> Restored)
    BY <2>1 DEF Program, Agreed, Restored
  <2> QED
    BY <2>1, <2>2 DEF IInv, Types, Sizing, Writing, Reading, Walked, Ended
<1> QED
  BY <1>1, <1>2, <1>3, <1>4, <1>5, <1>6, <1>7, <1>8, <1>9, <1>10, <1>11 DEF Next

-----------------------------------------------------------------------------
(* The theorems. *)

(* The three walks are one, as long as the programs agree on the members;   *)
(* each writes or reads exactly the bytes that the first has counted.       *)
THEOREM Invariant == Spec => []IInv
<1>1. Init => IInv
  BY InitIInv
<1>2. IInv /\ [Next]_vars => IInv'
  BY NextIInv
<1> QED
  BY <1>1, <1>2, PTL DEF Spec

(* Every variable has its type. *)
THEOREM TypeCorrect == Spec => []TypeOK
<1>1. IInv => TypeOK
  <2> SUFFICES ASSUME IInv PROVE TypeOK
    OBVIOUS
  <2>1. ASSUME NEW i \in DOMAIN stack
        PROVE  stack[i].base \in Nat /\ stack[i].count \in Nat
    <3>1. stack \in Seq(Frames)
      <4>1. CASE stack = <<>>
        BY <4>1
      <4>2. CASE stack # <<>>
        BY <4>2 DEF IInv, Types, Good
      <4> QED
        BY <4>1, <4>2
    <3>2. PICK f \in Frames : f = stack[i]
      BY <3>1
    <3> QED
      BY <3>2, FrameType
  <2> QED
    BY <2>1 DEF IInv, Types, TypeOK
<1> QED
  BY <1>1, Invariant, PTL

(* serialize writes as many bytes as getSerializedSize returned, and none   *)
(* behind them: createStreamContents never throws on a generated class.     *)
THEOREM SizeIsWritten == Spec => []WritesItsSize
<1>1. IInv => WritesItsSize
  BY DEF IInv, Ended, WritesItsSize
<1> QED
  BY <1>1, Invariant, PTL

(* Whatever the versions of the two programs, an object that the receiver   *)
(* accepts is restored, to the last member and to the last byte, if they    *)
(* agree on the hashes of the other classes, and different headers have     *)
(* different hashes, which 32 bits cannot promise of all headers.           *)
THEOREM ReadBack == Spec => []ReadsBack
<1>1. IInv => ReadsBack
  <2> SUFFICES ASSUME IInv,
               \A c \in ClassNames \ {class} :
                 ClassHash(sender, c) = ClassHash(receiver, c)
      PROVE  phase # "lost" /\ (phase = "read" => Restored)
    BY DEF ReadsBack
  <2>1. CASE phase \notin {"read", "lost"}
    BY <2>1
  <2>2. CASE phase \in {"read", "lost"}
    <3>1. \A c \in ClassNames : ClassHash(sender, c) = ClassHash(receiver, c)
      BY <2>2 DEF IInv, Ended
    <3>2. sender \in Packages /\ receiver \in Packages
      BY DEF IInv, Types
    <3>3. Agreed
      <4> SUFFICES ASSUME NEW c \in ClassNames
          PROVE  Members(sender[c]) = Members(receiver[c])
        BY DEF Agreed
      <4> QED
        BY <3>1, <3>2, HashDetermines
    <3> QED
      BY <3>3 DEF IInv, Ended
  <2> QED
    BY <2>1, <2>2
<1> QED
  BY <1>1, Invariant, PTL

(* Of whatever version, with whatever time and hash a class is generated:   *)
(* its header shows one hash in both places, over zeros only, and the text  *)
(* that is hashed is the same at any time.                                  *)
THEOREM ShowsHash == Spec => []HeaderShowsHash
<1>1. IInv => HeaderShowsHash
  <2> SUFFICES ASSUME IInv, NEW time \in Times, NEW digits \in HexHashes
      PROVE  LET included == Includes(sender[class])
                 body == Declarations(sender[class])
                 composed == Header(time, class, included, body)
                 file == WithHash(time, class, included, body, digits)
                 shown == Shown(file, " * Class hash: ")
             IN  /\ Shown(file, " 0x") = shown
                 /\ \A i \in 1..8 :
                      shown[i] = IF i \in DOMAIN digits THEN digits[i] ELSE "0"
                 /\ \A i \in DOMAIN composed :
                      file[i] # composed[i] => composed[i] = Char("0")
                 /\ HashedText(time, class, included, body) = ClassHash(sender, class)
    BY DEF HeaderShowsHash
  <2> DEFINE included == Includes(sender[class])
             body == Declarations(sender[class])
             composed == Header(time, class, included, body)
             file == WithHash(time, class, included, body, digits)
  <2>1. sender \in Packages /\ class \in ClassNames
    BY DEF IInv, Types
  <2>2. PICK n \in Nat : Plain(included, n)
    BY <2>1, PlainClass
  <2>3. PICK m \in Nat : Plain(body, m)
    BY <2>1, PlainClass
  <2>4. HashedText(time, class, included, body) = ClassHash(sender, class)
    BY <2>1, HashAtAnyTime
  <2> HIDE DEF included, body
  <2>5. /\ Shown(file, " * Class hash: ") = Printed(digits)
        /\ Shown(file, " 0x") = Printed(digits)
        /\ \A i \in DOMAIN composed : file[i] # composed[i] => composed[i] = Char("0")
    BY <2>1, <2>2, <2>3, HeaderIsShown
  <2>6. \A i \in 1..8 :
          Printed(digits)[i] = IF i \in DOMAIN digits THEN digits[i] ELSE "0"
    BY DEF Printed
  <2> HIDE DEF composed, file
  <2>7. /\ Shown(file, " 0x") = Shown(file, " * Class hash: ")
        /\ \A i \in 1..8 : Shown(file, " * Class hash: ")[i] =
             IF i \in DOMAIN digits THEN digits[i] ELSE "0"
    BY <2>5, <2>6
  <2> QED
    BY <2>4, <2>5, <2>7 DEF composed, file, included, body
<1> QED
  BY <1>1, Invariant, PTL

=============================================================================
