--------------------------- MODULE MessagesProofs ---------------------------
(***************************************************************************)
(* Proofs about Messages, for messages and texts of any length and any     *)
(* number of calls.                                                        *)
(***************************************************************************)
EXTENDS Messages, TLAPS

(* The part of a message vsnprintf keeps, and the part vlog counts. *)
kept(a) == IF a.length < space(a) THEN a.length ELSE space(a) - 1
counted(a) == IF a.length > space(a) THEN space(a) ELSE a.length

(* How far an activation has come with its buffer. *)
ActivationInv(a) ==
  /\ a.pc \in {"format", "log"} => a.zeros = {}
  /\ a.pc = "measure" => a.messageSize = a.length
  /\ a.pc \in {"measure", "suffix"} => a.zeros = {a.prefixSize + kept(a)}
  /\ a.pc \in {"suffix", "puts"} => a.messageSize = counted(a)
  /\ a.pc = "puts" =>
       a.zeros = ({a.prefixSize + kept(a)} \ {a.prefixSize + counted(a)})
                   \union {a.prefixSize + counted(a) + SuffixSize}
  /\ a.kind = "warning" => a.length = WarningSize /\ a.pc # "log"
  /\ a.min = s_minLevel

(* A warning is on top of what it is about, and is the line before it. *)
WarningInv ==
  /\ stack # <<>> => stack[1].kind # "warning"
  /\ Len(stack) = 2 => stack[2].kind = "warning" /\ stack[1].pc = "suffix"
  /\ Len(stack) = 1 /\ stack[1].pc \in {"suffix", "puts"} =>
       \/ stack[1].length <= space(stack[1])
       \/ stack[1].min > WARN
       \/ console # <<>> /\ console[Len(console)].kind = "warning"

Reported ==
  /\ console # <<>>
  /\ console[Len(console)].kind = "exception"
  /\ \/ Complete(console[Len(console)])
     \/ console[Len(console)].printed = BufferSize - 2

(* The exception is the last that is logged. *)
StatusInv ==
  /\ status \in {"thrown", "exited"} => stack = <<>>
  /\ status # "running" => _what \in Texts
  /\ status \in {"caught", "exited"} /\ s_minLevel <= INFO =>
       \/ stack # <<>> /\ stack[1].kind = "exception" /\ stack[1].pc # "log"
       \/ stack = <<>> /\ Reported

IInv ==
  /\ TypeOK
  /\ \A i \in DOMAIN stack : ActivationInv(stack[i])
  /\ WarningInv
  /\ CutIsAnnounced
  /\ StatusInv

-----------------------------------------------------------------------------
(* The stack and the prefix. *)

LEMMA Prefix ==
  ASSUME TypeOK, NEW level \in Levels
  PROVE  PrefixSize(level) \in 0..10
BY DEF TypeOK, Modes, PrefixSize, ColorSize

LEMMA NewActivation ==
  ASSUME TypeOK, NEW kind \in Kinds, NEW level \in Levels, NEW length \in Nat,
         NEW label \in {"format", "log"}, kind = "warning" => length = WarningSize /\ label = "format"
  PROVE  /\ Activation(kind, level, length, label) \in Activations
         /\ ActivationInv(Activation(kind, level, length, label))
<1>1. PrefixSize(level) \in 0..10
  BY Prefix
<1>2. Activation(kind, level, length, label) \in Activations
  BY <1>1 DEF Activation, Activations, Labels, TypeOK
<1>3. ActivationInv(Activation(kind, level, length, label))
  BY DEF Activation, ActivationInv
<1>4. QED
  BY <1>2, <1>3

LEMMA OneOrTwo ==
  ASSUME NEW k \in Nat \ {0}, k <= 2
  PROVE  k = 1 \/ k = 2
OBVIOUS

LEMMA NotEmpty ==
  ASSUME NEW T, NEW s \in Seq(T), s # <<>>
  PROVE  Len(s) \in Nat \ {0} /\ s[Len(s)] \in T
OBVIOUS

LEMMA TopReplaced ==
  ASSUME NEW s \in Seq(Activations), s # <<>>, NEW a \in Activations
  PROVE  /\ [s EXCEPT ![Len(s)] = a] \in Seq(Activations)
         /\ Len([s EXCEPT ![Len(s)] = a]) = Len(s)
         /\ [s EXCEPT ![Len(s)] = a][Len(s)] = a
         /\ \A i \in 1..(Len(s) - 1) : [s EXCEPT ![Len(s)] = a][i] = s[i]
OBVIOUS

LEMMA Appended ==
  ASSUME NEW T, NEW s \in Seq(T), NEW e \in T
  PROVE  /\ Append(s, e) \in Seq(T)
         /\ Len(Append(s, e)) = Len(s) + 1
         /\ \A k \in 1..Len(s) : Append(s, e)[k] = s[k]
         /\ Append(s, e)[Len(s) + 1] = e
OBVIOUS

LEMMA Pushed ==
  ASSUME NEW s \in Seq(Activations), Len(s) = 1, NEW w \in Activations
  PROVE  /\ Append(s, w) \in Seq(Activations) /\ Len(Append(s, w)) = 2
         /\ Append(s, w)[1] = s[1] /\ Append(s, w)[2] = w
<1>1. 1 \in 1..Len(s) /\ Len(s) + 1 = 2
  OBVIOUS
<1>2. /\ Append(s, w) \in Seq(Activations)
      /\ Len(Append(s, w)) = Len(s) + 1
      /\ \A k \in 1..Len(s) : Append(s, w)[k] = s[k]
      /\ Append(s, w)[Len(s) + 1] = w
  BY Appended
<1>3. QED
  BY <1>1, <1>2, Zenon

LEMMA Space ==
  ASSUME NEW a \in Activations
  PROVE  /\ space(a) \in Nat /\ kept(a) \in Nat /\ counted(a) \in Nat
         /\ a.prefixSize \in Nat /\ a.length \in Nat /\ a.messageSize \in Nat
         /\ kept(a) <= 4094 /\ counted(a) <= 4095
         /\ a.prefixSize + space(a) = 4095
         /\ a.kind = "warning" /\ ActivationInv(a) => a.length < space(a)
<1>. DEFINE l == a.length  sp == space(a)  p == a.prefixSize
<1>1. p \in 0..10 /\ l \in Nat /\ a.messageSize \in Nat
  BY DEF Activations
<1>2. sp = 4095 - p
  BY <1>1 DEF space, BufferSize, SuffixSize
<1>3. /\ kept(a) = IF l < sp THEN l ELSE sp - 1
      /\ counted(a) = IF l > sp THEN sp ELSE l
  BY DEF kept, counted
<1>4. a.kind = "warning" /\ ActivationInv(a) => l < sp
  BY <1>1, <1>2 DEF ActivationInv, WarningSize
<1>. HIDE DEF l, sp, p
<1>5. p \in Nat /\ sp \in Nat /\ sp <= 4095 /\ sp > 0 /\ p + sp = 4095
  BY <1>1, <1>2
<1>6. /\ kept(a) \in Nat /\ kept(a) <= 4094
      /\ counted(a) \in Nat /\ counted(a) <= 4095
  BY <1>1, <1>3, <1>5
<1>7. QED
  BY <1>1, <1>4, <1>5, <1>6 DEF l, sp, p

-----------------------------------------------------------------------------
(* Each step of vlog takes the top activation on, and nothing else. *)

LEMMA Advanced ==
  ASSUME TypeOK, \A i \in DOMAIN stack : ActivationInv(stack[i]),
         stack # <<>>, NEW a \in Activations, ReplaceTop(a),
         UNCHANGED settings, UNCHANGED console, UNCHANGED program,
         ActivationInv(a)
  PROVE  /\ TypeOK'
         /\ (\A i \in DOMAIN stack : ActivationInv(stack[i]))'
<1>1. /\ stack' \in Seq(Activations) /\ Len(stack') = Len(stack)
      /\ stack'[Len(stack)] = a
      /\ \A i \in 1..(Len(stack) - 1) : stack'[i] = stack[i]
  BY TopReplaced DEF TypeOK, ReplaceTop
<1>2. TypeOK'
  BY <1>1 DEF TypeOK, settings, program
<1>3. \A b : ActivationInv(b)' <=> ActivationInv(b)
  BY DEF settings, ActivationInv, kept, counted, space
<1>4. ASSUME NEW i \in DOMAIN stack'
      PROVE  ActivationInv(stack'[i])
  <2>1. i \in 1..Len(stack) /\ (i # Len(stack) => i \in 1..(Len(stack) - 1))
    BY <1>1 DEF TypeOK
  <2>2. CASE i = Len(stack)
    BY <1>1, <2>2
  <2>3. CASE i # Len(stack)
    BY <1>1, <2>1, <2>3 DEF TypeOK
  <2>4. QED
    BY <2>2, <2>3
<1>5. QED
  BY <1>2, <1>3, <1>4

(* The rest of the invariant looks at the kinds on the stack, and at what   *)
(* the lower activation has still to do.                                    *)
LEMMA AdvancedRest ==
  ASSUME IInv, stack # <<>>, NEW a \in Activations, ReplaceTop(a),
         UNCHANGED settings, UNCHANGED console, UNCHANGED program,
         a.kind = top.kind, a.pc # "log", top.pc # "suffix" => a.pc # "puts",
         a.pc = "suffix" => a.length <= space(a) \/ a.min > WARN,
         Len(stack) = 1 /\ a.pc = "puts" =>
           a.length = top.length /\ a.min = top.min /\ space(a) = space(top)
  PROVE  WarningInv' /\ CutIsAnnounced' /\ StatusInv'
<1>1. /\ stack' \in Seq(Activations) /\ Len(stack') = Len(stack)
      /\ stack'[Len(stack)] = a
      /\ \A i \in 1..(Len(stack) - 1) : stack'[i] = stack[i]
  BY TopReplaced DEF IInv, TypeOK, ReplaceTop
<1>2. Len(stack) = 1 \/ Len(stack) = 2
  <2>1. stack \in Seq(Activations) /\ Len(stack) <= 2
    BY DEF IInv, TypeOK
  <2>2. Len(stack) \in Nat \ {0}
    BY <2>1, NotEmpty
  <2>3. QED
    BY <2>1, <2>2, OneOrTwo
<1>3. CutIsAnnounced'
  <2>1. \A line : Complete(line)' <=> Complete(line)
    BY DEF Complete
  <2>2. QED
    BY <2>1 DEF IInv, CutIsAnnounced
<1>4. CASE Len(stack) = 1
  <2>1. stack'[1] = a /\ top = stack[1] /\ stack' # <<>> /\ Len(stack') = 1
    BY <1>1, <1>4 DEF top
  <2>2. WarningInv'
    BY <1>4, <2>1 DEF IInv, WarningInv, space
  <2>3. StatusInv'
    BY <1>4, <2>1 DEF IInv, StatusInv, Reported, program, settings, Complete
  <2>4. QED
    BY <1>3, <2>2, <2>3
<1>5. CASE Len(stack) = 2
  <2>1. /\ stack'[1] = stack[1] /\ stack'[2] = a /\ top = stack[2]
        /\ stack' # <<>> /\ Len(stack') = 2
    BY <1>1, <1>5 DEF top
  <2>2. WarningInv'
    BY <1>5, <2>1 DEF IInv, WarningInv, space
  <2>3. StatusInv'
    BY <1>5, <2>1 DEF IInv, StatusInv, Reported, program, settings, Complete
  <2>4. QED
    BY <1>3, <2>2, <2>3
<1>6. QED
  BY <1>2, <1>4, <1>5

LEMMA FormatStep == IInv /\ Format => IInv'
<1>. SUFFICES ASSUME IInv, Format
              PROVE  IInv'
  OBVIOUS
<1>1. top \in Activations /\ stack # <<>> /\ top.pc = "format" /\ ActivationInv(top)
  BY DEF IInv, TypeOK, Format, At, top
<1>. DEFINE a == [top EXCEPT !.pc = "measure", !.messageSize = top.length,
                             !.zeros = {top.prefixSize + kept(top)}]
<1>2. ReplaceTop(a) /\ UNCHANGED <<settings, console, program>>
  BY DEF Format, kept
<1>3. kept(top) \in Nat /\ top.prefixSize \in Nat /\ top.length \in Nat
  BY <1>1, Space
<1>4. a \in Activations
  <2>1. top.prefixSize + kept(top) \in Nat
    BY <1>3
  <2>2. {top.prefixSize + kept(top)} \in SUBSET Nat /\ "measure" \in Labels
    BY <2>1 DEF Labels
  <2>3. QED
    BY <1>1, <1>3, <2>2 DEF Activations
<1>5. /\ a.kind = top.kind /\ a.length = top.length /\ a.pc = "measure"
      /\ a.messageSize = top.length /\ a.zeros = {top.prefixSize + kept(top)}
      /\ a.prefixSize = top.prefixSize /\ a.min = top.min
  BY <1>1 DEF Activations
<1>. HIDE DEF a
<1>6. space(a) = space(top) /\ kept(a) = kept(top)
  BY <1>5 DEF space, kept
<1>7. ActivationInv(a)
  BY <1>1, <1>5, <1>6 DEF ActivationInv
<1>8. TypeOK' /\ (\A i \in DOMAIN stack : ActivationInv(stack[i]))'
  BY <1>1, <1>2, <1>4, <1>7, Advanced DEF IInv
<1>9. WarningInv' /\ CutIsAnnounced' /\ StatusInv'
  BY <1>1, <1>2, <1>4, <1>5, AdvancedRest
<1>10. QED
  BY <1>8, <1>9 DEF IInv

LEMMA SuffixStep == IInv /\ Suffix => IInv'
<1>. SUFFICES ASSUME IInv, Suffix
              PROVE  IInv'
  OBVIOUS
<1>1. top \in Activations /\ stack # <<>> /\ top.pc = "suffix" /\ ActivationInv(top)
  BY DEF IInv, TypeOK, Suffix, At, top
<1>. DEFINE at == top.prefixSize + top.messageSize
            a == [top EXCEPT !.pc = "puts",
                             !.zeros = (@ \ {at}) \union {at + SuffixSize}]
<1>2. ReplaceTop(a) /\ UNCHANGED <<settings, console, program>>
  BY DEF Suffix
<1>3. top.prefixSize \in 0..10 /\ top.messageSize \in Nat /\ top.zeros \subseteq Nat
  BY <1>1 DEF Activations
<1>4. a \in Activations
  <2>1. (top.zeros \ {at}) \union {at + SuffixSize} \in SUBSET Nat /\ "puts" \in Labels
    BY <1>3 DEF Labels, SuffixSize
  <2>2. QED
    BY <1>1, <2>1 DEF Activations
<1>5. /\ a.kind = top.kind /\ a.length = top.length /\ a.pc = "puts"
      /\ a.messageSize = top.messageSize
      /\ a.zeros = (top.zeros \ {at}) \union {at + SuffixSize}
      /\ a.prefixSize = top.prefixSize /\ a.min = top.min
  BY <1>1 DEF Activations
<1>. HIDE DEF a
<1>6. space(a) = space(top) /\ kept(a) = kept(top) /\ counted(a) = counted(top)
  BY <1>5 DEF space, kept, counted
<1>7. ActivationInv(a)
  BY <1>1, <1>5, <1>6 DEF ActivationInv
<1>8. TypeOK' /\ (\A i \in DOMAIN stack : ActivationInv(stack[i]))'
  BY <1>1, <1>2, <1>4, <1>7, Advanced DEF IInv
<1>9. WarningInv' /\ CutIsAnnounced' /\ StatusInv'
  BY <1>1, <1>2, <1>4, <1>5, <1>6, AdvancedRest
<1>10. QED
  BY <1>8, <1>9 DEF IInv

LEMMA MeasureStep == IInv /\ Measure => IInv'
<1>. SUFFICES ASSUME IInv, Measure
              PROVE  IInv'
  OBVIOUS
<1>1. top \in Activations /\ stack # <<>> /\ top.pc = "measure" /\ ActivationInv(top)
  BY DEF IInv, TypeOK, Measure, At, top
<1>. DEFINE tooBig == top.messageSize > space(top)
            a == [top EXCEPT !.pc = "suffix",
                    !.messageSize = IF tooBig THEN space(top) ELSE @]
            measured == [stack EXCEPT ![Len(stack)] = a]
<1>2. /\ stack' = IF tooBig THEN Announced(measured) ELSE measured
      /\ UNCHANGED <<settings, console, program>>
  BY DEF Measure
<1>3. space(top) \in Nat /\ top.messageSize \in Nat
  BY <1>1, Space
<1>4. a \in Activations
  BY <1>1, <1>3 DEF Activations, Labels
<1>5. /\ a.kind = top.kind /\ a.length = top.length /\ a.pc = "suffix"
      /\ a.messageSize = IF tooBig THEN space(top) ELSE top.messageSize
      /\ a.zeros = top.zeros /\ a.prefixSize = top.prefixSize
      /\ a.min = top.min
  BY <1>1 DEF Activations
<1>6. top.messageSize = top.length
  BY <1>1 DEF ActivationInv
<1>. HIDE DEF a
<1>7. space(a) = space(top) /\ kept(a) = kept(top) /\ counted(a) = counted(top)
  BY <1>5 DEF space, kept, counted
<1>8. a.messageSize = counted(a)
  BY <1>5, <1>6, <1>7 DEF counted
<1>9. ActivationInv(a)
  BY <1>1, <1>5, <1>7, <1>8 DEF ActivationInv
<1>10. a.min = s_minLevel /\ s_minLevel \in Levels
  BY <1>9 DEF ActivationInv, IInv, TypeOK
<1>11. CASE ~tooBig \/ WARN < s_minLevel
  <2>1. ReplaceTop(a)
    BY <1>2, <1>11 DEF ReplaceTop, Announced, Called
  <2>2. a.length <= space(a) \/ a.min > WARN
    BY <1>3, <1>5, <1>6, <1>7, <1>10, <1>11 DEF Levels, FINE, WARN, ERROR
  <2>3. TypeOK' /\ (\A i \in DOMAIN stack : ActivationInv(stack[i]))'
    BY <1>1, <1>2, <1>4, <1>9, <2>1, Advanced DEF IInv
  <2>4. WarningInv' /\ CutIsAnnounced' /\ StatusInv'
    BY <1>1, <1>2, <1>4, <1>5, <2>1, <2>2, AdvancedRest
  <2>5. QED
    BY <2>3, <2>4 DEF IInv
<1>12. CASE tooBig /\ ~(WARN < s_minLevel)
  <2>. DEFINE w == Activation("warning", WARN, WarningSize, "format")
  <2>1. w \in Activations /\ ActivationInv(w)
    BY NewActivation DEF IInv, Kinds, Levels, FINE, WARN, ERROR, WarningSize
  <2>2. w.kind = "warning"
    BY DEF Activation
  <2>. HIDE DEF w
  <2>3. Len(stack) = 1
    <3>1. top.kind # "warning"
      BY <1>1, <1>3, <1>6, <1>12, Space
    <3>2. Len(stack) \in Nat \ {0} /\ Len(stack) <= 2
      BY <1>1, NotEmpty DEF IInv, TypeOK
    <3>3. Len(stack) # 2
      BY <3>1 DEF IInv, WarningInv, top
    <3>4. QED
      BY <3>2, <3>3, OneOrTwo
  <2>4. /\ measured \in Seq(Activations) /\ Len(measured) = 1 /\ measured[1] = a
    BY <1>1, <1>4, <2>3, TopReplaced DEF IInv, TypeOK
  <2>5. stack' = Append(measured, w)
    BY <1>2, <1>12 DEF Announced, Called, w
  <2>. HIDE DEF measured
  <2>6. /\ stack' \in Seq(Activations) /\ Len(stack') = 2
        /\ stack'[1] = a /\ stack'[2] = w
    BY <2>1, <2>4, <2>5, Pushed
  <2>7. TypeOK'
    <3>1. Len(stack') <= 2
      BY <2>6
    <3>2. QED
      BY <1>2, <2>6, <3>1 DEF IInv, TypeOK, settings, program
  <2>8. \A b : ActivationInv(b)' <=> ActivationInv(b)
    BY <1>2 DEF settings, ActivationInv, kept, counted, space
  <2>9. (\A i \in DOMAIN stack : ActivationInv(stack[i]))'
    <3>1. \A i \in DOMAIN stack' : i = 1 \/ i = 2
      BY <2>6
    <3>2. QED
      BY <1>9, <2>1, <2>6, <2>8, <3>1
  <2>10. WarningInv'
    <3>1. a.kind # "warning"
      BY <1>1, <1>3, <1>5, <1>6, <1>12, Space
    <3>2. QED
      BY <1>5, <2>2, <2>6, <3>1 DEF WarningInv
  <2>11. CutIsAnnounced'
    <3>1. \A line : Complete(line)' <=> Complete(line)
      BY DEF Complete
    <3>2. QED
      BY <1>2, <3>1 DEF IInv, CutIsAnnounced
  <2>12. StatusInv'
    <3>1. stack' # <<>> /\ top = stack[1] /\ UNCHANGED <<_what, status, s_minLevel>>
      BY <1>2, <2>3, <2>6 DEF top, program, settings
    <3>2. QED
      BY <1>1, <1>5, <2>6, <3>1 DEF IInv, StatusInv
  <2>13. QED
    BY <2>7, <2>9, <2>10, <2>11, <2>12 DEF IInv
<1>13. QED
  BY <1>11, <1>12

(* puts prints all of a line that fits, and 4094 characters of another. *)
LEMMA Printed ==
  ASSUME NEW a \in Activations, ActivationInv(a), a.pc = "puts"
  PROVE  /\ firstZero(a.zeros) \in Nat
         /\ a.prefixSize + a.messageSize + SuffixSize \in Nat
         /\ a.length < space(a) =>
              /\ firstZero(a.zeros) = a.prefixSize + a.length + SuffixSize
              /\ a.messageSize = a.length
         /\ a.length >= space(a) => firstZero(a.zeros) = BufferSize - 2
<1>. DEFINE l == a.length  sp == space(a)  p == a.prefixSize
<1>1. /\ l \in Nat /\ sp \in Nat /\ p \in Nat /\ p + sp = 4095
      /\ a.messageSize \in Nat
  BY Space
<1>2. /\ a.zeros = ({p + kept(a)} \ {p + counted(a)}) \union {p + counted(a) + 1}
      /\ a.messageSize = counted(a)
  BY DEF ActivationInv, SuffixSize
<1>3. /\ kept(a) = IF l < sp THEN l ELSE sp - 1
      /\ counted(a) = IF l > sp THEN sp ELSE l
  BY DEF kept, counted
<1>. HIDE DEF l, sp, p
<1>4. CASE l < sp
  <2>1. a.zeros = {p + l + 1} /\ a.messageSize = l
    BY <1>1, <1>2, <1>3, <1>4
  <2>2. p + l + 1 \in Nat
    BY <1>1
  <2>3. firstZero(a.zeros) = p + l + 1
    BY <2>1, <2>2 DEF firstZero
  <2>4. QED
    BY <1>1, <1>4, <2>1, <2>2, <2>3 DEF l, sp, p, SuffixSize
<1>5. CASE l >= sp
  <2>1. p + (sp - 1) = 4094 /\ p + sp + 1 = 4096 /\ p + sp # p + (sp - 1)
    BY <1>1
  <2>2. a.zeros = {4094, 4096}
    BY <1>1, <1>2, <1>3, <1>5, <2>1
  <2>3. firstZero(a.zeros) = 4094
    BY <2>2 DEF firstZero
  <2>4. QED
    BY <1>1, <1>5, <2>3 DEF l, sp, p, SuffixSize, BufferSize
<1>6. QED
  BY <1>1, <1>4, <1>5

LEMMA Popped ==
  ASSUME NEW s \in Seq(Activations), s # <<>>, Len(s) <= 2
  PROVE  LET t == SubSeq(s, 1, Len(s) - 1) IN
           /\ t \in Seq(Activations)
           /\ Len(s) = 1 => t = <<>>
           /\ Len(s) = 2 => Len(t) = 1 /\ t[1] = s[1]
           /\ Len(s) = 1 \/ Len(s) = 2
<1>1. Len(s) = 1 \/ Len(s) = 2
  <2>1. Len(s) \in Nat \ {0}
    BY NotEmpty
  <2>2. QED
    BY <2>1, OneOrTwo
<1>2. CASE Len(s) = 1
  BY <1>2
<1>3. CASE Len(s) = 2
  <2>. DEFINE t == SubSeq(s, 1, 1)
  <2>1. t \in Seq(Activations) /\ Len(t) = 1 /\ t[1] = s[1]
    BY <1>3
  <2>2. Len(s) - 1 = 1
    BY <1>3
  <2>3. QED
    BY <1>3, <2>1, <2>2
<1>4. QED
  BY <1>1, <1>2, <1>3

LEMMA PutsStep == IInv /\ Puts => IInv'
<1>. SUFFICES ASSUME IInv, Puts
              PROVE  IInv'
  OBVIOUS
<1>1. top \in Activations /\ stack # <<>> /\ top.pc = "puts" /\ ActivationInv(top)
  BY DEF IInv, TypeOK, Puts, At, top
<1>. DEFINE line == [kind |-> top.kind, length |-> top.length, min |-> top.min,
              prefixSize |-> top.prefixSize, printed |-> firstZero(top.zeros),
              returned |-> top.prefixSize + top.messageSize + SuffixSize]
<1>2. /\ console' = Append(console, line)
      /\ stack' = SubSeq(stack, 1, Len(stack) - 1)
      /\ UNCHANGED <<settings, program>>
  BY DEF Puts
<1>3. line \in Lines
  BY <1>1, Printed DEF Lines, Activations
<1>4. /\ line.kind = top.kind /\ line.length = top.length
      /\ line.min = top.min /\ line.prefixSize = top.prefixSize
      /\ line.printed = firstZero(top.zeros)
      /\ line.returned = top.prefixSize + top.messageSize + SuffixSize
  OBVIOUS
<1>. HIDE DEF line
<1>5. space(line) = space(top)
  BY <1>4 DEF space
<1>6. /\ top.length < space(top) => Complete(line)
      /\ top.length >= space(top) => line.printed = BufferSize - 2
  BY <1>1, <1>4, Printed DEF Complete
<1>7. top.length \in Nat /\ space(top) \in Nat
  BY <1>1, Space
<1>8. /\ stack' \in Seq(Activations) /\ (Len(stack) = 1 \/ Len(stack) = 2)
      /\ Len(stack) = 1 => stack' = <<>>
      /\ Len(stack) = 2 => Len(stack') = 1 /\ stack'[1] = stack[1]
  BY <1>1, <1>2, Popped DEF IInv, TypeOK
<1>9. /\ console' \in Seq(Lines) /\ Len(console') = Len(console) + 1
      /\ \A k \in 1..Len(console) : console'[k] = console[k]
      /\ console'[Len(console) + 1] = line
  BY <1>2, <1>3, Appended DEF IInv, TypeOK
<1>10. console \in Seq(Lines) /\ Len(console) \in Nat /\ console' # <<>>
  BY <1>9 DEF IInv, TypeOK
<1>11. TypeOK'
  BY <1>2, <1>8, <1>9 DEF IInv, TypeOK, settings, program
<1>12. \A b : ActivationInv(b)' <=> ActivationInv(b)
  BY <1>2 DEF settings, ActivationInv, kept, counted, space
<1>13. (\A i \in DOMAIN stack : ActivationInv(stack[i]))'
  <2>1. Len(stack) = 2 => ActivationInv(stack[1])
    BY DEF IInv, TypeOK
  <2>2. \A i \in DOMAIN stack' : Len(stack) = 2 /\ stack'[i] = stack[1]
    BY <1>8
  <2>3. QED
    BY <1>12, <2>1, <2>2
<1>14. top = stack[Len(stack)]
  BY DEF top
<1>15. WarningInv'
  <2>1. CASE Len(stack) = 1
    BY <1>8, <2>1 DEF WarningInv
  <2>2. CASE Len(stack) = 2
    <3>1. line.kind = "warning" /\ stack[1].kind # "warning"
      BY <1>1, <1>4, <1>14, <2>2 DEF IInv, WarningInv
    <3>2. Len(stack') = 1 /\ stack'[1] = stack[1]
      BY <1>8, <2>2
    <3>3. console'[Len(console')] = line
      BY <1>9
    <3>4. QED
      BY <1>10, <3>1, <3>2, <3>3 DEF WarningInv
  <2>3. QED
    BY <1>8, <2>1, <2>2
<1>16. CutIsAnnounced'
  <2>1. ASSUME NEW k \in DOMAIN console', ~Complete(console'[k])
        PROVE  /\ console'[k].length >= space(console'[k])
               /\ \/ console'[k].min > WARN
                  \/ console'[k].length = space(console'[k])
                  \/ k > 1 /\ console'[k - 1].kind = "warning"
    <3>1. CASE k \in 1..Len(console)
      <4>1. /\ console'[k] = console[k]
            /\ k > 1 => k - 1 \in 1..Len(console)
        BY <1>9, <1>10, <3>1
      <4>2. k > 1 => console'[k - 1] = console[k - 1]
        BY <1>9, <4>1
      <4>3. QED
        BY <1>10, <2>1, <3>1, <4>1, <4>2 DEF IInv, CutIsAnnounced
    <3>2. CASE k = Len(console) + 1
      <4>1. console'[k] = line /\ top.length >= space(top)
        BY <1>6, <1>7, <1>9, <2>1, <3>2
      <4>2. ASSUME top.length # space(top), ~(top.min > WARN)
            PROVE  console # <<>> /\ console[Len(console)].kind = "warning"
        <5>1. top.kind # "warning"
          BY <1>1, <1>7, <4>1, Space
        <5>2. Len(stack) = 1
          BY <1>8, <1>14, <5>1 DEF IInv, WarningInv
        <5>3. ~(top.length <= space(top))
          BY <1>7, <4>1, <4>2
        <5>4. QED
          BY <1>1, <1>14, <4>2, <5>2, <5>3 DEF IInv, WarningInv
      <4>3. console # <<>> => k > 1 /\ console'[k - 1] = console[Len(console)]
        <5>1. console # <<>> => Len(console) \in Nat \ {0}
          BY <1>10, NotEmpty
        <5>2. QED
          BY <1>9, <3>2, <5>1
      <4>4. QED
        BY <1>4, <1>5, <4>1, <4>2, <4>3
    <3>3. QED
      BY <1>9, <1>10, <3>1, <3>2
  <2>2. \A a : Complete(a)' <=> Complete(a)
    BY DEF Complete
  <2>3. \A a : space(a)' = space(a)
    BY DEF space
  <2>4. QED
    BY <2>1, <2>2, <2>3 DEF CutIsAnnounced
<1>17. StatusInv'
  <2>1. UNCHANGED <<status, s_minLevel, _what>> /\ status \notin {"thrown", "exited"}
    BY <1>1, <1>2 DEF IInv, StatusInv, settings, program
  <2>2. ASSUME status = "caught", s_minLevel <= INFO
        PROVE  \/ stack' # <<>> /\ stack'[1].kind = "exception" /\ stack'[1].pc # "log"
               \/ stack' = <<>> /\ Reported'
    <3>1. stack[1].kind = "exception" /\ stack[1].pc # "log"
      BY <1>1, <2>2 DEF IInv, StatusInv
    <3>2. CASE Len(stack) = 1
      <4>1. console'[Len(console')] = line /\ line.kind = "exception"
        BY <1>4, <1>9, <1>14, <3>1, <3>2
      <4>2. Complete(line) \/ line.printed = BufferSize - 2
        BY <1>6, <1>7
      <4>3. QED
        BY <1>8, <1>10, <3>2, <4>1, <4>2 DEF Reported, Complete
    <3>3. CASE Len(stack) = 2
      <4>1. Len(stack') = 1 /\ stack'[1] = stack[1]
        BY <1>8, <3>3
      <4>2. stack' # <<>>
        BY <4>1
      <4>3. QED
        BY <3>1, <4>1, <4>2
    <3>4. QED
      BY <1>8, <3>2, <3>3
  <2>3. QED
    BY <2>1, <2>2 DEF IInv, StatusInv
<1>18. QED
  BY <1>11, <1>13, <1>15, <1>16, <1>17 DEF IInv

-----------------------------------------------------------------------------
(* The program's own steps are taken with nothing on the stack. *)

LEMMA Undisturbed ==
  ASSUME IInv, UNCHANGED console
  PROVE  CutIsAnnounced' /\ (Reported' <=> Reported)
BY DEF IInv, CutIsAnnounced, Reported, Complete

LEMMA Pushing ==
  ASSUME IInv, stack = <<>>, UNCHANGED settings, UNCHANGED console,
         NEW kind \in Kinds \ {"warning"}, NEW level \in Levels, NEW length \in Nat,
         NEW label \in {"format", "log"},
         stack' = <<Activation(kind, level, length, label)>>
  PROVE  /\ stack' \in Seq(Activations) /\ Len(stack') = 1
         /\ stack'[1].kind = kind /\ stack'[1].pc = label /\ stack' # <<>>
         /\ (\A i \in DOMAIN stack : ActivationInv(stack[i]))'
         /\ WarningInv'
<1>. DEFINE a == Activation(kind, level, length, label)
<1>1. a \in Activations /\ ActivationInv(a)
  BY NewActivation DEF IInv
<1>2. a.kind = kind /\ a.pc = label
  BY DEF Activation
<1>. HIDE DEF a
<1>3. /\ stack' \in Seq(Activations) /\ Len(stack') = 1 /\ stack'[1] = a
      /\ stack' # <<>> /\ \A i \in DOMAIN stack' : i = 1
  BY <1>1 DEF a
<1>5. \A b : ActivationInv(b)' <=> ActivationInv(b)
  BY DEF settings, ActivationInv, kept, counted, space
<1>6. WarningInv'
  BY <1>2, <1>3 DEF WarningInv
<1>7. QED
  BY <1>1, <1>2, <1>3, <1>5, <1>6

LEMMA CallStep ==
  ASSUME IInv, stack = <<>>, UNCHANGED settings, UNCHANGED console,
         NEW kind \in Kinds \ {"warning"}, NEW level \in Levels, NEW length \in Nat,
         stack' = Called(stack, kind, level, length)
  PROVE  /\ stack' \in Seq(Activations) /\ Len(stack') <= 2
         /\ \/ stack' = <<>> /\ level < s_minLevel
            \/ stack' # <<>> /\ stack'[1].kind = kind /\ stack'[1].pc = "format"
         /\ (\A i \in DOMAIN stack : ActivationInv(stack[i]))'
         /\ WarningInv'
<1>1. CASE level < s_minLevel
  BY <1>1 DEF Called, WarningInv
<1>2. CASE ~(level < s_minLevel)
  <2>1. stack' = <<Activation(kind, level, length, "format")>>
    BY <1>2 DEF Called
  <2>2. QED
    BY <2>1, Pushing
<1>3. QED
  BY <1>1, <1>2

LEMMA LogStep ==
  ASSUME IInv, NEW level \in Levels, NEW length \in Nat,
         LogAt(level, length) \/ LogAtDefault(length)
  PROVE  IInv'
<1>1. /\ status = "running" /\ stack = <<>> /\ calls < MaxCalls
      /\ calls' = calls + 1 /\ UNCHANGED <<settings, console, _what, status>>
  BY DEF LogAt, LogAtDefault, MayCall
<1>2. /\ stack' \in Seq(Activations) /\ Len(stack') <= 2
      /\ (\A i \in DOMAIN stack : ActivationInv(stack[i]))' /\ WarningInv'
  <2>1. CASE LogAt(level, length)
    BY <1>1, <2>1, CallStep DEF LogAt, Kinds
  <2>2. CASE LogAtDefault(length)
    BY <1>1, <2>2, Pushing DEF LogAtDefault, Kinds, Levels, FINE, INFO, ERROR
  <2>3. QED
    BY <2>1, <2>2
<1>3. TypeOK'
  BY <1>1, <1>2, MessagesAssumption DEF IInv, TypeOK, settings
<1>4. CutIsAnnounced' /\ StatusInv'
  BY <1>1, Undisturbed DEF StatusInv
<1>5. QED
  BY <1>2, <1>3, <1>4 DEF IInv

LEMMA SetStep ==
  ASSUME IInv, NEW mode \in Modes, NEW level \in Levels,
         SetLogLevelMode(mode) \/ SetMinLogLevel(level)
  PROVE  IInv'
<1>1. /\ status = "running" /\ stack = <<>> /\ calls < MaxCalls
      /\ calls' = calls + 1 /\ UNCHANGED <<stack, console, _what, status>>
      /\ s_logLevelMode' \in Modes /\ s_minLevel' \in Levels
  BY DEF SetLogLevelMode, SetMinLogLevel, MayCall, IInv, TypeOK
<1>2. TypeOK'
  BY <1>1, MessagesAssumption DEF IInv, TypeOK
<1>3. CutIsAnnounced'
  BY <1>1, Undisturbed
<1>4. /\ (\A i \in DOMAIN stack : ActivationInv(stack[i]))'
      /\ WarningInv' /\ StatusInv'
  BY <1>1 DEF WarningInv, StatusInv
<1>5. QED
  BY <1>2, <1>3, <1>4 DEF IInv

LEMMA EndStep ==
  ASSUME IInv, NEW text \in Texts, Throw(text) \/ Exit
  PROVE  IInv'
<1>1. stack = <<>> /\ UNCHANGED <<stack, console, calls, settings>>
  BY DEF Throw, Exit
<1>2. TypeOK'
  BY <1>1 DEF IInv, TypeOK, settings, Throw, Exit
<1>3. CutIsAnnounced' /\ (Reported' <=> Reported)
  BY <1>1, Undisturbed
<1>4. (\A i \in DOMAIN stack : ActivationInv(stack[i]))' /\ WarningInv'
  BY <1>1 DEF WarningInv
<1>5. StatusInv'
  <2>1. CASE Throw(text)
    BY <1>1, <2>1 DEF Throw, StatusInv
  <2>2. CASE Exit
    BY <1>1, <1>3, <2>2 DEF Exit, StatusInv, IInv, settings
  <2>3. QED
    BY <2>1, <2>2
<1>6. QED
  BY <1>2, <1>3, <1>4, <1>5 DEF IInv

LEMMA CatchStep == IInv /\ Catch => IInv'
<1>. SUFFICES ASSUME IInv, Catch
              PROVE  IInv'
  OBVIOUS
<1>1. /\ status = "thrown" /\ stack = <<>> /\ _what \in Texts
      /\ status' = "caught" /\ UNCHANGED <<settings, console, _what, calls>>
      /\ stack' = Called(stack, "exception", INFO, CaughtSize + _what)
  BY DEF IInv, StatusInv, Catch
<1>2. CaughtSize + _what \in Nat
  BY <1>1, MessagesAssumption DEF CaughtSize
<1>3. INFO \in Levels /\ "exception" \in Kinds \ {"warning"}
  BY DEF Levels, FINE, INFO, ERROR, Kinds
<1>4. /\ stack' \in Seq(Activations) /\ Len(stack') <= 2
      /\ \/ stack' = <<>> /\ INFO < s_minLevel
         \/ stack' # <<>> /\ stack'[1].kind = "exception" /\ stack'[1].pc = "format"
      /\ (\A i \in DOMAIN stack : ActivationInv(stack[i]))' /\ WarningInv'
  BY <1>1, <1>2, <1>3, CallStep
<1>5. TypeOK'
  BY <1>1, <1>4 DEF IInv, TypeOK, settings
<1>6. StatusInv'
  BY <1>1, <1>4 DEF StatusInv, settings, INFO, IInv, TypeOK, Levels, FINE, ERROR
<1>7. CutIsAnnounced'
  BY <1>1, Undisturbed
<1>8. QED
  BY <1>4, <1>5, <1>6, <1>7 DEF IInv

-----------------------------------------------------------------------------
(* The theorems. *)

THEOREM Inductive == Spec => []IInv
<1>1. Init => IInv
  BY MessagesAssumption DEF Init, IInv, TypeOK, WarningInv, StatusInv, CutIsAnnounced,
     Modes, Levels, FINE, INFO, ERROR
<1>2. IInv /\ [Next]_vars => IInv'
  <2>. SUFFICES ASSUME IInv, [Next]_vars
                PROVE  IInv'
    OBVIOUS
  <2>1. CASE Vlog
    BY <2>1, FormatStep, MeasureStep, SuffixStep, PutsStep DEF Vlog
  <2>2. ASSUME NEW mode \in Modes, SetLogLevelMode(mode)
        PROVE  IInv'
    BY <2>2, SetStep DEF IInv, TypeOK
  <2>3. ASSUME NEW level \in Levels, SetMinLogLevel(level)
        PROVE  IInv'
    BY <2>3, SetStep DEF IInv, TypeOK
  <2>4. ASSUME NEW level \in Levels, NEW length \in Lengths, LogAt(level, length)
        PROVE  IInv'
    BY <2>4, LogStep, MessagesAssumption
  <2>5. ASSUME NEW length \in Lengths, LogAtDefault(length)
        PROVE  IInv'
    BY <2>5, LogStep, MessagesAssumption DEF IInv, TypeOK
  <2>6. ASSUME NEW text \in Texts, Throw(text)
        PROVE  IInv'
    BY <2>6, EndStep
  <2>7. CASE Exit
    <3>1. _what \in Texts
      BY <2>7 DEF IInv, StatusInv, Exit
    <3>2. QED
      BY <2>7, <3>1, EndStep
  <2>8. CASE Catch
    BY <2>8, CatchStep
  <2>9. CASE UNCHANGED vars
    <3>1. UNCHANGED <<stack, console, s_logLevelMode, s_minLevel, _what, status, calls>>
      BY <2>9 DEF vars, settings, program
    <3>2. CutIsAnnounced' /\ (Reported' <=> Reported)
      BY <3>1, Undisturbed
    <3>3. \A b : ActivationInv(b)' <=> ActivationInv(b)
      BY <3>1 DEF ActivationInv, kept, counted, space
    <3>4. (\A i \in DOMAIN stack : ActivationInv(stack[i]))'
      BY <3>1, <3>3 DEF IInv
    <3>5. TypeOK' /\ StatusInv'
      BY <3>1, <3>2 DEF IInv, TypeOK, StatusInv
    <3>6. WarningInv'
      BY <3>1 DEF IInv, WarningInv, space
    <3>7. QED
      BY <3>2, <3>4, <3>5, <3>6 DEF IInv
  <2>10. QED
    BY <2>1, <2>2, <2>3, <2>4, <2>5, <2>6, <2>7, <2>8, <2>9 DEF Next
<1>3. QED
  BY <1>1, <1>2, PTL DEF Spec

(* Log's variables keep their types, and a warning is the only thing ever   *)
(* composed while another line is.                                          *)
THEOREM TypeCorrect == Spec => []TypeOK
<1>1. IInv => TypeOK
  BY DEF IInv
<1>2. QED
  BY <1>1, Inductive, PTL

(* For messages of every length, what vlog writes stays within the buffer   *)
(* but for the zero behind the suffix of a message that does not fit.       *)
THEOREM WithinBufferHolds == Spec => []WithinBuffer
<1>1. IInv => WithinBuffer
  <2>. SUFFICES ASSUME IInv, NEW i \in DOMAIN stack, NEW z \in stack[i].zeros
                PROVE  \/ z < BufferSize
                       \/ z = BufferSize /\ stack[i].length >= space(stack[i])
    BY DEF WithinBuffer
  <2>. DEFINE a == stack[i]
  <2>1. a \in Activations /\ ActivationInv(a) /\ z \in a.zeros
    BY DEF IInv, TypeOK
  <2>. HIDE DEF a
  <2>. DEFINE l == a.length  sp == space(a)  p == a.prefixSize
  <2>2. l \in Nat /\ sp \in Nat /\ p \in Nat /\ p + sp = 4095
    BY <2>1, Space
  <2>3. /\ kept(a) = IF l < sp THEN l ELSE sp - 1
        /\ counted(a) = IF l > sp THEN sp ELSE l
    BY DEF kept, counted
  <2>4. z = p + kept(a) \/ z = p + counted(a) + 1
    BY <2>1 DEF ActivationInv, Activations, Labels, SuffixSize
  <2>. HIDE DEF l, sp, p
  <2>5. z < 4096 \/ (z = 4096 /\ l >= sp)
    <3>1. CASE l < sp
      <4>1. z = p + l \/ z = p + l + 1
        BY <2>2, <2>3, <2>4, <3>1
      <4>2. p + l < 4096 /\ p + l + 1 < 4096
        BY <2>2, <3>1
      <4>3. QED
        BY <4>1, <4>2
    <3>2. CASE l >= sp
      <4>1. counted(a) = sp /\ kept(a) = sp - 1
        BY <2>2, <2>3, <3>2
      <4>2. p + sp + 1 = 4096 /\ p + (sp - 1) = 4094
        BY <2>2
      <4>3. z = 4096 \/ z = 4094
        BY <2>4, <4>1, <4>2
      <4>4. QED
        BY <3>2, <4>3
    <3>3. QED
      BY <2>2, <3>1, <3>2
  <2>6. QED
    BY <2>5 DEF a, l, sp, BufferSize
<1>2. QED
  BY <1>1, Inductive, PTL

(* For messages of every length, a line that lost its end is announced, in  *)
(* all but the named cases.                                                 *)
THEOREM CutIsAnnouncedHolds == Spec => []CutIsAnnounced
<1>1. IInv => CutIsAnnounced
  BY DEF IInv
<1>2. QED
  BY <1>1, Inductive, PTL

(* The last line printed is the exception that ended the invocation.        *)
THEOREM ExceptionReportedHolds == Spec => []ExceptionReported
<1>1. IInv => ExceptionReported
  BY DEF IInv, StatusInv, ExceptionReported, Reported
<1>2. QED
  BY <1>1, Inductive, PTL

=============================================================================
