----------------------- MODULE StreamDispatcherProofs -----------------------
(***************************************************************************)
(* Proofs about StreamDispatcher, for any class hashes and handlers and    *)
(* any bounds: its types, what runs while a call is on, and that it keeps  *)
(* the promise of Dispatch.                                                *)
(***************************************************************************)
EXTENDS StreamDispatcher, TLAPS

(* An activation walks its own stream, open as long as the activation is   *)
(* there, and its position tells how many objects have met their fates.    *)
ActivationInv(frame) ==
  /\ frame.ptr \in DOMAIN contents
  /\ frame.objectList = contents[frame.ptr]
  /\ outcome[frame.ptr] = "open"
  /\ frame.item <= Len(frame.objectList) + 1
  /\ ~frame.calling => Len(fates[frame.ptr]) = frame.item - 1
  /\ frame.calling =>
       /\ frame.item <= Len(frame.objectList)
       /\ Len(fates[frame.ptr]) = frame.item
       /\ frame.handler = fates[frame.ptr][frame.item]
       /\ frame.handler \in Callables

(* The activations are those of the open streams, the latest innermost, and *)
(* all but the innermost wait for a handler.                                *)
StackInv ==
  /\ \A i \in DOMAIN stack : ActivationInv(stack[i])
  /\ \A i, j \in DOMAIN stack : i < j => stack[i].ptr < stack[j].ptr /\ stack[i].calling
  /\ \A s \in DOMAIN outcome :
       outcome[s] = "open" => \E i \in DOMAIN stack : stack[i].ptr = s

IInv == TypeOK /\ StackInv

-----------------------------------------------------------------------------
(* Sequences. *)

LEMMA NotEmpty ==
  ASSUME NEW T, NEW s \in Seq(T), s # <<>>
  PROVE  Len(s) \in Nat \ {0} /\ Len(s) \in DOMAIN s /\ s[Len(s)] \in T
OBVIOUS

LEMMA Appended ==
  ASSUME NEW T, NEW s \in Seq(T), NEW e \in T
  PROVE  /\ Append(s, e) \in Seq(T)
         /\ Len(Append(s, e)) = Len(s) + 1
         /\ DOMAIN Append(s, e) = 1..(Len(s) + 1)
         /\ \A k \in 1..Len(s) : Append(s, e)[k] = s[k]
         /\ Append(s, e)[Len(s) + 1] = e
OBVIOUS

LEMMA Replaced ==
  ASSUME NEW T, NEW s \in Seq(T), NEW k \in DOMAIN s, NEW e \in T
  PROVE  /\ [s EXCEPT ![k] = e] \in Seq(T)
         /\ Len([s EXCEPT ![k] = e]) = Len(s)
         /\ DOMAIN [s EXCEPT ![k] = e] = DOMAIN s
         /\ [s EXCEPT ![k] = e][k] = e
         /\ \A i \in DOMAIN s : i # k => [s EXCEPT ![k] = e][i] = s[i]
OBVIOUS

LEMMA Shortened ==
  ASSUME NEW T, NEW s \in Seq(T), NEW k \in 0..Len(s)
  PROVE  /\ SubSeq(s, 1, k) \in Seq(T)
         /\ Len(SubSeq(s, 1, k)) = k
         /\ DOMAIN SubSeq(s, 1, k) = 1..k
         /\ \A i \in 1..k : SubSeq(s, 1, k)[i] = s[i]
OBVIOUS

LEMMA Tabulated ==
  ASSUME NEW T, NEW n \in Nat, NEW f \in [1..n -> T]
  PROVE  f \in Seq(T) /\ Len(f) = n
OBVIOUS

LEMMA Listed ==
  ASSUME NEW l \in Lists
  PROVE  /\ l \in Seq(ClassHashes) /\ Len(l) \in 0..MaxObjects
         /\ DOMAIN l = 1..Len(l)
<1>1. PICK m \in 0..MaxObjects : l \in [1..m -> ClassHashes]
  BY DEF Lists, SeqOf
<1>2. m \in Nat
  BY <1>1, DispatcherAssumption
<1>3. l \in Seq(ClassHashes) /\ Len(l) = m
  BY <1>1, <1>2, Tabulated
<1>4. QED
  BY <1>1, <1>3

-----------------------------------------------------------------------------
(* The innermost activation. *)

LEMMA Top ==
  ASSUME IInv, stack # <<>>
  PROVE  /\ Len(stack) \in DOMAIN stack /\ Len(stack) \in Nat \ {0}
         /\ top \in Frame /\ top = stack[Len(stack)] /\ ActivationInv(top)
<1>1. stack \in Seq(Frame)
  BY DEF IInv, TypeOK
<1>2. QED
  BY <1>1, NotEmpty DEF IInv, StackInv, top

LEMMA FrameFields ==
  ASSUME NEW f \in Frame
  PROVE  /\ f.ptr \in Nat /\ f.ptr >= 1 /\ f.ptr <= MaxStreams
         /\ f.objectList \in Lists
         /\ f.item \in Nat /\ f.item >= 1 /\ f.item <= MaxObjects + 1
         /\ f.calling \in BOOLEAN /\ f.handler \in Handlers
BY DispatcherAssumption DEF Frame

LEMMA FrameChanged ==
  ASSUME NEW f \in Frame, NEW k, NEW c, NEW h
  PROVE  [f EXCEPT !.item = k, !.calling = c, !.handler = h] =
           [ptr |-> f.ptr, objectList |-> f.objectList, item |-> k, calling |-> c,
            handler |-> h]
<1>1. PICK p, l, i, d, g :
         /\ p = f.ptr /\ l = f.objectList
         /\ f = [ptr |-> p, objectList |-> l, item |-> i, calling |-> d,
                 handler |-> g]
  BY DEF Frame
<1>2. [f EXCEPT !.item = k] =
        [ptr |-> p, objectList |-> l, item |-> k, calling |-> d, handler |-> g]
  BY <1>1
<1>3. PICK f2 : f2 = [f EXCEPT !.item = k]
  OBVIOUS
<1>4. f2 = [ptr |-> p, objectList |-> l, item |-> k, calling |-> d, handler |-> g]
  BY <1>2, <1>3
<1>5. [f2 EXCEPT !.calling = c] =
        [ptr |-> p, objectList |-> l, item |-> k, calling |-> c, handler |-> g]
  BY <1>4
<1>6. PICK f3 : f3 = [f2 EXCEPT !.calling = c]
  OBVIOUS
<1>7. f3 = [ptr |-> p, objectList |-> l, item |-> k, calling |-> c, handler |-> g]
  BY <1>5, <1>6
<1>8. [f3 EXCEPT !.handler = h] =
        [ptr |-> p, objectList |-> l, item |-> k, calling |-> c, handler |-> h]
  BY <1>7
<1>9. QED
  BY <1>1, <1>3, <1>6, <1>8

LEMMA IsFrame ==
  ASSUME NEW p \in 1..MaxStreams, NEW l \in Lists,
         NEW k \in Nat, 1 <= k, k <= MaxObjects + 1,
         NEW c \in BOOLEAN, NEW h \in Handlers
  PROVE  [ptr |-> p, objectList |-> l, item |-> k, calling |-> c, handler |-> h]
            \in Frame
BY DispatcherAssumption DEF Frame

-----------------------------------------------------------------------------
(* The invariant is kept.                                                  *)

LEMMA Initially == Init => IInv
<1>. SUFFICES ASSUME Init
              PROVE  IInv
  OBVIOUS
<1>1. _handlers \in [{} -> Handlers]
  BY DEF Init
<1>2. TypeOK
  <2>1. \E known \in SUBSET ClassHashes : _handlers \in [known -> Handlers]
    BY <1>1
  <2>2. /\ stack \in Seq(Frame) /\ contents \in Seq(Lists)
        /\ outcome \in Seq({"open", "returned", "thrown"})
        /\ fates \in Seq(Seq(Callables \union Tolerances))
        /\ Len(contents) = 0 /\ Len(outcome) = 0 /\ Len(fates) = 0
    BY DEF Init
  <2>3. _toleranceType \in Tolerances /\ changes \in 0..MaxChanges
        /\ 0 <= MaxStreams
    BY DispatcherAssumption DEF Init, Tolerances
  <2>4. QED
    BY <2>1, <2>2, <2>3 DEF TypeOK
<1>3. StackInv
  BY DEF Init, StackInv
<1>4. QED
  BY <1>2, <1>3 DEF IInv

(* A change of the configuration, and a step that changes nothing.         *)
LEMMA Reconfigured ==
  ASSUME IInv, UNCHANGED <<stack, contents, outcome, fates>>,
         changes' \in 0..MaxChanges, _toleranceType' \in Tolerances,
         \E known \in SUBSET ClassHashes : _handlers' \in [known -> Handlers]
  PROVE  IInv'
<1>1. TypeOK'
  BY DEF IInv, TypeOK
<1>2. StackInv'
  BY DEF IInv, StackInv, ActivationInv
<1>3. QED
  BY <1>1, <1>2 DEF IInv

(* The innermost activation goes on with its stream.                       *)
LEMMA Advanced ==
  ASSUME IInv, stack # <<>>, NEW f \in Frame, ReplaceTop(f),
         UNCHANGED <<_handlers, _toleranceType, changes, contents, outcome>>,
         f.ptr = top.ptr, f.objectList = top.objectList,
         fates' \in Seq(Seq(Callables \union Tolerances)),
         Len(fates') = Len(fates),
         \A s \in DOMAIN fates : s # top.ptr => fates'[s] = fates[s],
         ActivationInv(f)'
  PROVE  IInv'
<1>1. /\ stack \in Seq(Frame) /\ stack' \in Seq(Frame)
      /\ DOMAIN stack' = DOMAIN stack /\ Len(stack') = Len(stack)
      /\ stack'[Len(stack)] = f
      /\ \A i \in DOMAIN stack : i # Len(stack) => stack'[i] = stack[i]
  BY Top, Replaced DEF IInv, TypeOK, ReplaceTop
<1>2. TypeOK'
  BY <1>1 DEF IInv, TypeOK
<1>3. \A i \in DOMAIN stack : stack'[i].ptr = stack[i].ptr
  BY <1>1 DEF top
<1>4. \A i \in DOMAIN stack : i # Len(stack) => i < Len(stack)
  BY <1>1
<1>5. ASSUME NEW i \in DOMAIN stack'
      PROVE  ActivationInv(stack[i])'
  <2>1. CASE i = Len(stack)
    BY <1>1, <2>1 DEF ActivationInv
  <2>2. CASE i # Len(stack)
    <3>1. stack'[i] = stack[i] /\ ActivationInv(stack[i])
      BY <1>1, <2>2 DEF IInv, StackInv
    <3>2. stack[i].ptr # top.ptr
      <4>1. i < Len(stack) /\ Len(stack) \in DOMAIN stack /\ i \in DOMAIN stack
        BY <1>1, <1>4, <2>2, Top
      <4>2. stack[i].ptr < top.ptr
        BY <4>1 DEF IInv, StackInv, top
      <4>3. top.ptr \in Nat
        BY Top, FrameFields
      <4>4. stack[i].ptr \in Nat
        BY <1>1, <4>1, FrameFields
      <4>5. QED
        BY <4>2, <4>3, <4>4
    <3>3. stack[i].ptr \in DOMAIN fates
      BY <3>1 DEF ActivationInv, IInv, TypeOK
    <3>4. fates'[stack[i].ptr] = fates[stack[i].ptr]
      BY <3>2, <3>3
    <3>5. QED
      BY <3>1, <3>4 DEF ActivationInv
  <2>3. QED
    BY <2>1, <2>2
<1>6. \A i, j \in DOMAIN stack' :
        i < j => stack'[i].ptr < stack'[j].ptr /\ stack'[i].calling
  <2>. SUFFICES ASSUME NEW i \in DOMAIN stack, NEW j \in DOMAIN stack, i < j
                PROVE  stack'[i].ptr < stack'[j].ptr /\ stack'[i].calling
    BY <1>1
  <2>1. stack[i].ptr < stack[j].ptr /\ stack[i].calling
    BY DEF IInv, StackInv
  <2>2. i # Len(stack)
    BY <1>1
  <2>3. QED
    BY <1>1, <1>3, <2>1, <2>2
<1>7. StackInv'
  BY <1>1, <1>3, <1>5, <1>6 DEF IInv, StackInv
<1>8. QED
  BY <1>2, <1>7 DEF IInv

(* Some of the innermost activations end.                                  *)
LEMMA Ended ==
  ASSUME IInv, NEW n \in 1..Len(stack),
         stack' = SubSeq(stack, 1, Len(stack) - n),
         UNCHANGED <<_handlers, _toleranceType, changes, contents, fates>>,
         outcome' \in Seq({"open", "returned", "thrown"}),
         Len(outcome') = Len(outcome),
         \A s \in DOMAIN outcome :
           outcome'[s] # outcome[s] <=>
             \E i \in (Len(stack) - n + 1)..Len(stack) : stack[i].ptr = s,
         \A s \in DOMAIN outcome : outcome'[s] # outcome[s] => outcome'[s] # "open"
  PROVE  IInv'
<1>. DEFINE k == Len(stack) - n
<1>1. stack \in Seq(Frame) /\ Len(stack) \in Nat /\ k \in 0..Len(stack) /\ k \in Nat
      /\ k < Len(stack)
  BY DEF IInv, TypeOK
<1>2. /\ stack' \in Seq(Frame) /\ DOMAIN stack' = 1..k
      /\ \A i \in 1..k : stack'[i] = stack[i]
  BY <1>1, Shortened
<1>3. TypeOK'
  BY <1>2 DEF IInv, TypeOK
<1>4. \A i \in 1..k : i \in DOMAIN stack
  BY <1>1
<1>5. ASSUME NEW i \in 1..k
      PROVE  ActivationInv(stack[i])'
  <2>1. stack'[i] = stack[i] /\ ActivationInv(stack[i])
    BY <1>2, <1>4 DEF IInv, StackInv
  <2>2. ASSUME NEW j \in (k + 1)..Len(stack)
        PROVE  stack[j].ptr # stack[i].ptr
    <3>1. j \in DOMAIN stack /\ i \in DOMAIN stack /\ i < j
      BY <1>1, <1>4
    <3>2. stack[i].ptr < stack[j].ptr
      BY <3>1 DEF IInv, StackInv
    <3>3. stack[i].ptr \in Nat /\ stack[j].ptr \in Nat
      BY <1>1, <3>1, FrameFields
    <3>4. QED
      BY <3>2, <3>3
  <2>3. stack[i].ptr \in DOMAIN outcome
    BY <2>1 DEF ActivationInv, IInv, TypeOK
  <2>4. outcome'[stack[i].ptr] = outcome[stack[i].ptr]
    BY <2>2, <2>3
  <2>5. QED
    BY <2>1, <2>4 DEF ActivationInv
<1>6. \A i, j \in 1..k :
        i < j => stack'[i].ptr < stack'[j].ptr /\ stack'[i].calling
  BY <1>2, <1>4 DEF IInv, StackInv
<1>7. ASSUME NEW s \in DOMAIN outcome', outcome'[s] = "open"
      PROVE  \E i \in 1..k : stack'[i].ptr = s
  <2>1. s \in DOMAIN outcome
    BY DEF IInv, TypeOK
  <2>2. outcome[s] = "open"
    BY <1>7, <2>1
  <2>3. PICK i \in DOMAIN stack : stack[i].ptr = s
    BY <2>1, <2>2 DEF IInv, StackInv
  <2>4. i \notin (k + 1)..Len(stack)
    BY <1>7, <2>1, <2>2, <2>3
  <2>5. i \in 1..k
    BY <1>1, <2>4
  <2>6. QED
    BY <1>2, <2>3, <2>5
<1>8. StackInv'
  BY <1>2, <1>5, <1>6, <1>7 DEF StackInv
<1>9. QED
  BY <1>3, <1>8 DEF IInv

LEMMA ConfigurationStep ==
  ASSUME IInv,
         \/ \E c \in ClassHashes, h \in Handlers : SetHandler(c, h)
         \/ \E c \in ClassHashes : ClearHandler(c)
         \/ \E type \in Tolerances : SetMissingHandlerTolerance(type)
  PROVE  /\ IInv'
         /\ UNCHANGED <<stack, contents, outcome, fates>>
         /\ \E known \in SUBSET ClassHashes : _handlers' \in [known -> Handlers]
         /\ _toleranceType' \in Tolerances
<1>1. changes \in 0..MaxChanges /\ changes < MaxChanges => changes + 1 \in 0..MaxChanges
  BY DispatcherAssumption
<1>2. PICK known \in SUBSET ClassHashes : _handlers \in [known -> Handlers]
  BY DEF IInv, TypeOK
<1>3. CASE \E c \in ClassHashes, h \in Handlers : SetHandler(c, h)
  <2>1. PICK c \in ClassHashes, h \in Handlers : SetHandler(c, h)
    BY <1>3
  <2>2. _handlers' \in [known \union {c} -> Handlers]
    BY <1>2, <2>1 DEF SetHandler
  <2>3. known \union {c} \in SUBSET ClassHashes
    OBVIOUS
  <2>4. changes' \in 0..MaxChanges /\ _toleranceType' \in Tolerances
        /\ UNCHANGED <<stack, contents, outcome, fates>>
    BY <1>1, <2>1 DEF SetHandler, IInv, TypeOK
  <2>5. QED
    BY <2>2, <2>3, <2>4, Reconfigured
<1>4. CASE \E c \in ClassHashes : ClearHandler(c)
  <2>1. PICK c \in ClassHashes : ClearHandler(c)
    BY <1>4
  <2>2. _handlers' \in [known \ {c} -> Handlers]
    BY <1>2, <2>1 DEF ClearHandler
  <2>3. known \ {c} \in SUBSET ClassHashes
    OBVIOUS
  <2>4. changes' \in 0..MaxChanges /\ _toleranceType' \in Tolerances
        /\ UNCHANGED <<stack, contents, outcome, fates>>
    BY <1>1, <2>1 DEF ClearHandler, IInv, TypeOK
  <2>5. QED
    BY <2>2, <2>3, <2>4, Reconfigured
<1>5. CASE \E type \in Tolerances : SetMissingHandlerTolerance(type)
  <2>1. /\ changes' \in 0..MaxChanges /\ _toleranceType' \in Tolerances
        /\ UNCHANGED <<_handlers, stack, contents, outcome, fates>>
    BY <1>1, <1>5 DEF SetMissingHandlerTolerance, IInv, TypeOK
  <2>2. QED
    BY <1>2, <2>1, Reconfigured
<1>6. QED
  BY <1>3, <1>4, <1>5

(* A new stream becomes the innermost.                                     *)
LEMMA HandleStreamStep ==
  ASSUME IInv, NEW objects \in Lists, HandleStream(objects)
  PROVE  IInv'
<1>. DEFINE f == [ptr |-> Len(contents) + 1, objectList |-> objects,
                  item |-> 1, calling |-> FALSE, handler |-> EmptyFunction]
            n == Len(contents)
            F == Seq(Callables \union Tolerances)
<1>1. /\ contents \in Seq(Lists) /\ n \in Nat /\ n < MaxStreams
      /\ outcome \in Seq({"open", "returned", "thrown"}) /\ Len(outcome) = n
      /\ fates \in Seq(F) /\ Len(fates) = n
      /\ DOMAIN contents = 1..n /\ DOMAIN outcome = 1..n /\ DOMAIN fates = 1..n
      /\ stack \in Seq(Frame) /\ Len(stack) \in Nat
  BY DEF IInv, TypeOK, HandleStream
<1>2. f \in Frame
  <2>1. /\ n + 1 \in 1..MaxStreams /\ EmptyFunction \in Handlers
        /\ 1 \in Nat /\ 1 <= 1 /\ 1 <= MaxObjects + 1 /\ FALSE \in BOOLEAN
    BY <1>1, DispatcherAssumption
  <2>2. QED
    BY <2>1, IsFrame
<1>3. /\ contents' \in Seq(Lists) /\ Len(contents') = n + 1
      /\ DOMAIN contents' = 1..(n + 1)
      /\ \A k \in 1..n : contents'[k] = contents[k]
      /\ contents'[n + 1] = objects
  BY <1>1, Appended DEF HandleStream
<1>4. /\ outcome' \in Seq({"open", "returned", "thrown"}) /\ Len(outcome') = n + 1
      /\ DOMAIN outcome' = 1..(n + 1)
      /\ \A k \in 1..n : outcome'[k] = outcome[k]
      /\ outcome'[n + 1] = "open"
  BY <1>1, Appended DEF HandleStream
<1>5. /\ fates' \in Seq(F) /\ Len(fates') = n + 1
      /\ DOMAIN fates' = 1..(n + 1)
      /\ \A k \in 1..n : fates'[k] = fates[k]
      /\ fates'[n + 1] = <<>>
  <2>1. <<>> \in F
    OBVIOUS
  <2>. HIDE DEF F
  <2>2. QED
    BY <1>1, <2>1, Appended DEF HandleStream
<1>6. /\ stack' \in Seq(Frame) /\ Len(stack') = Len(stack) + 1
      /\ DOMAIN stack' = 1..(Len(stack) + 1) /\ DOMAIN stack = 1..Len(stack)
      /\ \A k \in 1..Len(stack) : stack'[k] = stack[k]
      /\ stack'[Len(stack) + 1] = f
  BY <1>1, <1>2, Appended DEF HandleStream
<1>7. TypeOK'
  BY <1>1, <1>3, <1>4, <1>5, <1>6, DispatcherAssumption
     DEF IInv, TypeOK, HandleStream
<1>8. \A k \in 1..Len(stack) : stack[k].ptr \in 1..n
  BY <1>1, <1>6 DEF IInv, StackInv, ActivationInv
<1>9. (\A i \in DOMAIN stack : ActivationInv(stack[i]))'
  <2>. SUFFICES ASSUME NEW i \in 1..(Len(stack) + 1)
                PROVE  ActivationInv(stack[i])'
    BY <1>6
  <2>1. CASE i = Len(stack) + 1
    <3>1. stack'[i] = f /\ n + 1 \in 1..(n + 1)
      BY <1>1, <1>6, <2>1
    <3>2. Len(objects) \in Nat
      BY Listed
    <3>3. QED
      BY <1>3, <1>4, <1>5, <3>1, <3>2 DEF ActivationInv
  <2>2. CASE i # Len(stack) + 1
    <3>1. i \in 1..Len(stack)
      BY <1>1, <2>2
    <3>2. ActivationInv(stack[i]) /\ stack'[i] = stack[i] /\ stack[i].ptr \in 1..n
      BY <1>6, <1>8, <3>1 DEF IInv, StackInv
    <3>3. stack[i].ptr \in DOMAIN contents'
      BY <1>1, <1>3, <3>2
    <3>4. /\ contents'[stack[i].ptr] = contents[stack[i].ptr]
          /\ outcome'[stack[i].ptr] = outcome[stack[i].ptr]
          /\ fates'[stack[i].ptr] = fates[stack[i].ptr]
      BY <1>3, <1>4, <1>5, <3>2
    <3>5. QED
      BY <3>2, <3>3, <3>4 DEF ActivationInv
  <2>3. QED
    BY <2>1, <2>2
<1>10. \A i, j \in DOMAIN stack' :
         i < j => stack'[i].ptr < stack'[j].ptr /\ stack'[i].calling
  <2>. SUFFICES ASSUME NEW i \in 1..(Len(stack) + 1), NEW j \in 1..(Len(stack) + 1),
                       i < j
                PROVE  stack'[i].ptr < stack'[j].ptr /\ stack'[i].calling
    BY <1>6
  <2>1. i \in 1..Len(stack) /\ stack'[i] = stack[i] /\ stack[i].ptr \in 1..n
    BY <1>1, <1>6, <1>8
  <2>2. CASE j = Len(stack) + 1
    <3>1. stack'[j].ptr = n + 1
      BY <1>6, <2>2
    <3>2. stack[i].calling
      <4>1. CASE i = Len(stack)
        BY <2>1, <4>1 DEF HandleStream, UserInControl, top
      <4>2. CASE i # Len(stack)
        <5>1. Len(stack) \in DOMAIN stack /\ i \in DOMAIN stack /\ i < Len(stack)
          BY <1>1, <1>6, <2>1, <4>2
        <5>2. QED
          BY <5>1 DEF IInv, StackInv
      <4>3. QED
        BY <4>1, <4>2
    <3>3. QED
      BY <1>1, <2>1, <3>1, <3>2
  <2>3. CASE j # Len(stack) + 1
    <3>1. j \in 1..Len(stack)
      BY <1>1, <2>3
    <3>2. QED
      BY <1>6, <2>1, <3>1 DEF IInv, StackInv
  <2>4. QED
    BY <2>2, <2>3
<1>11. ASSUME NEW s \in DOMAIN outcome', outcome'[s] = "open"
       PROVE  \E i \in DOMAIN stack' : stack'[i].ptr = s
  <2>1. CASE s = n + 1
    <3>1. Len(stack) + 1 \in DOMAIN stack' /\ stack'[Len(stack) + 1].ptr = n + 1
      BY <1>1, <1>6
    <3>2. QED
      BY <2>1, <3>1
  <2>2. CASE s # n + 1
    <3>1. s \in DOMAIN outcome /\ outcome[s] = "open"
      BY <1>1, <1>4, <1>11, <2>2
    <3>2. PICK i \in DOMAIN stack : stack[i].ptr = s
      BY <3>1 DEF IInv, StackInv
    <3>3. i \in DOMAIN stack' /\ stack'[i].ptr = s
      BY <1>1, <1>6, <3>2
    <3>4. QED
      BY <3>3
  <2>3. QED
    BY <2>1, <2>2
<1>12. StackInv'
  BY <1>9, <1>10, <1>11 DEF StackInv
<1>13. QED
  BY <1>7, <1>12 DEF IInv

(* The fate of the object whose turn it is.                                *)
LEMMA Recorded ==
  ASSUME IInv, stack # <<>>, NEW fate \in Callables \union Tolerances, Record(fate)
  PROVE  /\ fates' \in Seq(Seq(Callables \union Tolerances))
         /\ Len(fates') = Len(fates) /\ DOMAIN fates' = DOMAIN fates
         /\ \A s \in DOMAIN fates : s # top.ptr => fates'[s] = fates[s]
         /\ fates'[top.ptr] = Append(fates[top.ptr], fate)
         /\ Len(fates'[top.ptr]) = Len(fates[top.ptr]) + 1
         /\ fates'[top.ptr][Len(fates[top.ptr]) + 1] = fate
<1>. DEFINE T == Callables \union Tolerances
            l == fates[top.ptr]
<1>1. fates \in Seq(Seq(T)) /\ Len(fates) \in Nat
  BY DEF IInv, TypeOK
<1>2. top.ptr \in DOMAIN fates
  <2>1. top.ptr \in DOMAIN contents
    BY Top DEF ActivationInv
  <2>2. QED
    BY <2>1 DEF IInv, TypeOK
<1>3. l \in Seq(T) /\ fate \in T
  BY <1>1, <1>2
<1>. HIDE DEF T
<1>4. /\ Append(l, fate) \in Seq(T) /\ Len(Append(l, fate)) = Len(l) + 1
      /\ Append(l, fate)[Len(l) + 1] = fate
  BY <1>3, Appended
<1>5. fates' = [fates EXCEPT ![top.ptr] = Append(l, fate)]
  BY <1>2 DEF Record
<1>6. /\ fates' \in Seq(Seq(T)) /\ Len(fates') = Len(fates)
      /\ DOMAIN fates' = DOMAIN fates
      /\ fates'[top.ptr] = Append(l, fate)
      /\ \A s \in DOMAIN fates : s # top.ptr => fates'[s] = fates[s]
  BY <1>1, <1>2, <1>4, <1>5, Replaced
<1>7. QED
  BY <1>4, <1>6 DEF T

LEMMA IgnoreStep ==
  ASSUME IInv, Ignore
  PROVE  IInv'
<1>1. stack # <<>> /\ ~top.calling /\ top.item <= Len(top.objectList)
  BY DEF Ignore, InLoop, HasItem
<1>2. top \in Frame /\ ActivationInv(top)
  BY <1>1, Top
<1>3. /\ top.ptr \in 1..MaxStreams /\ top.objectList \in Lists
      /\ top.item \in Nat /\ top.calling \in BOOLEAN /\ top.handler \in Handlers
  BY <1>2, DispatcherAssumption DEF Frame
<1>4. Len(top.objectList) \in Nat /\ Len(top.objectList) <= MaxObjects
  BY <1>3, Listed, DispatcherAssumption
<1>5. PICK f : f = [top EXCEPT !.item = @ + 1]
  OBVIOUS
<1>6. f = [ptr |-> top.ptr, objectList |-> top.objectList, item |-> top.item + 1,
           calling |-> top.calling, handler |-> top.handler]
  BY <1>2, <1>5 DEF Frame
<1>7. f \in Frame
  <2>1. top.item + 1 \in Nat /\ 1 <= top.item + 1 /\ top.item + 1 <= MaxObjects + 1
    BY <1>1, <1>3, <1>4, DispatcherAssumption
  <2>2. QED
    BY <1>3, <1>6, <2>1, IsFrame
<1>8. _toleranceType \in Callables \union Tolerances
  BY DEF IInv, TypeOK
<1>9. /\ fates' \in Seq(Seq(Callables \union Tolerances))
      /\ Len(fates') = Len(fates)
      /\ \A s \in DOMAIN fates : s # top.ptr => fates'[s] = fates[s]
      /\ Len(fates'[top.ptr]) = Len(fates[top.ptr]) + 1
  <2>1. Record(_toleranceType)
    BY DEF Ignore
  <2>2. QED
    BY <1>1, <1>8, <2>1, Recorded
<1>10. /\ f.ptr = top.ptr /\ f.objectList = top.objectList
       /\ f.item = top.item + 1 /\ f.calling = FALSE
  BY <1>1, <1>3, <1>6
<1>11. /\ ReplaceTop(f)
       /\ UNCHANGED <<_handlers, _toleranceType, changes, contents, outcome>>
  BY <1>5 DEF Ignore
<1>12. ActivationInv(f)'
  BY <1>1, <1>2, <1>3, <1>4, <1>9, <1>10, <1>11, SMTT(30) DEF ActivationInv
<1>13. QED
  BY <1>1, <1>7, <1>9, <1>10, <1>11, <1>12, Advanced

(* What the map holds for the next object.                                 *)
LEMMA Found ==
  ASSUME IInv, ~Missing
  PROVE  _handlers[item] \in Handlers
BY DEF IInv, TypeOK, Missing

LEMMA CallHandlerStep ==
  ASSUME IInv, CallHandler
  PROVE  IInv'
<1>1. stack # <<>> /\ ~top.calling /\ top.item <= Len(top.objectList)
  BY DEF CallHandler, InLoop, HasItem
<1>2. top \in Frame /\ ActivationInv(top)
  BY <1>1, Top
<1>3. /\ top.ptr \in 1..MaxStreams /\ top.objectList \in Lists
      /\ top.item \in Nat /\ 1 <= top.item /\ top.item <= MaxObjects + 1
  BY <1>2, DispatcherAssumption DEF Frame
<1>4. PICK h \in Callables : h = _handlers[item]
  BY Found DEF CallHandler, Callables
<1>5. h \in Handlers /\ h \in Callables \union Tolerances /\ TRUE \in BOOLEAN
  BY DEF Callables
<1>6. PICK f : f = [top EXCEPT !.calling = TRUE, !.handler = h]
  OBVIOUS
<1>7. f = [ptr |-> top.ptr, objectList |-> top.objectList, item |-> top.item,
           calling |-> TRUE, handler |-> h]
  BY <1>2, <1>6 DEF Frame
<1>8. f \in Frame
  BY <1>3, <1>5, <1>7, IsFrame
<1>9. /\ Record(h) /\ ReplaceTop(f)
      /\ UNCHANGED <<_handlers, _toleranceType, changes, contents, outcome>>
  BY <1>4, <1>6 DEF CallHandler
<1>10. /\ fates' \in Seq(Seq(Callables \union Tolerances))
       /\ Len(fates') = Len(fates)
       /\ \A s \in DOMAIN fates : s # top.ptr => fates'[s] = fates[s]
       /\ Len(fates'[top.ptr]) = Len(fates[top.ptr]) + 1
       /\ fates'[top.ptr][Len(fates[top.ptr]) + 1] = h
  BY <1>1, <1>5, <1>9, Recorded
<1>11. /\ f.ptr = top.ptr /\ f.objectList = top.objectList
       /\ f.item = top.item /\ f.calling = TRUE /\ f.handler = h
  BY <1>7
<1>12. ActivationInv(f)'
  <2>1. Len(fates[top.ptr]) + 1 = top.item
    BY <1>1, <1>2, <1>3 DEF ActivationInv
  <2>2. Len(top.objectList) \in Nat
    BY <1>3, Listed
  <2>3. top.item <= Len(top.objectList) + 1
    BY <1>1, <1>3, <2>2
  <2>4. QED
    BY <1>1, <1>2, <1>4, <1>9, <1>10, <1>11, <2>1, <2>3
       DEF ActivationInv, Callables
<1>13. QED
  BY <1>1, <1>8, <1>9, <1>10, <1>11, <1>12, Advanced

LEMMA HandlerReturnsStep ==
  ASSUME IInv, HandlerReturns
  PROVE  IInv'
<1>1. stack # <<>> /\ top.calling
  BY DEF HandlerReturns
<1>2. top \in Frame /\ ActivationInv(top)
  BY <1>1, Top
<1>3. /\ top.ptr \in 1..MaxStreams /\ top.objectList \in Lists
      /\ top.item \in Nat /\ EmptyFunction \in Handlers /\ FALSE \in BOOLEAN
  BY <1>2, DispatcherAssumption DEF Frame
<1>4. Len(top.objectList) \in Nat /\ Len(top.objectList) <= MaxObjects
  BY <1>3, Listed, DispatcherAssumption
<1>5. PICK f : f = [top EXCEPT !.item = @ + 1, !.calling = FALSE,
                               !.handler = EmptyFunction]
  OBVIOUS
<1>6. f = [ptr |-> top.ptr, objectList |-> top.objectList, item |-> top.item + 1,
           calling |-> FALSE, handler |-> EmptyFunction]
  BY <1>2, <1>5, FrameChanged
<1>7. f \in Frame
  <2>1. top.item + 1 \in Nat /\ 1 <= top.item + 1 /\ top.item + 1 <= MaxObjects + 1
    BY <1>1, <1>2, <1>3, <1>4, DispatcherAssumption, SMTT(30) DEF ActivationInv
  <2>2. QED
    BY <1>3, <1>6, <2>1, IsFrame
<1>8. /\ f.ptr = top.ptr /\ f.objectList = top.objectList
      /\ f.item = top.item + 1 /\ f.calling = FALSE
  BY <1>6
<1>9. /\ ReplaceTop(f)
      /\ UNCHANGED <<_handlers, _toleranceType, changes, contents, outcome, fates>>
  BY <1>5 DEF HandlerReturns, history
<1>10. fates' \in Seq(Seq(Callables \union Tolerances)) /\ Len(fates') = Len(fates)
  BY <1>9 DEF IInv, TypeOK
<1>11. ActivationInv(f)'
  BY <1>1, <1>2, <1>3, <1>4, <1>8, <1>9 DEF ActivationInv
<1>12. QED
  BY <1>1, <1>7, <1>8, <1>9, <1>10, <1>11, Advanced

(* An exception.                                                           *)
LEMMA UnwindStep ==
  ASSUME IInv, NEW n \in 1..Len(stack), Unwind(n),
         UNCHANGED <<_handlers, _toleranceType, changes, contents, fates>>
  PROVE  /\ IInv'
         /\ DOMAIN outcome' = DOMAIN outcome
         /\ \A s \in DOMAIN outcome :
              outcome'[s] = IF \E i \in (Len(stack) - n + 1)..Len(stack) : stack[i].ptr = s
                            THEN "thrown" ELSE outcome[s]
<1>. DEFINE Left(s) == \E i \in (Len(stack) - n + 1)..Len(stack) : stack[i].ptr = s
<1>1. outcome' = [s \in DOMAIN outcome |-> IF Left(s) THEN "thrown" ELSE outcome[s]]
  BY DEF Unwind
<1>2. outcome \in Seq({"open", "returned", "thrown"}) /\ Len(stack) \in Nat
      /\ DOMAIN stack = 1..Len(stack)
  BY DEF IInv, TypeOK
<1>3. \A s \in DOMAIN outcome : Left(s) => outcome[s] = "open"
  <2>1. ASSUME NEW i \in (Len(stack) - n + 1)..Len(stack)
        PROVE  outcome[stack[i].ptr] = "open"
    <3>1. i \in DOMAIN stack
      BY <1>2
    <3>2. QED
      BY <3>1 DEF IInv, StackInv, ActivationInv
  <2>2. QED
    BY <2>1
<1>. HIDE DEF Left
<1>4. /\ DOMAIN outcome' = DOMAIN outcome
      /\ \A s \in DOMAIN outcome : outcome'[s] = IF Left(s) THEN "thrown" ELSE outcome[s]
  BY <1>1
<1>5. outcome' \in [1..Len(outcome) -> {"open", "returned", "thrown"}]
  BY <1>1, <1>2
<1>6. outcome' \in Seq({"open", "returned", "thrown"}) /\ Len(outcome') = Len(outcome)
  BY <1>2, <1>5, Tabulated
<1>7. \A s \in DOMAIN outcome : outcome'[s] # outcome[s] <=> Left(s)
  BY <1>3, <1>4
<1>8. \A s \in DOMAIN outcome : outcome'[s] # outcome[s] => outcome'[s] # "open"
  BY <1>4
<1>9. stack' = SubSeq(stack, 1, Len(stack) - n)
  BY DEF Unwind
<1>10. IInv'
  BY <1>6, <1>7, <1>8, <1>9, Ended DEF Left
<1>11. QED
  BY <1>4, <1>10 DEF Left

LEMMA ReturnStep ==
  ASSUME IInv, Return
  PROVE  IInv'
<1>1. stack # <<>>
  BY DEF Return, InLoop
<1>2. /\ Len(stack) \in Nat \ {0} /\ top = stack[Len(stack)]
      /\ top.ptr \in DOMAIN outcome /\ outcome[top.ptr] = "open"
  <2>1. Len(stack) \in Nat \ {0} /\ top = stack[Len(stack)] /\ ActivationInv(top)
    BY <1>1, Top
  <2>2. QED
    BY <2>1 DEF ActivationInv, IInv, TypeOK
<1>3. outcome' = [outcome EXCEPT ![top.ptr] = "returned"]
  BY DEF Return
<1>4. outcome \in Seq({"open", "returned", "thrown"})
  BY DEF IInv, TypeOK
<1>5. "returned" \in {"open", "returned", "thrown"}
  OBVIOUS
<1>6. /\ outcome' \in Seq({"open", "returned", "thrown"}) /\ Len(outcome') = Len(outcome)
      /\ outcome'[top.ptr] = "returned"
      /\ \A s \in DOMAIN outcome : s # top.ptr => outcome'[s] = outcome[s]
  BY <1>2, <1>3, <1>4, <1>5, Replaced
<1>7. \A s \in DOMAIN outcome :
        outcome'[s] # outcome[s] <=>
          \E i \in (Len(stack) - 1 + 1)..Len(stack) : stack[i].ptr = s
  <2>1. \A i : i \in (Len(stack) - 1 + 1)..Len(stack) <=> i = Len(stack)
    BY <1>2
  <2>2. QED
    BY <1>2, <1>6, <2>1
<1>8. \A s \in DOMAIN outcome : outcome'[s] # outcome[s] => outcome'[s] # "open"
  BY <1>6
<1>9. /\ stack' = SubSeq(stack, 1, Len(stack) - 1) /\ 1 \in 1..Len(stack)
      /\ UNCHANGED <<_handlers, _toleranceType, changes, contents, fates>>
  BY <1>2 DEF Return, Front
<1>10. QED
  BY <1>6, <1>7, <1>8, <1>9, Ended

LEMMA Kept == IInv /\ [Next]_vars => IInv'
<1>. SUFFICES ASSUME IInv, [Next]_vars
              PROVE  IInv'
  OBVIOUS
<1>1. CASE \/ \E c \in ClassHashes, h \in Handlers : SetHandler(c, h)
           \/ \E c \in ClassHashes : ClearHandler(c)
           \/ \E type \in Tolerances : SetMissingHandlerTolerance(type)
  BY <1>1, ConfigurationStep
<1>2. CASE \E objects \in Lists : HandleStream(objects)
  BY <1>2, HandleStreamStep
<1>3. CASE LoopStep
  <2>1. CASE Ignore
    BY <2>1, IgnoreStep
  <2>2. CASE CallHandler
    BY <2>2, CallHandlerStep
  <2>3. CASE Return
    BY <2>3, ReturnStep
  <2>4. ASSUME NEW n \in 1..Len(stack), ThrowMissing(n) \/ CallEmpty(n)
        PROVE  IInv'
    BY <2>4, UnwindStep DEF ThrowMissing, CallEmpty
  <2>5. QED
    BY <1>3, <2>1, <2>2, <2>3, <2>4 DEF LoopStep
<1>4. CASE HandlerEnds
  <2>1. CASE HandlerReturns
    BY <2>1, HandlerReturnsStep
  <2>2. ASSUME NEW n \in 1..Len(stack), HandlerThrows(n)
        PROVE  IInv'
    BY <2>2, UnwindStep DEF HandlerThrows
  <2>3. QED
    BY <1>4, <2>1, <2>2 DEF HandlerEnds
<1>5. CASE UNCHANGED vars
  <2>1. UNCHANGED <<_handlers, _toleranceType, stack, changes, contents, outcome, fates>>
    BY <1>5 DEF vars, history
  <2>2. QED
    BY <2>1, Reconfigured DEF IInv, TypeOK
<1>6. QED
  BY <1>1, <1>2, <1>3, <1>4, <1>5 DEF Next

(* The inductive invariant holds in every state.                           *)
THEOREM Invariant == Spec => []IInv
BY Initially, Kept, PTL DEF Spec

(* Every state of the dispatcher has the type its comments say.            *)
THEOREM TypeCorrect == Spec => []TypeOK
<1>1. IInv => TypeOK
  BY DEF IInv
<1>2. QED
  BY <1>1, Invariant, PTL

(* A handler that is running is the one found for its object when its turn  *)
(* came: handleStream calls a copy, which nothing the handlers do replaces. *)
THEOREM RunningIsFound == Spec => []RunsWhatWasFound
<1>1. IInv => RunsWhatWasFound
  <2>. SUFFICES ASSUME IInv, NEW i \in DOMAIN stack, stack[i].calling
                PROVE  Running(stack[i]) = Last(fates[stack[i].ptr])
    BY DEF RunsWhatWasFound
  <2>1. ActivationInv(stack[i])
    BY DEF IInv, StackInv
  <2>2. QED
    BY <2>1 DEF ActivationInv, Running, Last
<1>2. QED
  BY <1>1, Invariant, PTL

-----------------------------------------------------------------------------
(* The promise of Dispatch.                                                *)

LEMMA Mapped ==
  ASSUME IInv
  PROVE  /\ DOMAIN contents = 1..Len(contents) /\ Len(contents) \in Nat
         /\ DOMAIN outcome = DOMAIN contents /\ DOMAIN fates = DOMAIN contents
         /\ DOMAIN streams = DOMAIN contents
         /\ \A s \in DOMAIN contents :
              streams[s] = [objects |-> contents[s], fates |-> fates[s],
                            status |-> outcome[s]]
BY DEF IInv, TypeOK, streams

(* The innermost activation is that of the innermost stream.               *)
LEMMA InnermostIsTop ==
  ASSUME IInv, stack # <<>>
  PROVE  /\ top.ptr \in D!Open /\ D!Innermost(top.ptr)
         /\ \A s \in D!Open : s <= top.ptr
         /\ top.ptr \in Nat /\ top.ptr \in DOMAIN contents
<1>1. /\ Len(stack) \in DOMAIN stack /\ top = stack[Len(stack)] /\ top \in Frame
      /\ ActivationInv(top) /\ stack \in Seq(Frame)
  BY Top DEF IInv, TypeOK
<1>2. top.ptr \in DOMAIN contents /\ streams[top.ptr].status = "open"
  BY <1>1, Mapped DEF ActivationInv
<1>3. top.ptr \in D!Open
  BY <1>2, Mapped DEF D!Open
<1>4. ASSUME NEW t \in D!Open
      PROVE  t <= top.ptr
  <2>1. t \in DOMAIN outcome /\ outcome[t] = "open"
    BY Mapped DEF D!Open
  <2>2. PICK i \in DOMAIN stack : stack[i].ptr = t
    BY <2>1 DEF IInv, StackInv
  <2>3. CASE i = Len(stack)
    <3>1. t = top.ptr /\ top.ptr \in Nat
      BY <1>1, <2>2, <2>3, FrameFields
    <3>2. QED
      BY <3>1
  <2>4. CASE i # Len(stack)
    <3>1. i < Len(stack)
      BY <1>1, <2>4
    <3>2. stack[i].ptr < stack[Len(stack)].ptr
      BY <1>1, <3>1 DEF IInv, StackInv
    <3>3. stack[i] \in Frame
      BY <1>1
    <3>4. stack[i].ptr \in Nat /\ top.ptr \in Nat
      BY <1>1, <3>3, FrameFields
    <3>5. QED
      BY <1>1, <2>2, <3>2, <3>4
  <2>5. QED
    BY <2>3, <2>4
<1>5. top.ptr \in Nat
  BY <1>1, FrameFields
<1>6. QED
  BY <1>2, <1>3, <1>4, <1>5 DEF D!Innermost

LEMMA NothingOpen ==
  ASSUME IInv, stack = <<>>
  PROVE  D!Open = {}
<1>1. DOMAIN stack = {}
  OBVIOUS
<1>2. \A s \in DOMAIN outcome : outcome[s] # "open"
  BY <1>1 DEF IInv, StackInv
<1>3. QED
  BY <1>2, Mapped DEF D!Open

(* The object whose turn it is.                                            *)
LEMMA TurnIsItem ==
  ASSUME IInv, InLoop
  PROVE  /\ D!Remaining(top.ptr) <=> HasItem
         /\ HasItem => D!Turn(top.ptr) = item
         /\ streams[top.ptr].fates = fates[top.ptr]
<1>1. /\ top \in Frame /\ ActivationInv(top) /\ ~top.calling
  BY Top DEF InLoop
<1>2. streams[top.ptr] = [objects |-> contents[top.ptr], fates |-> fates[top.ptr],
                          status |-> outcome[top.ptr]]
  BY <1>1, Mapped DEF ActivationInv
<1>3. top.item \in Nat /\ Len(top.objectList) \in Nat
  BY <1>1, FrameFields, Listed
<1>4. Len(fates[top.ptr]) = top.item - 1 /\ top.objectList = contents[top.ptr]
  BY <1>1 DEF ActivationInv
<1>5. Len(fates[top.ptr]) + 1 = top.item
  BY <1>3, <1>4
<1>6. (Len(fates[top.ptr]) < Len(top.objectList)) <=> HasItem
  BY <1>3, <1>4 DEF HasItem
<1>7. QED
  BY <1>2, <1>4, <1>5, <1>6 DEF D!Remaining, D!Turn, item

(* A handler that is on is one for the last object.                        *)
LEMMA CallingMayRun ==
  ASSUME IInv, stack # <<>>, top.calling
  PROVE  D!MayRun(top.ptr)
<1>1. top \in Frame /\ ActivationInv(top)
  BY Top
<1>2. streams[top.ptr].fates = fates[top.ptr]
  BY <1>1, Mapped DEF ActivationInv
<1>3. top.item \in Nat /\ top.item >= 1
  BY <1>1, FrameFields
<1>4. /\ Len(fates[top.ptr]) = top.item
      /\ fates[top.ptr][top.item] \in Handlers \ {EmptyFunction}
  BY <1>1 DEF ActivationInv, Callables
<1>5. fates[top.ptr] # <<>>
  BY <1>3, <1>4
<1>6. QED
  BY <1>2, <1>4, <1>5 DEF D!MayRun

LEMMA InitiallyMapped == Init => D!Init
<1>. SUFFICES ASSUME Init
              PROVE  D!Init
  OBVIOUS
<1>1. streams = <<>>
  BY DEF Init, streams
<1>2. QED
  BY <1>1 DEF Init, D!Init

LEMMA ConfigurationMaps ==
  ASSUME IInv,
         \/ \E c \in ClassHashes, h \in Handlers : SetHandler(c, h)
         \/ \E c \in ClassHashes : ClearHandler(c)
         \/ \E type \in Tolerances : SetMissingHandlerTolerance(type)
  PROVE  D!Configure
<1>1. UNCHANGED streams
  BY ConfigurationStep DEF streams
<1>2. QED
  BY <1>1, ConfigurationStep DEF D!Configure, Tolerances, D!Tolerances

LEMMA HandleStreamMaps ==
  ASSUME IInv, NEW objects \in Lists, HandleStream(objects)
  PROVE  D!Begin
<1>. DEFINE n == Len(contents)
            R == [objects : Lists, fates : Seq(Callables \union Tolerances),
                  status : {"open", "returned", "thrown"}]
<1>1. PICK new : new = [objects |-> objects, fates |-> <<>>, status |-> "open"]
  OBVIOUS
<1>2. new \in R
  BY <1>1
<1>3. new \in D!Streams
  BY <1>1, Listed DEF D!Streams
<1>4. /\ contents \in Seq(Lists) /\ n \in Nat
      /\ outcome \in Seq({"open", "returned", "thrown"}) /\ Len(outcome) = n
      /\ fates \in Seq(Seq(Callables \union Tolerances)) /\ Len(fates) = n
  BY DEF IInv, TypeOK
<1>5. /\ DOMAIN contents' = 1..(n + 1)
      /\ \A k \in 1..n : contents'[k] = contents[k]
      /\ contents'[n + 1] = objects
  BY <1>4, Appended DEF HandleStream
<1>6. /\ \A k \in 1..n : outcome'[k] = outcome[k]
      /\ outcome'[n + 1] = "open"
  BY <1>4, Appended DEF HandleStream
<1>7. /\ \A k \in 1..n : fates'[k] = fates[k]
      /\ fates'[n + 1] = <<>>
  <2>1. <<>> \in Seq(Callables \union Tolerances)
    OBVIOUS
  <2>2. QED
    BY <1>4, <2>1, Appended DEF HandleStream
<1>8. streams \in [1..n -> R] /\ streams \in Seq(R) /\ Len(streams) = n
  <2>1. streams \in [1..n -> R]
    BY <1>4 DEF streams
  <2>. HIDE DEF R
  <2>2. QED
    BY <1>4, <2>1, Tabulated
<1>9. streams' \in Seq(R) /\ Len(streams') = n + 1
      /\ streams'[n + 1] = new
      /\ \A k \in 1..n : streams'[k] = streams[k]
  <2>1. DOMAIN streams' = 1..(n + 1)
    BY <1>5 DEF streams
  <2>2. \A k \in 1..(n + 1) :
          streams'[k] = [objects |-> contents'[k], fates |-> fates'[k],
                         status |-> outcome'[k]]
    BY <1>5 DEF streams
  <2>3. n + 1 \in 1..(n + 1) /\ (\A k \in 1..n : k \in 1..(n + 1) /\ k \in DOMAIN contents)
    BY <1>4
  <2>4. streams'[n + 1] = new
    BY <1>1, <1>5, <1>6, <1>7, <2>2, <2>3
  <2>5. \A k \in 1..n : streams'[k] = streams[k]
    BY <1>5, <1>6, <1>7, <2>2, <2>3 DEF streams
  <2>6. \A k \in 1..(n + 1) : streams'[k] \in R
    <3>1. \A k \in 1..(n + 1) : k = n + 1 \/ k \in 1..n
      BY <1>4
    <3>2. QED
      BY <1>2, <1>8, <2>4, <2>5, <3>1
  <2>7. streams' = [k \in 1..(n + 1) |-> streams'[k]]
    BY <2>1 DEF streams
  <2>. HIDE DEF R
  <2>8. streams' \in [1..(n + 1) -> R]
    BY <2>6, <2>7
  <2>9. n + 1 \in Nat
    BY <1>4
  <2>10. streams' \in Seq(R) /\ Len(streams') = n + 1
    BY <2>8, <2>9, Tabulated
  <2>11. QED
    BY <2>4, <2>5, <2>10
<1>10. streams' = Append(streams, new)
  <2>. HIDE DEF R
  <2>1. /\ Append(streams, new) \in Seq(R) /\ Len(Append(streams, new)) = n + 1
        /\ \A k \in 1..n : Append(streams, new)[k] = streams[k]
        /\ Append(streams, new)[n + 1] = new
    BY <1>2, <1>8, Appended
  <2>2. \A k \in 1..(n + 1) : streams'[k] = Append(streams, new)[k]
    <3>1. \A k \in 1..(n + 1) : k = n + 1 \/ k \in 1..n
      BY <1>4
    <3>2. QED
      BY <1>9, <2>1, <3>1
  <2>3. QED
    BY <1>9, <2>1, <2>2
<1>11. \A s \in D!Open : D!Innermost(s) => D!MayRun(s)
  <2>1. CASE stack = <<>>
    BY <2>1, NothingOpen
  <2>2. CASE stack # <<>>
    <3>1. \A s \in D!Open : D!Innermost(s) => s = top.ptr
      <4>. SUFFICES ASSUME NEW s \in D!Open, D!Innermost(s)
                    PROVE  s = top.ptr
        OBVIOUS
      <4>1. s <= top.ptr /\ top.ptr <= s /\ top.ptr \in Nat
        BY <2>2, InnermostIsTop DEF D!Innermost
      <4>2. s \in Nat
        BY Mapped DEF D!Open
      <4>3. QED
        BY <4>1, <4>2
    <3>2. D!MayRun(top.ptr)
      BY <2>2, CallingMayRun DEF HandleStream, UserInControl
    <3>3. QED
      BY <3>1, <3>2
  <2>3. QED
    BY <2>1, <2>2
<1>12. new.fates = <<>> /\ new.status = "open"
  BY <1>1
<1>13. UNCHANGED <<_handlers, _toleranceType>>
  BY DEF HandleStream
<1>. HIDE DEF R
<1>14. QED
  BY <1>3, <1>8, <1>9, <1>10, <1>11, <1>12, <1>13 DEF D!Begin

(* A fate of the next object: the configuration decides it.                *)
LEMMA DeliverMaps ==
  ASSUME IInv, InLoop, HasItem, NEW fate \in Callables \union Tolerances,
         Record(fate),
         UNCHANGED <<_handlers, _toleranceType, contents, outcome>>,
         ~D!Undeliverable(item), fate = D!Fate(item)
  PROVE  D!Deliver(top.ptr)
<1>. DEFINE p == top.ptr
<1>1. stack # <<>>
  BY DEF InLoop
<1>2. p \in DOMAIN contents /\ D!Innermost(p)
  BY <1>1, InnermostIsTop
<1>3. D!Remaining(p) /\ D!Turn(p) = item /\ streams[p].fates = fates[p]
  BY TurnIsItem
<1>4. /\ DOMAIN streams' = DOMAIN contents
      /\ \A s \in DOMAIN contents :
           streams'[s] = [objects |-> contents[s], fates |-> fates'[s],
                          status |-> outcome[s]]
  BY DEF streams
<1>5. /\ fates'[p] = Append(fates[p], fate)
      /\ \A s \in DOMAIN contents : s # p => fates'[s] = fates[s]
  BY <1>1, Recorded, Mapped
<1>6. streams' = [streams EXCEPT ![p].fates = Append(@, fate)]
  <2>1. PICK new : new = [streams EXCEPT ![p].fates = Append(@, fate)]
    OBVIOUS
  <2>2. new = [s \in DOMAIN contents |->
                 IF s = p THEN [streams[p] EXCEPT !.fates = Append(@, fate)]
                          ELSE streams[s]]
    BY <2>1, Mapped
  <2>3. streams' = [s \in DOMAIN contents |-> streams'[s]]
    BY DEF streams
  <2>4. ASSUME NEW s \in DOMAIN contents
        PROVE  streams'[s] = new[s]
    <3>1. CASE s = p
      <4>1. streams[p] = [objects |-> contents[p], fates |-> fates[p],
                          status |-> outcome[p]]
        BY <1>2, Mapped
      <4>2. PICK a : a = Append(fates[p], fate)
        OBVIOUS
      <4>3. [streams[p] EXCEPT !.fates = a] =
              [objects |-> contents[p], fates |-> a, status |-> outcome[p]]
        BY <4>1
      <4>4. [streams[p] EXCEPT !.fates = Append(@, fate)] =
              [objects |-> contents[p], fates |-> Append(fates[p], fate),
               status |-> outcome[p]]
        BY <1>3, <4>2, <4>3
      <4>5. QED
        BY <1>2, <1>4, <1>5, <2>2, <3>1, <4>4, ZenonT(40)
    <3>2. CASE s # p
      BY <1>4, <1>5, <2>2, <3>2, Mapped
    <3>3. QED
      BY <3>1, <3>2
  <2>5. QED
    BY <2>1, <2>2, <2>3, <2>4
<1>7. QED
  BY <1>2, <1>3, <1>6 DEF D!Deliver

LEMMA IgnoreMaps ==
  ASSUME IInv, Ignore
  PROVE  D!Deliver(top.ptr)
<1>1. /\ InLoop /\ HasItem /\ Record(_toleranceType)
      /\ UNCHANGED <<_handlers, _toleranceType, contents, outcome>>
  BY DEF Ignore
<1>2. _toleranceType \in Callables \union Tolerances
  BY DEF IInv, TypeOK
<1>3. ~D!Undeliverable(item) /\ _toleranceType = D!Fate(item)
  BY DEF Ignore, Missing, D!Undeliverable, D!Fate
<1>4. QED
  BY <1>1, <1>2, <1>3, DeliverMaps

LEMMA CallHandlerMaps ==
  ASSUME IInv, CallHandler
  PROVE  D!Deliver(top.ptr)
<1>1. /\ InLoop /\ HasItem
      /\ UNCHANGED <<_handlers, _toleranceType, contents, outcome>>
  BY DEF CallHandler
<1>2. PICK h \in Callables \union Tolerances : h = _handlers[item]
  BY Found DEF CallHandler, Callables
<1>3. ~D!Undeliverable(item) /\ h = D!Fate(item) /\ Record(h)
  BY <1>2 DEF CallHandler, Missing, D!Undeliverable, D!Fate
<1>4. QED
  BY <1>1, <1>3, DeliverMaps

LEMMA ReturnMaps ==
  ASSUME IInv, Return
  PROVE  D!Finish(top.ptr)
<1>. DEFINE p == top.ptr
<1>1. InLoop /\ stack # <<>> /\ ~HasItem
  BY DEF Return, InLoop
<1>2. p \in DOMAIN contents /\ D!Innermost(p) /\ ~D!Remaining(p)
  BY <1>1, InnermostIsTop, TurnIsItem
<1>3. /\ DOMAIN streams' = DOMAIN contents
      /\ \A s \in DOMAIN contents :
           streams'[s] = [objects |-> contents[s], fates |-> fates[s],
                          status |-> outcome'[s]]
  BY DEF streams, Return
<1>4. /\ outcome'[p] = "returned"
      /\ \A s \in DOMAIN contents : s # p => outcome'[s] = outcome[s]
  BY <1>2, Mapped DEF Return
<1>5. streams' = [streams EXCEPT ![p].status = "returned"]
  <2>1. PICK new : new = [streams EXCEPT ![p].status = "returned"]
    OBVIOUS
  <2>2. new = [s \in DOMAIN contents |->
                 IF s = p THEN [streams[p] EXCEPT !.status = "returned"]
                          ELSE streams[s]]
    BY <2>1, Mapped
  <2>3. streams' = [s \in DOMAIN contents |-> streams'[s]]
    BY <1>3 DEF streams
  <2>4. ASSUME NEW s \in DOMAIN contents
        PROVE  streams'[s] = new[s]
    <3>1. CASE s = p
      <4>1. streams[p] = [objects |-> contents[p], fates |-> fates[p],
                          status |-> outcome[p]]
        BY <1>2, Mapped
      <4>2. [streams[p] EXCEPT !.status = "returned"] =
              [objects |-> contents[p], fates |-> fates[p], status |-> "returned"]
        BY <4>1
      <4>3. QED
        BY <1>2, <1>3, <1>4, <2>2, <3>1, <4>2
    <3>2. CASE s # p
      BY <1>3, <1>4, <2>2, <3>2, Mapped
    <3>3. QED
      BY <3>1, <3>2
  <2>5. QED
    BY <2>1, <2>2, <2>3, <2>4
<1>6. UNCHANGED <<_handlers, _toleranceType>>
  BY DEF Return
<1>7. QED
  BY <1>2, <1>5, <1>6 DEF D!Finish

(* The streams an exception leaves are those begun since the outermost of   *)
(* them and still open.                                                    *)
LEMMA UnwindMaps ==
  ASSUME IInv, NEW n \in 1..Len(stack), Unwind(n),
         UNCHANGED <<_handlers, _toleranceType, changes, contents, fates>>,
         D!MayRun(top.ptr) \/ (D!Remaining(top.ptr) /\ D!Undeliverable(D!Turn(top.ptr)))
  PROVE  \E outermost \in 1..top.ptr : D!Abandon(top.ptr, outermost)
<1>. DEFINE first == Len(stack) - n + 1
            Left(s) == \E i \in first..Len(stack) : stack[i].ptr = s
<1>1. /\ stack \in Seq(Frame) /\ Len(stack) \in Nat /\ first \in Nat
      /\ 1 <= first /\ first <= Len(stack) /\ first \in DOMAIN stack
      /\ stack # <<>>
  BY DEF IInv, TypeOK
<1>2. PICK outermost : outermost = stack[first].ptr
  OBVIOUS
<1>3. \A i \in DOMAIN stack : stack[i].ptr \in Nat /\ stack[i].ptr >= 1
  BY <1>1, FrameFields
<1>4. outermost \in Nat /\ outermost >= 1
  BY <1>1, <1>2, <1>3
<1>5. /\ D!Innermost(top.ptr) /\ top.ptr \in Nat
      /\ \A s \in D!Open : s <= top.ptr
  BY <1>1, InnermostIsTop
<1>6. \A i \in DOMAIN stack : stack[i].ptr \in DOMAIN contents /\ stack[i].ptr \in D!Open
  <2>. SUFFICES ASSUME NEW i \in DOMAIN stack
                PROVE  stack[i].ptr \in DOMAIN contents /\ stack[i].ptr \in D!Open
    OBVIOUS
  <2>1. stack[i].ptr \in DOMAIN contents /\ outcome[stack[i].ptr] = "open"
    BY DEF IInv, StackInv, ActivationInv
  <2>2. QED
    BY <2>1, Mapped DEF D!Open
<1>7. outermost \in 1..top.ptr
  <2>1. outermost <= top.ptr
    BY <1>1, <1>2, <1>5, <1>6
  <2>2. QED
    BY <1>4, <1>5, <2>1
<1>8. ASSUME NEW t \in DOMAIN contents
      PROVE  Left(t) <=> t \in D!Open /\ t >= outermost
  <2>1. ASSUME NEW i \in first..Len(stack), stack[i].ptr = t
        PROVE  t \in D!Open /\ t >= outermost
    <3>1. i \in DOMAIN stack
      BY <1>1
    <3>2. CASE i = first
      BY <1>2, <1>3, <1>6, <2>1, <3>1, <3>2
    <3>3. CASE i # first
      <4>1. first < i
        BY <1>1, <3>3
      <4>2. stack[first].ptr < stack[i].ptr
        BY <1>1, <3>1, <4>1 DEF IInv, StackInv
      <4>3. QED
        BY <1>1, <1>2, <1>3, <1>6, <2>1, <3>1, <4>2
    <3>4. QED
      BY <3>2, <3>3
  <2>2. ASSUME t \in D!Open, t >= outermost
        PROVE  Left(t)
    <3>1. t \in DOMAIN outcome /\ outcome[t] = "open"
      BY <2>2, Mapped DEF D!Open
    <3>2. PICK i \in DOMAIN stack : stack[i].ptr = t
      BY <3>1 DEF IInv, StackInv
    <3>3. ~(i < first)
      <4>1. i < first => stack[i].ptr < stack[first].ptr
        BY <1>1, <3>2 DEF IInv, StackInv
      <4>2. QED
        BY <1>1, <1>2, <1>3, <2>2, <3>2, <4>1
    <3>4. i \in first..Len(stack)
      BY <1>1, <3>3
    <3>5. QED
      BY <3>2, <3>4
  <2>3. QED
    BY <2>1, <2>2
<1>9. /\ DOMAIN outcome' = DOMAIN outcome
      /\ \A s \in DOMAIN outcome : outcome'[s] = IF Left(s) THEN "thrown" ELSE outcome[s]
  BY UnwindStep
<1>. HIDE DEF first, Left
<1>10. streams' = [t \in DOMAIN streams |->
                     IF t \in D!Open /\ t >= outermost
                     THEN [streams[t] EXCEPT !.status = "thrown"]
                     ELSE streams[t]]
  <2>1. /\ streams' = [s \in DOMAIN contents |-> streams'[s]]
        /\ \A s \in DOMAIN contents :
             streams'[s] = [objects |-> contents[s], fates |-> fates[s],
                            status |-> outcome'[s]]
    BY DEF streams
  <2>2. ASSUME NEW t \in DOMAIN contents
        PROVE  streams'[t] = IF t \in D!Open /\ t >= outermost
                             THEN [streams[t] EXCEPT !.status = "thrown"]
                             ELSE streams[t]
    <3>1. streams[t] = [objects |-> contents[t], fates |-> fates[t],
                        status |-> outcome[t]]
      BY Mapped
    <3>2. [streams[t] EXCEPT !.status = "thrown"] =
            [objects |-> contents[t], fates |-> fates[t], status |-> "thrown"]
      BY <3>1
    <3>3. outcome'[t] = IF Left(t) THEN "thrown" ELSE outcome[t]
      BY <1>9, Mapped
    <3>4. CASE Left(t)
      BY <1>8, <2>1, <3>2, <3>3, <3>4
    <3>5. CASE ~Left(t)
      BY <1>8, <2>1, <3>1, <3>3, <3>5
    <3>6. QED
      BY <3>4, <3>5
  <2>3. DOMAIN streams = DOMAIN contents
    BY Mapped
  <2>4. QED
    BY <2>1, <2>2, <2>3
<1>11. D!Abandon(top.ptr, outermost)
  BY <1>5, <1>10 DEF D!Abandon
<1>12. QED
  BY <1>7, <1>11

LEMMA StepMapped == IInv /\ [Next]_vars => [D!Next]_(D!vars)
<1>. SUFFICES ASSUME IInv, [Next]_vars
              PROVE  [D!Next]_(D!vars)
  OBVIOUS
<1>1. stack # <<>> => top.ptr \in D!Open
  BY InnermostIsTop
<1>2. CASE \/ \E c \in ClassHashes, h \in Handlers : SetHandler(c, h)
           \/ \E c \in ClassHashes : ClearHandler(c)
           \/ \E type \in Tolerances : SetMissingHandlerTolerance(type)
  BY <1>2, ConfigurationMaps DEF D!Next
<1>3. CASE \E objects \in Lists : HandleStream(objects)
  BY <1>3, HandleStreamMaps DEF D!Next
<1>4. CASE Ignore
  BY <1>1, <1>4, IgnoreMaps DEF D!Next, Ignore, InLoop
<1>5. CASE CallHandler
  BY <1>1, <1>5, CallHandlerMaps DEF D!Next, CallHandler, InLoop
<1>6. CASE Return
  BY <1>1, <1>6, ReturnMaps DEF D!Next, Return, InLoop
<1>7. ASSUME NEW n \in 1..Len(stack), ThrowMissing(n) \/ CallEmpty(n)
      PROVE  D!Next
  <2>1. /\ InLoop /\ HasItem /\ Unwind(n)
        /\ UNCHANGED <<_handlers, _toleranceType, changes, contents, fates>>
    BY <1>7 DEF ThrowMissing, CallEmpty
  <2>2. D!Undeliverable(item)
    BY <1>7 DEF ThrowMissing, CallEmpty, Missing, D!Undeliverable
  <2>3. D!Remaining(top.ptr) /\ D!Undeliverable(D!Turn(top.ptr))
    BY <2>1, <2>2, TurnIsItem
  <2>4. stack # <<>>
    BY <2>1 DEF InLoop
  <2>5. \E outermost \in 1..top.ptr : D!Abandon(top.ptr, outermost)
    BY <2>1, <2>3, UnwindMaps
  <2>6. QED
    BY <1>1, <2>4, <2>5 DEF D!Next
<1>8. CASE HandlerReturns
  <2>1. UNCHANGED <<_handlers, _toleranceType, streams>>
    BY <1>8 DEF HandlerReturns, history, streams
  <2>2. QED
    BY <2>1 DEF D!vars
<1>9. ASSUME NEW n \in 1..Len(stack), HandlerThrows(n)
      PROVE  D!Next
  <2>1. /\ stack # <<>> /\ Unwind(n) /\ top.calling
        /\ UNCHANGED <<_handlers, _toleranceType, changes, contents, fates>>
    BY <1>9 DEF HandlerThrows
  <2>2. D!MayRun(top.ptr)
    BY <2>1, CallingMayRun
  <2>3. \E outermost \in 1..top.ptr : D!Abandon(top.ptr, outermost)
    BY <2>1, <2>2, UnwindMaps
  <2>4. QED
    BY <1>1, <2>1, <2>3 DEF D!Next
<1>10. CASE UNCHANGED vars
  BY <1>10 DEF vars, history, D!vars, streams
<1>11. QED
  BY <1>2, <1>3, <1>4, <1>5, <1>6, <1>7, <1>8, <1>9, <1>10
     DEF Next, LoopStep, HandlerEnds

(* The dispatcher keeps the promise of Dispatch: each object of a stream in *)
(* its turn, by the configuration of that moment, only the innermost stream *)
(* advances, and an exception leaves nothing half done behind.              *)
THEOREM Implements == Spec => Promise
BY InitiallyMapped, StepMapped, Invariant, PTL DEF Spec, Promise, D!Spec

=============================================================================
