--------------------------- MODULE DeliveryProofs ---------------------------
(***************************************************************************)
(* Proofs about Delivery, for any number and sizes of objects, any hashes  *)
(* and any handlers.  What is proved of a transmission alone holds of one  *)
(* that ends in a dispatcher; the rest follows the dispatcher's one stream. *)
(***************************************************************************)
EXTENDS Delivery, StreamRollerProofs, FiniteSetTheorems

(* Objects up to a position in the stream that have a handler. *)
HandledUpTo(p) == {j \in 1..p : contents[j][1] \in DOMAIN _handlers}

Fates == Handlers \union Receiver!Tolerances

(* Objects of the stream that have met their fates. *)
passed == Len(fates[1])

(* Before handleStream is called the dispatcher is as it was constructed,  *)
(* but for its configuration.                                              *)
Idle == objectLists = <<>> /\ outcome = <<>> /\ fates = <<>> /\ stack = <<>> /\ calls = <<>>

(* The activation of handleStream, while there is one. *)
Walking ==
  /\ Len(stack) = 1 /\ outcome = <<"open">>
  /\ stack[1].ptr = 1 /\ stack[1].objectList = objectLists[1]
  /\ stack[1].item = IF stack[1].calling THEN passed ELSE passed + 1
  /\ stack[1].calling \in BOOLEAN

Over ==
  /\ stack = <<>>
  /\ \/ outcome = <<"thrown">>
     \/ outcome = <<"returned">> /\ passed = Len(contents)

(* One call for each of the objects passed that have a handler, in order.  *)
CallsInv ==
  /\ calls \in Seq(Hashes \X Nat)
  /\ Len(calls) = Cardinality(HandledUpTo(passed))
  /\ \A i \in DOMAIN calls : \E k \in HandledUpTo(passed) :
       i = Cardinality(HandledUpTo(k)) /\ calls[i] = contents[k]

(* handleStream is called with what listStreamContents found. *)
Called ==
  /\ Listed
  /\ objectLists = <<[k \in DOMAIN contents |-> contents[k][1]]>>
  /\ fates \in Seq(Seq(Fates)) /\ Len(fates) = 1
  /\ passed <= Len(contents)
  /\ Walking \/ Over
  /\ CallsInv

Frames ==
  [ptr : Nat, objectList : Seq(Hashes), item : Nat, calling : BOOLEAN,
   handler : Handlers]

DeliveryInv ==
  /\ \E known \in SUBSET Hashes : _handlers \in [known -> Handlers]
  /\ _toleranceType \in Receiver!Tolerances
  /\ stack \in Seq(Frames)
  /\ Idle \/ Called

-----------------------------------------------------------------------------
(* What happens before handleStream, and beside it, is a transmission.     *)

LEMMA IsTransmission == DeliverySpec => Spec
<1>1. DeliveryInit => Init
  BY DEF DeliveryInit
<1>2. [DeliveryNext]_allVars => [Next]_vars
  BY DEF DeliveryNext, allVars, Transmit, Configure, HandleListed, CallHandler,
         Dispatch
<1>3. QED
  BY <1>1, <1>2, PTL DEF DeliverySpec, Spec

LEMMA TransmissionInv == DeliverySpec => []IInv
BY IsTransmission, Invariance, PTL

-----------------------------------------------------------------------------
(* Sequences, and the objects that have a handler. *)

LEMMA Single ==
  ASSUME NEW T, NEW s \in Seq(T), Len(s) = 1
  PROVE  s = <<s[1]>> /\ s[1] \in T /\ DOMAIN s = {1} /\ s # <<>>
<1>1. DOMAIN s = 1..1
  OBVIOUS
<1>2. s[1] \in T
  OBVIOUS
<1>3. s = <<s[1]>>
  OBVIOUS
<1>4. QED
  BY <1>1, <1>2, <1>3

LEMMA UpToIsFinite ==
  ASSUME NEW p \in Nat
  PROVE  IsFiniteSet(HandledUpTo(p)) /\ Cardinality(HandledUpTo(p)) \in Nat
<1>1. IsFiniteSet(1..p)
  BY FS_Interval
<1>2. HandledUpTo(p) \in SUBSET (1..p)
  BY DEF HandledUpTo
<1>3. IsFiniteSet(HandledUpTo(p))
  BY <1>1, <1>2, FS_Subset
<1>4. QED
  BY <1>3, FS_CardinalityType

LEMMA UpToNone == HandledUpTo(0) = {} /\ Cardinality(HandledUpTo(0)) = 0
<1>1. HandledUpTo(0) = {}
  BY DEF HandledUpTo
<1>2. QED
  BY <1>1, FS_EmptySet

LEMMA UpToNext ==
  ASSUME NEW p \in Nat
  PROVE  /\ contents[p + 1][1] \notin DOMAIN _handlers =>
              HandledUpTo(p + 1) = HandledUpTo(p)
         /\ contents[p + 1][1] \in DOMAIN _handlers =>
              /\ p + 1 \in HandledUpTo(p + 1)
              /\ Cardinality(HandledUpTo(p + 1)) = Cardinality(HandledUpTo(p)) + 1
         /\ HandledUpTo(p) \subseteq HandledUpTo(p + 1)
<1>1. \A j : j \in 1..(p + 1) <=> j \in 1..p \/ j = p + 1
  OBVIOUS
<1>2. p + 1 \notin HandledUpTo(p)
  BY DEF HandledUpTo
<1>3. CASE contents[p + 1][1] \notin DOMAIN _handlers
  <2>1. HandledUpTo(p + 1) = HandledUpTo(p)
    BY <1>1, <1>3 DEF HandledUpTo
  <2>2. QED
    BY <1>3, <2>1
<1>4. CASE contents[p + 1][1] \in DOMAIN _handlers
  <2>1. HandledUpTo(p + 1) = HandledUpTo(p) \cup {p + 1}
    BY <1>1, <1>4 DEF HandledUpTo
  <2>2. Cardinality(HandledUpTo(p) \cup {p + 1}) = Cardinality(HandledUpTo(p)) + 1
    BY <1>2, UpToIsFinite, FS_AddElement
  <2>3. QED
    BY <1>4, <2>1, <2>2
<1>5. QED
  BY <1>3, <1>4

-----------------------------------------------------------------------------
(* Before handleStream. *)

LEMMA InitDelivery == DeliveryInit => DeliveryInv
<1>. SUFFICES ASSUME DeliveryInit
              PROVE  DeliveryInv
  OBVIOUS
<1>1. _handlers \in [{} -> Handlers] /\ {} \in SUBSET Hashes
  BY DEF DeliveryInit, Receiver!Init
<1>2. _toleranceType \in Receiver!Tolerances /\ stack \in Seq(Frames)
  BY DEF DeliveryInit, Receiver!Init, Receiver!Tolerances
<1>3. Idle
  BY DEF DeliveryInit, Receiver!Init, Idle
<1>4. QED
  BY <1>1, <1>2, <1>3 DEF DeliveryInv

LEMMA TransmitStep == DeliveryInv /\ Transmit => DeliveryInv'
<1>. SUFFICES ASSUME DeliveryInv, Transmit
              PROVE  DeliveryInv'
  OBVIOUS
<1>1. UNCHANGED <<_handlers, _toleranceType, stack, objectLists, outcome, fates, calls>>
  BY DEF Transmit, dispatcherVars
<1>2. objectLists = <<>>
  BY DEF Transmit, Receiver!Init
<1>3. Idle
  BY <1>2 DEF DeliveryInv, Called
<1>4. Idle'
  BY <1>1, <1>3 DEF Idle
<1>5. QED
  BY <1>1, <1>4 DEF DeliveryInv, Frames

LEMMA ConfigureStep == DeliveryInv /\ Configure => DeliveryInv'
<1>. SUFFICES ASSUME DeliveryInv, Configure
              PROVE  DeliveryInv'
  OBVIOUS
<1>1. /\ UNCHANGED <<stack, objectLists, outcome, fates, calls>>
      /\ \E known \in SUBSET Hashes : _handlers' \in [known -> Handlers]
      /\ _toleranceType' \in Receiver!Tolerances
  BY DEF Configure
<1>2. objectLists = <<>>
  BY DEF Configure, Receiver!Init
<1>3. Idle
  BY <1>2 DEF DeliveryInv, Called
<1>4. Idle'
  BY <1>1, <1>3 DEF Idle
<1>5. QED
  BY <1>1, <1>4 DEF DeliveryInv, Frames

LEMMA HandleListedStep == IInv /\ DeliveryInv /\ HandleListed => DeliveryInv'
<1>. SUFFICES ASSUME IInv, DeliveryInv, HandleListed
              PROVE  DeliveryInv'
  OBVIOUS
<1>. DEFINE L == [k \in DOMAIN contents |-> contents[k][1]]
            f == [ptr |-> 1, objectList |-> L, item |-> 1, calling |-> FALSE,
                  handler |-> EmptyFunction]
<1>1. contents \in Seq(Hashes \X Nat)
  BY DEF IInv, TypeOK
<1>2. L \in Seq(Hashes)
  <2>1. L \in [1..Len(contents) -> Hashes] /\ Len(contents) \in Nat
    BY <1>1
  <2>2. QED
    BY <2>1
<1>3. Listed /\ Receiver!HandleStream(L) /\ UNCHANGED <<vars, calls>>
  BY DEF HandleListed
<1>4. Idle
  <2>1. Len(objectLists) < 1
    BY <1>3 DEF Receiver!HandleStream
  <2>2. CASE Called
    BY <2>1, <2>2 DEF Called
  <2>3. QED
    BY <2>2 DEF DeliveryInv
<1>. HIDE DEF L
<1>5. /\ objectLists' = <<L>> /\ outcome' = <<"open">> /\ fates' = <<<<>>>>
      /\ stack' = <<f>> /\ calls' = <<>>
      /\ UNCHANGED <<_handlers, _toleranceType>>
  BY <1>3, <1>4 DEF Receiver!HandleStream, Idle
<1>6. f \in Frames
  BY <1>2, DeliveryAssumption DEF Frames
<1>7. passed' = 0 /\ fates' \in Seq(Seq(Fates)) /\ Len(fates') = 1
  BY <1>5 DEF passed
<1>8. Walking'
  <2>1. /\ stack'[1] = f /\ Len(stack') = 1 /\ objectLists'[1] = L
        /\ f.ptr = 1 /\ f.objectList = L /\ f.item = 1 /\ f.calling = FALSE
    BY <1>5
  <2>2. outcome' = <<"open">>
    BY <1>5
  <2>. HIDE DEF f
  <2>3. /\ stack'[1].ptr = 1 /\ stack'[1].objectList = objectLists'[1]
        /\ stack'[1].item = passed' + 1 /\ stack'[1].calling = FALSE
    BY <1>7, <2>1
  <2>4. QED
    BY <2>1, <2>2, <2>3 DEF Walking
<1>9. (HandledUpTo(0) = {} /\ Cardinality(HandledUpTo(0)) = 0)'
  <2>1. HandledUpTo(0)' = {}
    BY DEF HandledUpTo
  <2>2. QED
    BY <2>1, FS_EmptySet
<1>10. CallsInv'
  BY <1>5, <1>7, <1>9 DEF CallsInv
<1>11. contents' = contents /\ Listed'
  BY <1>3 DEF vars, readVars, Listed
<1>12. Called'
  <2>1. passed' <= Len(contents)'
    BY <1>1, <1>7, <1>11
  <2>2. QED
    BY <1>5, <1>7, <1>8, <1>10, <1>11, <2>1 DEF Called, L
<1>13. stack' \in Seq(Frames)
  BY <1>5, <1>6
<1>14. QED
  BY <1>5, <1>12, <1>13 DEF DeliveryInv

-----------------------------------------------------------------------------
(* In handleStream. *)

LEMMA Activation ==
  ASSUME IInv, DeliveryInv, stack # <<>>
  PROVE  /\ Called /\ Walking
         /\ stack = <<stack[1]>> /\ stack[1] \in Frames /\ Len(stack) = 1
         /\ Receiver!top = stack[1]
         /\ passed \in Nat /\ Len(contents) \in Nat /\ passed <= Len(contents)
         /\ fates = <<fates[1]>> /\ fates[1] \in Seq(Fates)
         /\ DOMAIN stack[1].objectList = 1..Len(contents)
         /\ Len(stack[1].objectList) = Len(contents)
         /\ \A k \in 1..Len(contents) : stack[1].objectList[k] = contents[k][1]
<1>1. Called /\ Walking
  BY DEF DeliveryInv, Idle, Called, Over
<1>2. stack \in Seq(Frames) /\ Len(stack) = 1
  BY <1>1 DEF DeliveryInv, Walking
<1>3. stack = <<stack[1]>> /\ stack[1] \in Frames
  BY <1>2, Single
<1>4. fates = <<fates[1]>> /\ fates[1] \in Seq(Fates)
  BY <1>1, Single DEF Called
<1>5. contents \in Seq(Hashes \X Nat)
  BY DEF IInv, TypeOK
<1>6. passed \in Nat /\ Len(contents) \in Nat /\ passed <= Len(contents)
  BY <1>1, <1>4, <1>5 DEF Called, passed
<1>7. stack[1].objectList = [k \in DOMAIN contents |-> contents[k][1]]
  BY <1>1 DEF Called, Walking
<1>8. /\ stack[1].objectList \in [1..Len(contents) -> Hashes]
      /\ \A k \in 1..Len(contents) : stack[1].objectList[k] = contents[k][1]
  BY <1>5, <1>7
<1>9. Len(stack[1].objectList) = Len(contents) /\ DOMAIN stack[1].objectList = 1..Len(contents)
  BY <1>6, <1>8
<1>10. Receiver!top = stack[1]
  BY <1>2 DEF Receiver!top
<1>11. QED
  BY <1>1, <1>2, <1>3, <1>4, <1>6, <1>8, <1>9, <1>10

(* The list and the calls stay as they are, and no object is passed.       *)
LEMMA Stays ==
  ASSUME IInv, DeliveryInv, stack # <<>>,
         UNCHANGED <<vars, _handlers, _toleranceType, objectLists, fates, calls>>,
         stack' \in Seq(Frames), Walking' \/ Over'
  PROVE  DeliveryInv'
<1>1. Called
  BY Activation
<1>2. UNCHANGED <<pc, got, contents>>
  BY DEF vars, readVars
<1>3. /\ UNCHANGED passed
      /\ \A k : HandledUpTo(k)' = HandledUpTo(k)
  BY <1>2 DEF passed, HandledUpTo
<1>4. CallsInv'
  BY <1>1, <1>2, <1>3 DEF Called, CallsInv
<1>5. Called'
  BY <1>1, <1>2, <1>3, <1>4 DEF Called, Listed
<1>6. QED
  BY <1>5 DEF DeliveryInv

(* An object is passed, with or without a call.                            *)
LEMMA Passes ==
  ASSUME IInv, DeliveryInv, stack # <<>>, NEW fate \in Fates,
         Receiver!Record(fate), passed < Len(contents),
         UNCHANGED <<vars, _handlers, _toleranceType, objectLists, outcome>>,
         NEW f \in Frames, Receiver!ReplaceTop(f),
         f.ptr = 1, f.objectList = stack[1].objectList,
         f.item = IF f.calling THEN passed + 1 ELSE passed + 2,
         IF contents[passed + 1][1] \in DOMAIN _handlers
         THEN calls' = Append(calls, contents[passed + 1])
         ELSE UNCHANGED calls
  PROVE  DeliveryInv'
<1>. DEFINE p == passed
<1>1. /\ Called /\ Walking /\ Len(stack) = 1
      /\ stack = <<stack[1]>> /\ stack[1] \in Frames /\ Receiver!top = stack[1]
      /\ p \in Nat /\ Len(contents) \in Nat
      /\ fates = <<fates[1]>> /\ fates[1] \in Seq(Fates)
  BY Activation
<1>2. contents' = contents /\ Listed'
  BY <1>1 DEF vars, readVars, Listed, Called
<1>3. fates' = <<Append(fates[1], fate)>>
  <2>1. Receiver!top.ptr = 1
    BY <1>1 DEF Walking
  <2>2. fates' = [fates EXCEPT ![1] = Append(fates[1], fate)]
    BY <2>1, <1>1 DEF Receiver!Record
  <2>3. QED
    BY <1>1, <2>2
<1>4. Append(fates[1], fate) \in Seq(Fates) /\ Len(Append(fates[1], fate)) = p + 1
  BY <1>1 DEF passed
<1>5. passed' = p + 1 /\ fates' \in Seq(Seq(Fates)) /\ Len(fates') = 1
  <2>1. PICK a \in Seq(Fates) : a = Append(fates[1], fate)
    BY <1>4
  <2>2. fates' = <<a>> /\ Len(a) = p + 1
    BY <1>3, <1>4, <2>1
  <2>3. QED
    BY <2>2 DEF passed
<1>6. stack' = <<f>>
  BY <1>1 DEF Receiver!ReplaceTop
<1>7. Walking'
  <2>1. f.calling \in BOOLEAN
    BY DEF Frames
  <2>2. f.item = IF f.calling THEN p + 1 ELSE (p + 1) + 1
    BY <1>1
  <2>. HIDE DEF p
  <2>3. QED
    BY <1>1, <1>5, <1>6, <2>1, <2>2 DEF Walking
<1>8. \A k : HandledUpTo(k)' = HandledUpTo(k)
  BY <1>2 DEF HandledUpTo
<1>9. /\ calls \in Seq(Hashes \X Nat)
      /\ Len(calls) = Cardinality(HandledUpTo(p))
      /\ \A i \in DOMAIN calls : \E k \in HandledUpTo(p) :
           i = Cardinality(HandledUpTo(k)) /\ calls[i] = contents[k]
  BY <1>1 DEF Called, CallsInv
<1>10. contents \in Seq(Hashes \X Nat) /\ p + 1 \in 1..Len(contents)
  <2>1. contents \in Seq(Hashes \X Nat)
    BY DEF IInv, TypeOK
  <2>2. p + 1 \in 1..Len(contents)
    BY <1>1
  <2>3. QED
    BY <2>1, <2>2
<1>. HIDE DEF p
<1>11. CallsInv'
  <2>1. CASE contents[p + 1][1] \in DOMAIN _handlers
    <3>1. calls' = Append(calls, contents[p + 1]) /\ contents[p + 1] \in Hashes \X Nat
      BY <1>10, <2>1 DEF p
    <3>2. /\ calls' \in Seq(Hashes \X Nat) /\ Len(calls') = Len(calls) + 1
          /\ DOMAIN calls' = 1..(Len(calls) + 1)
          /\ \A i \in 1..Len(calls) : calls'[i] = calls[i]
          /\ calls'[Len(calls) + 1] = contents[p + 1]
      BY <1>9, <3>1, Appended
    <3>3. /\ p + 1 \in HandledUpTo(p + 1)
          /\ Cardinality(HandledUpTo(p + 1)) = Len(calls) + 1
          /\ HandledUpTo(p) \subseteq HandledUpTo(p + 1)
      BY <1>1, <1>9, <2>1, UpToNext
    <3>4. ASSUME NEW i \in 1..(Len(calls) + 1)
          PROVE  \E k \in HandledUpTo(p + 1) :
                   i = Cardinality(HandledUpTo(k)) /\ calls'[i] = contents[k]
      <4>1. CASE i = Len(calls) + 1
        BY <3>2, <3>3, <4>1
      <4>2. CASE i # Len(calls) + 1
        <5>1. i \in 1..Len(calls) /\ i \in DOMAIN calls
          BY <1>9, <4>2
        <5>2. QED
          BY <1>9, <3>2, <3>3, <5>1
      <4>3. QED
        BY <4>1, <4>2
    <3>5. QED
      BY <1>2, <1>5, <1>8, <3>2, <3>3, <3>4 DEF CallsInv
  <2>2. CASE contents[p + 1][1] \notin DOMAIN _handlers
    <3>1. HandledUpTo(p + 1) = HandledUpTo(p) /\ calls' = calls
      BY <1>1, <2>2, UpToNext DEF p
    <3>2. QED
      BY <1>2, <1>5, <1>8, <1>9, <3>1 DEF CallsInv
  <2>3. QED
    BY <2>1, <2>2
<1>12. Called'
  <2>1. passed' <= Len(contents)'
    BY <1>2, <1>5, <1>10
  <2>2. UNCHANGED objectLists
    OBVIOUS
  <2>3. QED
    BY <1>1, <1>2, <1>5, <1>7, <1>11, <2>1, <2>2 DEF Called
<1>13. stack' \in Seq(Frames)
  BY <1>6
<1>14. QED
  BY <1>12, <1>13 DEF DeliveryInv

LEMMA NextItem ==
  ASSUME IInv, DeliveryInv, Receiver!InLoop, Receiver!HasItem
  PROVE  /\ stack # <<>> /\ Receiver!top.item = passed + 1
         /\ passed < Len(contents)
         /\ Receiver!item = contents[passed + 1][1]
<1>1. stack # <<>> /\ ~Receiver!top.calling
  BY DEF Receiver!InLoop
<1>2. /\ Receiver!top = stack[1] /\ Walking
      /\ passed \in Nat /\ Len(contents) \in Nat
      /\ Len(stack[1].objectList) = Len(contents)
      /\ \A k \in 1..Len(contents) : stack[1].objectList[k] = contents[k][1]
  BY <1>1, Activation
<1>3. Receiver!top.item = passed + 1
  BY <1>1, <1>2 DEF Walking
<1>4. passed + 1 <= Len(contents)
  BY <1>2, <1>3 DEF Receiver!HasItem
<1>5. passed + 1 \in 1..Len(contents) /\ passed < Len(contents)
  BY <1>2, <1>4
<1>6. QED
  BY <1>1, <1>2, <1>3, <1>5 DEF Receiver!item

LEMMA IgnoreStep ==
  ASSUME IInv, DeliveryInv, Receiver!Ignore, UNCHANGED <<vars, calls>>
  PROVE  DeliveryInv'
<1>1. /\ Receiver!InLoop /\ Receiver!HasItem /\ Receiver!Missing
      /\ Receiver!Record(_toleranceType)
      /\ Receiver!ReplaceTop([Receiver!top EXCEPT !.item = @ + 1])
      /\ UNCHANGED <<_handlers, _toleranceType, objectLists, outcome>>
  BY DEF Receiver!Ignore
<1>2. /\ stack # <<>> /\ Receiver!top.item = passed + 1 /\ passed < Len(contents)
      /\ contents[passed + 1][1] \notin DOMAIN _handlers
  BY <1>1, NextItem DEF Receiver!Missing
<1>3. /\ Receiver!top = stack[1] /\ stack[1] \in Frames /\ Walking /\ passed \in Nat
  BY <1>2, Activation
<1>4. ~stack[1].calling
  BY <1>1, <1>3 DEF Receiver!InLoop
<1>5. PICK f : f = [stack[1] EXCEPT !.item = @ + 1]
  OBVIOUS
<1>6. /\ f \in Frames /\ f.ptr = stack[1].ptr /\ f.objectList = stack[1].objectList
      /\ f.item = stack[1].item + 1 /\ f.calling = stack[1].calling
  BY <1>3, <1>5 DEF Frames
<1>7. f.ptr = 1 /\ f.item = IF f.calling THEN passed + 1 ELSE passed + 2
  BY <1>2, <1>3, <1>4, <1>6 DEF Walking
<1>8. _toleranceType \in Fates
  BY DEF DeliveryInv, Fates
<1>9. Receiver!ReplaceTop(f) /\ UNCHANGED calls
  BY <1>1, <1>3, <1>5
<1>10. QED
  BY <1>1, <1>2, <1>6, <1>7, <1>8, <1>9, Passes

LEMMA CallHandlerStep == IInv /\ DeliveryInv /\ CallHandler => DeliveryInv'
<1>. SUFFICES ASSUME IInv, DeliveryInv, CallHandler
              PROVE  DeliveryInv'
  OBVIOUS
<1>1. /\ Receiver!InLoop /\ Receiver!HasItem /\ ~Receiver!Missing
      /\ Receiver!Record(_handlers[Receiver!item])
      /\ Receiver!ReplaceTop([Receiver!top EXCEPT !.calling = TRUE,
                                 !.handler = _handlers[Receiver!item]])
      /\ UNCHANGED <<_handlers, _toleranceType, objectLists, outcome, vars>>
      /\ calls' = Append(calls, contents[Receiver!top.item])
  BY DEF CallHandler, Receiver!CallHandler, Arguments
<1>2. /\ stack # <<>> /\ Receiver!top.item = passed + 1 /\ passed < Len(contents)
      /\ contents[passed + 1][1] \in DOMAIN _handlers
  BY <1>1, NextItem DEF Receiver!Missing
<1>3. /\ Receiver!top = stack[1] /\ stack[1] \in Frames /\ Walking /\ passed \in Nat
  BY <1>2, Activation
<1>4. PICK h \in Handlers : h = _handlers[Receiver!item]
  BY <1>1 DEF DeliveryInv, Receiver!Missing
<1>5. PICK f : f = [stack[1] EXCEPT !.calling = TRUE, !.handler = h]
  OBVIOUS
<1>6. /\ f \in Frames /\ f.ptr = stack[1].ptr /\ f.objectList = stack[1].objectList
      /\ f.item = stack[1].item /\ f.calling = TRUE
  BY <1>3, <1>5 DEF Frames
<1>7. f.ptr = 1 /\ f.item = IF f.calling THEN passed + 1 ELSE passed + 2
  BY <1>2, <1>3, <1>6 DEF Walking
<1>8. h \in Fates
  BY DEF Fates
<1>9. /\ Receiver!ReplaceTop(f) /\ Receiver!Record(h)
      /\ calls' = Append(calls, contents[passed + 1])
  BY <1>1, <1>2, <1>3, <1>4, <1>5
<1>10. QED
  BY <1>1, <1>2, <1>6, <1>7, <1>8, <1>9, Passes

LEMMA HandlerReturnsStep ==
  ASSUME IInv, DeliveryInv, Receiver!HandlerReturns, UNCHANGED <<vars, calls>>
  PROVE  DeliveryInv'
<1>1. /\ stack # <<>> /\ Receiver!top.calling
      /\ Receiver!ReplaceTop([Receiver!top EXCEPT !.item = @ + 1, !.calling = FALSE,
                                                 !.handler = EmptyFunction])
      /\ UNCHANGED <<_handlers, _toleranceType, objectLists, outcome, fates>>
  BY DEF Receiver!HandlerReturns, Receiver!history
<1>2. /\ Receiver!top = stack[1] /\ stack[1] \in Frames /\ Walking /\ passed \in Nat
      /\ stack = <<stack[1]>> /\ Len(stack) = 1
  BY <1>1, Activation
<1>3. PICK f1 : f1 = [stack[1] EXCEPT !.item = @ + 1]
  OBVIOUS
<1>4. /\ f1 \in Frames /\ f1.ptr = stack[1].ptr /\ f1.objectList = stack[1].objectList
      /\ f1.item = stack[1].item + 1
  BY <1>2, <1>3 DEF Frames
<1>5. PICK f2 : f2 = [f1 EXCEPT !.calling = FALSE]
  OBVIOUS
<1>6. /\ f2 \in Frames /\ f2.ptr = f1.ptr /\ f2.objectList = f1.objectList
      /\ f2.item = f1.item /\ f2.calling = FALSE
  BY <1>4, <1>5 DEF Frames
<1>7. PICK f : f = [f2 EXCEPT !.handler = EmptyFunction]
  OBVIOUS
<1>8. /\ f \in Frames /\ f.ptr = f2.ptr /\ f.objectList = f2.objectList
      /\ f.item = f2.item /\ f.calling = f2.calling
  BY <1>6, <1>7, DeliveryAssumption DEF Frames
<1>9. stack' = <<f>>
  BY <1>1, <1>2, <1>3, <1>5, <1>7 DEF Receiver!ReplaceTop
<1>10. passed' = passed
  BY <1>1 DEF passed
<1>11. Walking'
  <2>1. stack'[1] = f /\ Len(stack') = 1
    BY <1>9
  <2>2. f.item = passed + 1 /\ f.calling = FALSE
    BY <1>1, <1>2, <1>4, <1>6, <1>8 DEF Walking
  <2>3. f.ptr = 1 /\ f.objectList = objectLists[1] /\ outcome = <<"open">>
    BY <1>2, <1>4, <1>6, <1>8 DEF Walking
  <2>4. QED
    BY <1>1, <1>10, <2>1, <2>2, <2>3 DEF Walking
<1>12. stack' \in Seq(Frames)
  BY <1>8, <1>9
<1>13. QED
  BY <1>1, <1>11, <1>12, Stays

LEMMA ReturnStep ==
  ASSUME IInv, DeliveryInv, Receiver!Return, UNCHANGED <<vars, calls>>
  PROVE  DeliveryInv'
<1>1. /\ stack # <<>> /\ ~Receiver!top.calling /\ ~Receiver!HasItem
      /\ stack' = Receiver!Front(stack)
      /\ outcome' = [outcome EXCEPT ![Receiver!top.ptr] = "returned"]
      /\ UNCHANGED <<_handlers, _toleranceType, objectLists, fates>>
  BY DEF Receiver!Return, Receiver!InLoop
<1>2. /\ Receiver!top = stack[1] /\ Walking /\ Len(stack) = 1
      /\ passed \in Nat /\ Len(contents) \in Nat /\ passed <= Len(contents)
      /\ Len(stack[1].objectList) = Len(contents) /\ stack \in Seq(Frames)
  BY <1>1, Activation DEF DeliveryInv
<1>3. stack' = <<>>
  BY <1>1, <1>2 DEF Receiver!Front
<1>4. outcome' = <<"returned">>
  BY <1>1, <1>2 DEF Walking
<1>5. passed = Len(contents)
  BY <1>1, <1>2 DEF Walking, Receiver!HasItem
<1>6. passed' = passed /\ Len(contents)' = Len(contents)
  BY <1>1 DEF passed, vars, readVars
<1>7. Over'
  BY <1>3, <1>4, <1>5, <1>6 DEF Over
<1>8. stack' \in Seq(Frames)
  BY <1>3
<1>9. QED
  BY <1>1, <1>7, <1>8, Stays

LEMMA ThrowStep ==
  ASSUME IInv, DeliveryInv, stack # <<>>, Receiver!Unwind(1),
         UNCHANGED <<vars, _handlers, _toleranceType, objectLists, fates, calls>>
  PROVE  DeliveryInv'
<1>1. /\ Walking /\ Len(stack) = 1 /\ stack \in Seq(Frames)
  BY Activation DEF DeliveryInv
<1>2. stack' = <<>>
  BY <1>1 DEF Receiver!Unwind
<1>3. \A i : i \in (Len(stack) - 1 + 1)..Len(stack) <=> i = 1
  BY <1>1
<1>4. outcome = <<"open">> /\ stack[1].ptr = 1
  BY <1>1 DEF Walking
<1>5. outcome' = [s \in {1} |-> "thrown"]
  <2>1. DOMAIN outcome = {1}
    BY <1>4
  <2>2. \E i \in (Len(stack) - 1 + 1)..Len(stack) : stack[i].ptr = 1
    BY <1>3, <1>4
  <2>3. outcome' = [s \in {1} |->
          IF \E i \in (Len(stack) - 1 + 1)..Len(stack) : stack[i].ptr = s
          THEN "thrown" ELSE outcome[s]]
    BY <2>1 DEF Receiver!Unwind
  <2>4. QED
    BY <2>2, <2>3
<1>6. outcome' = <<"thrown">>
  <2>1. {1} = 1..1
    OBVIOUS
  <2>2. QED
    BY <1>5, <2>1
<1>7. Over'
  BY <1>2, <1>6 DEF Over
<1>8. stack' \in Seq(Frames)
  BY <1>2
<1>9. QED
  BY <1>7, <1>8, Stays

LEMMA DispatchStep == IInv /\ DeliveryInv /\ Dispatch => DeliveryInv'
<1>. SUFFICES ASSUME IInv, DeliveryInv, Dispatch
              PROVE  DeliveryInv'
  OBVIOUS
<1>1. UNCHANGED <<vars, calls>>
  BY DEF Dispatch
<1>2. ASSUME Receiver!ThrowMissing(1) \/ Receiver!CallEmpty(1) \/ Receiver!HandlerThrows(1)
      PROVE  DeliveryInv'
  <2>1. /\ stack # <<>> /\ Receiver!Unwind(1)
        /\ UNCHANGED <<_handlers, _toleranceType, objectLists, fates>>
    BY <1>2 DEF Receiver!ThrowMissing, Receiver!CallEmpty, Receiver!HandlerThrows,
                Receiver!InLoop
  <2>2. QED
    BY <1>1, <2>1, ThrowStep
<1>3. QED
  BY <1>1, <1>2, IgnoreStep, ReturnStep, HandlerReturnsStep DEF Dispatch

LEMMA StutterStep == DeliveryInv /\ UNCHANGED allVars => DeliveryInv'
<1>. SUFFICES ASSUME DeliveryInv, UNCHANGED allVars
              PROVE  DeliveryInv'
  OBVIOUS
<1>1. UNCHANGED <<pc, got, contents, _handlers, _toleranceType, stack, objectLists,
                  outcome, fates, calls>>
  BY DEF allVars, vars, readVars, dispatcherVars
<1>2. UNCHANGED passed /\ \A k : HandledUpTo(k)' = HandledUpTo(k)
  BY <1>1 DEF passed, HandledUpTo
<1>3. CallsInv => CallsInv'
  BY <1>1, <1>2 DEF CallsInv
<1>4. (Idle => Idle') /\ (Walking => Walking') /\ (Over => Over')
  BY <1>1, <1>2 DEF Idle, Walking, Over
<1>5. Called => Called'
  BY <1>1, <1>2, <1>3, <1>4 DEF Called, Listed
<1>6. QED
  BY <1>1, <1>4, <1>5 DEF DeliveryInv, Frames

(* The inductive invariant of the delivery holds in every state.           *)
THEOREM DeliveryInvariant == DeliverySpec => [](IInv /\ DeliveryInv)
<1>1. IInv /\ DeliveryInv /\ [DeliveryNext]_allVars => DeliveryInv'
  BY TransmitStep, ConfigureStep, HandleListedStep, CallHandlerStep, DispatchStep,
     StutterStep DEF DeliveryNext
<1>2. QED
  BY <1>1, InitDelivery, TransmissionInv, PTL DEF DeliverySpec

(* The i-th call of a handler is for the i-th of the objects sent that have *)
(* one, with that object's class and bytes, and none is left out when       *)
(* handleStream returns; getObject fetches what it was asked for.           *)
THEOREM DeliveredHolds == DeliverySpec => []Delivered
<1>1. ASSUME IInv, DeliveryInv, Called
      PROVE  /\ \A i \in DOMAIN calls : \E k \in Handled :
                  i = Cardinality({j \in Handled : j <= k}) /\ Gives(calls[i], k)
             /\ n < CountModulus /\ outcome = <<"returned">> =>
                  Len(calls) = Cardinality(Handled)
  <2>1. /\ pc = "listed" /\ n \in Nat /\ Len(contents) = n % CountModulus
        /\ Len(written) = n /\ Len(contents) \in Nat /\ DOMAIN written = 1..n
        /\ fates \in Seq(Seq(Fates)) /\ Len(fates) = 1
    BY <1>1 DEF IInv, ReadInv, PassInv, TypeOK, Received, Called, Listed
  <2>2. Len(contents) <= n /\ (n < CountModulus => Len(contents) = n)
    BY <2>1, Modulus
  <2>3. passed \in Nat /\ passed <= Len(contents)
    <3>1. fates[1] \in Seq(Fates)
      BY <2>1, SMTT(30)
    <3>2. QED
      BY <1>1, <3>1 DEF Called, passed
  <2>4. \A k \in 1..Len(contents) : contents[k][1] = written[k]
    BY <1>1, <2>1, ListedObject
  <2>5. ASSUME NEW k \in 1..Len(contents)
        PROVE  {j \in Handled : j <= k} = HandledUpTo(k)
    <3>1. \A j : j \in 1..n /\ j <= k <=> j \in 1..k
      BY <2>1, <2>2
    <3>2. \A j \in 1..k : j \in 1..Len(contents)
      BY <2>1
    <3>3. QED
      BY <2>1, <2>4, <3>1, <3>2 DEF Handled, HandledUpTo
  <2>6. ASSUME NEW i \in DOMAIN calls
        PROVE  \E k \in Handled :
                 i = Cardinality({j \in Handled : j <= k}) /\ Gives(calls[i], k)
    <3>1. PICK k \in HandledUpTo(passed) :
            i = Cardinality(HandledUpTo(k)) /\ calls[i] = contents[k]
      BY <1>1 DEF Called, CallsInv
    <3>2. k \in 1..Len(contents) /\ k \in 1..n
      BY <2>1, <2>2, <2>3, <3>1 DEF HandledUpTo
    <3>3. k \in Handled
      BY <2>1, <2>4, <3>1, <3>2 DEF Handled, HandledUpTo
    <3>4. Gives(calls[i], k)
      BY <1>1, <2>1, <3>1, <3>2, ListedObject DEF Gives
    <3>5. QED
      BY <2>5, <3>1, <3>2, <3>3, <3>4
  <2>7. ASSUME n < CountModulus, outcome = <<"returned">>
        PROVE  Len(calls) = Cardinality(Handled)
    <3>1. passed = n
      BY <1>1, <2>2, <2>7 DEF Called, Walking, Over
    <3>2. HandledUpTo(n) = Handled
      BY <2>1, <2>2, <2>4, <2>7 DEF Handled, HandledUpTo
    <3>3. QED
      BY <1>1, <3>1, <3>2 DEF Called, CallsInv
  <2>8. QED
    BY <2>6, <2>7
<1>2. ASSUME Idle
      PROVE  DOMAIN calls = {} /\ outcome # <<"returned">>
  BY <1>2 DEF Idle
<1>3. IInv /\ DeliveryInv /\ FetchesObject => Delivered
  BY <1>1, <1>2 DEF DeliveryInv, Delivered
<1>4. QED
  BY <1>3, DeliveryInvariant, IsTransmission, FetchesObjectHolds, PTL

=============================================================================
