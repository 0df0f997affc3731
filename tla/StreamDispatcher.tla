-------------------------- MODULE StreamDispatcher --------------------------
(***************************************************************************)
(* StreamObjectDispatcher: a map of handlers, a tolerance for missing      *)
(* ones, and handleStream, which walks the list of a stream's objects and  *)
(* calls handlers.  A handler is the user's code: it may set and clear     *)
(* handlers, its own included, change the tolerance, hand over another     *)
(* stream, throw, and catch what a stream it handed over throws.           *)
(*                                                                         *)
(* The call stack is explicit: a frame is one activation of handleStream   *)
(* with its local variables.  Nothing in the dispatcher locks: one thread. *)
(***************************************************************************)
EXTENDS Integers, Sequences, SequencesExt

CONSTANTS
  ClassHashes,
  Handlers,
  EmptyFunction,   \* a std::function that holds none: calling it throws
  MaxStreams,      \* bound: streams handed over
  MaxObjects,      \* bound: objects in a stream
  MaxChanges       \* bound: changes of the configuration

ASSUME DispatcherAssumption ==
  /\ EmptyFunction \in Handlers
  /\ MaxStreams \in Nat /\ MaxObjects \in Nat /\ MaxChanges \in Nat

VARIABLES
  _handlers,        \* std::map: a function on the class hashes it knows
  _toleranceType,
  stack,            \* activations of handleStream, the innermost last
  changes,          \* history: changes of the configuration so far
  contents,         \* history: contents[s] are the objects of the s-th stream
  outcome,          \* history: "open", "returned" or "thrown" for each stream
  fates             \* history: what became of the objects of each stream

history == <<changes, contents, outcome, fates>>
vars == <<_handlers, _toleranceType, stack, history>>

Tolerances == {"THROW", "WARN", "SILENT"}
Callables == Handlers \ {EmptyFunction}
Lists == SeqOf(ClassHashes, MaxObjects)

(* A frame: the stream, objectList, the position of the range-based for,   *)
(* and the local copy of the handler while its call is on.                 *)
Frame == [ptr : 1..MaxStreams, objectList : Lists, item : 1..(MaxObjects + 1),
          calling : BOOLEAN, handler : Handlers]

TypeOK ==
  /\ \E known \in SUBSET ClassHashes : _handlers \in [known -> Handlers]
  /\ _toleranceType \in Tolerances
  /\ stack \in Seq(Frame)
  /\ changes \in 0..MaxChanges
  /\ contents \in Seq(Lists) /\ Len(contents) <= MaxStreams
  /\ outcome \in Seq({"open", "returned", "thrown"})
  /\ Len(outcome) = Len(contents)
  /\ fates \in Seq(Seq(Callables \union Tolerances))
  /\ Len(fates) = Len(contents)

Init ==
  /\ _handlers = [c \in {} |-> EmptyFunction]
  /\ _toleranceType = "THROW"
  /\ stack = <<>>
  /\ changes = 0
  /\ contents = <<>>
  /\ outcome = <<>>
  /\ fates = <<>>

-----------------------------------------------------------------------------
(* Control is with the user's code outside of handleStream and in handlers, *)
(* and with the loop of the innermost activation otherwise.                 *)

top == stack[Len(stack)]
UserInControl == stack # <<>> => top.calling
InLoop == stack # <<>> /\ ~top.calling

item == top.objectList[top.item]
HasItem == top.item <= Len(top.objectList)
Missing == item \notin DOMAIN _handlers

ReplaceTop(frame) == stack' = [stack EXCEPT ![Len(stack)] = frame]
Record(fate) == fates' = [fates EXCEPT ![top.ptr] = Append(@, fate)]

(* Mutant of Running: itr->second is called, without a copy. *)
RunningInMap(frame) ==
  LET c == frame.objectList[frame.item] IN
    IF c \in DOMAIN _handlers THEN _handlers[c] ELSE EmptyFunction

(* What executes while the call of a frame is on: the local copy. *)
Running(frame) == frame.handler

SetHandler(classHash, handler) ==
  /\ UserInControl /\ changes < MaxChanges
  /\ _handlers' = [c \in DOMAIN _handlers \union {classHash} |->
                     IF c = classHash THEN handler ELSE _handlers[c]]
  /\ changes' = changes + 1
  /\ UNCHANGED <<_toleranceType, stack, contents, outcome, fates>>

ClearHandler(classHash) ==
  /\ UserInControl /\ changes < MaxChanges
  /\ _handlers' = [c \in DOMAIN _handlers \ {classHash} |-> _handlers[c]]
  /\ changes' = changes + 1
  /\ UNCHANGED <<_toleranceType, stack, contents, outcome, fates>>

SetMissingHandlerTolerance(type) ==
  /\ UserInControl /\ changes < MaxChanges
  /\ _toleranceType' = type
  /\ changes' = changes + 1
  /\ UNCHANGED <<_handlers, stack, contents, outcome, fates>>

(* Mutant of HandleStream: the loop's position starts before the first. *)
HandleStreamFromZero(objects) ==
  /\ UserInControl /\ Len(contents) < MaxStreams
  /\ contents' = Append(contents, objects)
  /\ outcome' = Append(outcome, "open")
  /\ fates' = Append(fates, <<>>)
  /\ stack' = Append(stack, [ptr |-> Len(contents) + 1, objectList |-> objects,
                             item |-> 0, calling |-> FALSE,
                             handler |-> EmptyFunction])
  /\ UNCHANGED <<_handlers, _toleranceType, changes>>

(* handleStream, up to its loop.  (A pointer to no valid stream makes      *)
(* listStreamContents throw before anything changed: to the user's code,   *)
(* an exception it catches, or a HandlerThrows of its own.)                *)
HandleStream(objects) ==
  /\ UserInControl /\ Len(contents) < MaxStreams
  /\ contents' = Append(contents, objects)
  /\ outcome' = Append(outcome, "open")
  /\ fates' = Append(fates, <<>>)
  /\ stack' = Append(stack, [ptr |-> Len(contents) + 1, objectList |-> objects,
                             item |-> 1, calling |-> FALSE,
                             handler |-> EmptyFunction])
  /\ UNCHANGED <<_handlers, _toleranceType, changes>>

(* An exception leaves n activations; the handler around them catches it, *)
(* or the user outside of the dispatcher.                                 *)
Unwind(n) ==
  /\ stack' = SubSeq(stack, 1, Len(stack) - n)
  /\ outcome' = [s \in DOMAIN outcome |->
                   IF \E i \in (Len(stack) - n + 1)..Len(stack) : stack[i].ptr = s
                   THEN "thrown" ELSE outcome[s]]

(* The loop, for an object whose handler is missing, when that throws. *)
ThrowMissing(n) ==
  /\ InLoop /\ HasItem /\ Missing /\ _toleranceType = "THROW"
  /\ Unwind(n)
  /\ UNCHANGED <<_handlers, _toleranceType, changes, contents, fates>>

(* Mutant of Ignore: the stream is given up instead. *)
IgnoreRest ==
  /\ InLoop /\ HasItem /\ Missing /\ _toleranceType # "THROW"
  /\ Record(_toleranceType)
  /\ ReplaceTop([top EXCEPT !.item = Len(top.objectList) + 1])
  /\ UNCHANGED <<_handlers, _toleranceType, changes, contents, outcome>>

(* Mutant of Ignore: the iterator is not advanced. *)
IgnoreForever ==
  /\ InLoop /\ HasItem /\ Missing /\ _toleranceType # "THROW"
  /\ UNCHANGED vars

(* The same when it is tolerated: continue with the next object. *)
Ignore ==
  /\ InLoop /\ HasItem /\ Missing /\ _toleranceType # "THROW"
  /\ Record(_toleranceType)
  /\ ReplaceTop([top EXCEPT !.item = @ + 1])
  /\ UNCHANGED <<_handlers, _toleranceType, changes, contents, outcome>>

(* The loop, for an object with a handler: copy it, then call the copy. *)
CallHandler ==
  /\ InLoop /\ HasItem /\ ~Missing /\ _handlers[item] # EmptyFunction
  /\ Record(_handlers[item])
  /\ ReplaceTop([top EXCEPT !.calling = TRUE, !.handler = _handlers[item]])
  /\ UNCHANGED <<_handlers, _toleranceType, changes, contents, outcome>>

(* The same for a std::function that is empty: std::bad_function_call. *)
CallEmpty(n) ==
  /\ InLoop /\ HasItem /\ ~Missing /\ _handlers[item] = EmptyFunction
  /\ Unwind(n)
  /\ UNCHANGED <<_handlers, _toleranceType, changes, contents, fates>>

HandlerReturns ==
  /\ stack # <<>> /\ top.calling
  /\ ReplaceTop([top EXCEPT !.item = @ + 1, !.calling = FALSE,
                            !.handler = EmptyFunction])
  /\ UNCHANGED <<_handlers, _toleranceType, history>>

HandlerThrows(n) ==
  /\ stack # <<>> /\ top.calling
  /\ Unwind(n)
  /\ UNCHANGED <<_handlers, _toleranceType, changes, contents, fates>>

(* The end of the loop: handleStream returns. *)
Return ==
  /\ InLoop /\ ~HasItem
  /\ stack' = Front(stack)
  /\ outcome' = [outcome EXCEPT ![top.ptr] = "returned"]
  /\ UNCHANGED <<_handlers, _toleranceType, changes, contents, fates>>

LoopStep ==
  \/ Ignore \/ CallHandler \/ Return
  \/ \E n \in 1..Len(stack) : ThrowMissing(n) \/ CallEmpty(n)

HandlerEnds == HandlerReturns \/ \E n \in 1..Len(stack) : HandlerThrows(n)

Next ==
  \/ \E c \in ClassHashes, h \in Handlers : SetHandler(c, h)
  \/ \E c \in ClassHashes : ClearHandler(c)
  \/ \E type \in Tolerances : SetMissingHandlerTolerance(type)
  \/ \E objects \in Lists : HandleStream(objects)
  \/ LoopStep
  \/ HandlerEnds

Spec == Init /\ [][Next]_vars

(* The dispatcher's thread runs, and every handler ends some day. *)
FairSpec == Spec /\ WF_vars(LoopStep) /\ WF_vars(HandlerEnds)

-----------------------------------------------------------------------------
(* Properties. *)

(* The promise of Dispatch is kept, whatever handlers do to the dispatcher  *)
(* while it walks a stream: every object in order and by the configuration  *)
(* of its turn, the inner streams before the outer ones go on, and nothing  *)
(* left over when handleStream returns.                                     *)
streams ==
  [s \in DOMAIN contents |->
     [objects |-> contents[s], fates |-> fates[s], status |-> outcome[s]]]

D == INSTANCE Dispatch WITH
       handlers <- _handlers, tolerance <- _toleranceType

Promise == D!Spec

(* A handler that is running is the one found for the last object, even     *)
(* after it cleared or replaced itself.                                     *)
RunsWhatWasFound ==
  \A i \in DOMAIN stack :
    stack[i].calling => Running(stack[i]) = Last(fates[stack[i].ptr])

(* Every activation of handleStream ends if every handler does.             *)
EveryStreamEnds == stack # <<>> ~> stack = <<>>

=============================================================================
