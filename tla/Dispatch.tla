------------------------------ MODULE Dispatch ------------------------------
(***************************************************************************)
(* What StreamObjectDispatcher promises to the code that feeds it streams  *)
(* (stream_dispatcher.h): the objects of a stream meet their fates one     *)
(* after the other, each by the configuration in force when its turn       *)
(* comes, and only the stream begun last advances.                         *)
(***************************************************************************)
EXTENDS Integers, Sequences

CONSTANTS
  ClassHashes,     \* object types
  Handlers,        \* callables that can be set for a type
  EmptyFunction    \* the one of Handlers that holds no function

VARIABLES
  handlers,   \* a partial function from class hashes to callables
  tolerance,
  streams     \* every stream begun: its objects, their fates, what became of it

vars == <<handlers, tolerance, streams>>

Tolerances == {"THROW", "WARN", "SILENT"}
Tolerated == {"WARN", "SILENT"}
Fates == Handlers \union Tolerated
Streams ==
  [objects : Seq(ClassHashes), fates : Seq(Fates),
   status : {"open", "returned", "thrown"}]

Open == {s \in DOMAIN streams : streams[s].status = "open"}
Innermost(s) == s \in Open /\ \A t \in Open : t <= s

(* A handler can be running for the last object that met its fate. *)
MayRun(s) ==
  LET fates == streams[s].fates IN
    fates # <<>> /\ fates[Len(fates)] \in Handlers \ {EmptyFunction}

(* The class of the object whose turn it is. *)
Remaining(s) == Len(streams[s].fates) < Len(streams[s].objects)
Turn(s) == streams[s].objects[Len(streams[s].fates) + 1]

(* No handler, and no tolerance for that; or no function in the handler. *)
Undeliverable(c) ==
  IF c \in DOMAIN handlers THEN handlers[c] = EmptyFunction
                           ELSE tolerance = "THROW"

Fate(c) == IF c \in DOMAIN handlers THEN handlers[c] ELSE tolerance

Init ==
  /\ handlers = [c \in {} |-> EmptyFunction]
  /\ tolerance = "THROW"
  /\ streams = <<>>

(* The user reconfigures, at any time. *)
Configure ==
  /\ \E known \in SUBSET ClassHashes : handlers' \in [known -> Handlers]
  /\ tolerance' \in Tolerances
  /\ UNCHANGED streams

(* A stream is handed over: by the user, or by a handler that runs. *)
Begin ==
  /\ \A s \in Open : Innermost(s) => MayRun(s)
  /\ Len(streams') = Len(streams) + 1
  /\ LET new == streams'[Len(streams')] IN
       /\ new \in Streams /\ new.fates = <<>> /\ new.status = "open"
       /\ streams' = Append(streams, new)
  /\ UNCHANGED <<handlers, tolerance>>

(* The next object of the innermost stream meets its fate. *)
Deliver(s) ==
  /\ Innermost(s) /\ Remaining(s) /\ ~Undeliverable(Turn(s))
  /\ streams' = [streams EXCEPT ![s].fates = Append(@, Fate(Turn(s)))]
  /\ UNCHANGED <<handlers, tolerance>>

(* A stream ends when all of its objects have met their fates. *)
Finish(s) ==
  /\ Innermost(s) /\ ~Remaining(s)
  /\ streams' = [streams EXCEPT ![s].status = "returned"]
  /\ UNCHANGED <<handlers, tolerance>>

(* An exception, from a handler or for want of one, abandons the innermost *)
(* stream and those around it, up to the handler that catches it.          *)
Abandon(s, outermost) ==
  /\ Innermost(s)
  /\ MayRun(s) \/ (Remaining(s) /\ Undeliverable(Turn(s)))
  /\ streams' = [t \in DOMAIN streams |->
                   IF t \in Open /\ t >= outermost
                   THEN [streams[t] EXCEPT !.status = "thrown"]
                   ELSE streams[t]]
  /\ UNCHANGED <<handlers, tolerance>>

Next ==
  \/ Configure
  \/ Begin
  \/ \E s \in Open :
       Deliver(s) \/ Finish(s) \/ \E outermost \in 1..s : Abandon(s, outermost)

Spec == Init /\ [][Next]_vars

=============================================================================
