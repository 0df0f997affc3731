------------------------------ MODULE Delivery ------------------------------
(***************************************************************************)
(* From createStreamContents to the handlers: the receiver of StreamRoller *)
(* hands its stream to a dispatcher instead of fetching objects by index.  *)
(* handleStream lists the stream and walks the list, and calls handlers    *)
(* with addresses inside the buffer; both are the modules' own actions.    *)
(***************************************************************************)
EXTENDS StreamRoller, FiniteSets

CONSTANTS
  Handlers,
  EmptyFunction

ASSUME DeliveryAssumption == EmptyFunction \in Handlers

VARIABLES
  _handlers,
  _toleranceType,
  stack,          \* of the dispatcher
  changes,        \* history of the dispatcher
  objectLists,    \* history: the class hashes of the streams handed over
  outcome,        \* history: how handleStream ended
  fates,          \* history: what became of the objects
  calls           \* history: the arguments of the handlers' calls

dispatcherVars ==
  <<_handlers, _toleranceType, stack, changes, objectLists, outcome, fates>>
allVars == <<vars, dispatcherVars, calls>>

(* One stream, and a configuration that was made before it. *)
Receiver == INSTANCE StreamDispatcher WITH
  ClassHashes <- Hashes, contents <- objectLists, MaxStreams <- 1, MaxChanges <- 0

DeliveryInit == Init /\ Receiver!Init /\ calls = <<>>

(* Creating and listing, and fetching by index, while the dispatcher is as *)
(* it was constructed.                                                     *)
Transmit == Receiver!Init /\ Next /\ UNCHANGED <<dispatcherVars, calls>>

(* A receiver that fetches no object itself. *)
Listed == pc = "listed" /\ got = <<-1, -1>>

(* The handlers and the tolerance that handleStream finds.  It reads them   *)
(* after it has listed the stream, so they are chosen there.                *)
Configure ==
  /\ Listed /\ Receiver!Init
  /\ \E known \in SUBSET Hashes : _handlers' \in [known -> Handlers]
  /\ _toleranceType' \in Receiver!Tolerances
  /\ UNCHANGED <<vars, stack, changes, objectLists, outcome, fates, calls>>

(* listStreamContents has returned to handleStream. *)
HandleListed ==
  /\ Listed
  /\ Receiver!HandleStream([k \in DOMAIN contents |-> contents[k][1]])
  /\ UNCHANGED <<vars, calls>>

(* Mutant of Arguments: the address of the stream itself. *)
ArgumentsOfStream(position) == <<contents[position][1], 0>>

(* The arguments of handler: the class hash, and the stream's address plus *)
(* the offset.                                                             *)
Arguments(position) == contents[position]

CallHandler ==
  /\ Receiver!CallHandler
  /\ calls' = Append(calls, Arguments(Receiver!top.item))
  /\ UNCHANGED vars

(* Every other step of the loop and of the handlers. *)
Dispatch ==
  /\ \/ Receiver!Ignore \/ Receiver!Return \/ Receiver!HandlerReturns
     \/ Receiver!ThrowMissing(1) \/ Receiver!CallEmpty(1)
     \/ Receiver!HandlerThrows(1)
  /\ UNCHANGED <<vars, calls>>

DeliveryNext == Transmit \/ Configure \/ HandleListed \/ CallHandler \/ Dispatch

DeliverySpec == DeliveryInit /\ [][DeliveryNext]_allVars

-----------------------------------------------------------------------------
(* Properties. *)

(* The objects sent whose class has a handler, by number.                   *)
Handled == {k \in DOMAIN written : written[k] \in DOMAIN _handlers}

(* A call of a handler was given the k-th object sent: its class, and the   *)
(* address where it serialized itself.                                      *)
Gives(call, k) ==
  /\ call[1] = written[k]
  /\ \E f \in mem : ObjectField(f, k - 1) /\ f.at = call[2]

(* Whatever the objects answered and whichever handlers there are, the i-th *)
(* call of a handler is for the i-th of the objects sent that have one, and *)
(* is given that object's own class and bytes; when handleStream returns,   *)
(* there was a call for every one of them.  The receiver that asks for an   *)
(* object by index instead is handed that object.                           *)
Delivered ==
  /\ FetchesObject
  /\ \A i \in DOMAIN calls : \E k \in Handled :
       i = Cardinality({j \in Handled : j <= k}) /\ Gives(calls[i], k)
  /\ n < CountModulus /\ outcome = <<"returned">> =>
       Len(calls) = Cardinality(Handled)

=============================================================================
