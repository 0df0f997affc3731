------------------------- MODULE ClassSerialization -------------------------
(***************************************************************************)
(* The serialization functions that CPPClassGenerator writes, at work: a   *)
(* program built from one version of the input serializes an object, and   *)
(* a program built from another internalizes it, if the class hashes are   *)
(* the same.  getSerializedSize, serialize and internalize are three walks *)
(* over the members of a class, and each calls itself for members that are *)
(* objects: the frames of the stack are their activations.                 *)
(*                                                                         *)
(* Every class is serializable, since a member whose class is not does not *)
(* compile.  Classes contain each other by value, so never themselves.     *)
(***************************************************************************)
EXTENDS ClassHeader

CONSTANTS
  ClassNames,
  MemberNames,
  Depth,       \* how deep objects lie in each other, at most
  Width,       \* sizeof for each data type of fixed width
  Packages,    \* versions of the input: a sequence of fields for each class
  Paths,       \* the members of objects, by the names that lead to them
  Objects,     \* an object: the lengths its strings and blobs have
  Junk,        \* what is read where no such member was written
  Times,       \* texts that getTimeMillis may put into a header
  HexHashes    \* hashes, as the digits std::hex prints of them

Varying == {"string", "blob"}

(* Field::_memberPrivacy as resolvePrivacy resolved it, _dataType, and    *)
(* _typeName in its place when that is OBJECT.                            *)
Privacies == {"public", "protected", "private"}
Fields ==
  [name : MemberNames, privacy : Privacies,
   type : DOMAIN Width \union Varying \union ClassNames]

(* A class lies above those whose objects it contains. *)
Ranks(package) ==
  {rank \in [ClassNames -> 0..(Depth - 1)] :
     \A c \in ClassNames : \A i \in DOMAIN package[c] :
       package[c][i].type \in ClassNames => rank[package[c][i].type] < rank[c]}

ASSUME PackagesAssumption ==
  /\ Depth \in Nat /\ \A t \in DOMAIN Width : Width[t] \in Nat \ {0}
  /\ EndLine[1] \notin ClassNames
  /\ \A package \in Packages :
       package \in [ClassNames -> Seq(Fields)] /\ Ranks(package) # {}

ASSUME ObjectsAssumption ==
  SeqOf(MemberNames, Depth) \subseteq Paths /\ Objects \subseteq [Paths -> Nat]

(* Hashes have 32 bits; times and names have none of the two texts that the *)
(* hash is shown behind.                                                    *)
Labels == {Char(" * Class hash: "), Char(" 0x")}
HexDigits ==
  {"0", "1", "2", "3", "4", "5", "6", "7", "8", "9", "a", "b", "c", "d", "e", "f"}

ASSUME HeaderAssumption ==
  /\ Labels \intersect ClassNames = {}
  /\ \A time \in Times : time \in Seq(ToSet(time)) /\ Labels \intersect ToSet(time) = {}
  /\ \A digits \in HexHashes : digits \in Seq(HexDigits) /\ Len(digits) <= 8

VARIABLES
  sender,     \* the package of the program that sends
  receiver,   \* the package of the one that receives
  class,      \* the class of the object, by the same name in both
  object,
  phase,      \* which walk is on, or how it all ended
  stack,      \* its activations, the innermost last
  size,       \* what getSerializedSize returned
  buffer,     \* what serialize wrote
  consumed,   \* what internalize returned
  values      \* for each member that was read, the one its bytes came from

vars == <<sender, receiver, class, object, phase, stack, size, buffer,
          consumed, values>>
programs == <<sender, receiver, class, object>>

Walks == {"sizing", "writing", "reading"}
Ends == {"thrown", "refused", "read", "lost"}

-----------------------------------------------------------------------------
(* What the generator makes of a class. *)

WithPrivacy(fields, privacy) ==
  LET list[n \in 0..Len(fields)] ==
        IF n = 0 THEN <<>>
        ELSE IF fields[n].privacy = privacy THEN Append(list[n - 1], fields[n])
        ELSE list[n - 1]
  IN  list[Len(fields)]

(* The order of the members in all three functions. *)
Members(fields) ==
  WithPrivacy(fields, "public") \o WithPrivacy(fields, "protected")
    \o WithPrivacy(fields, "private")

(* writeHHeaderInclude: each type once, in the order of the input. *)
Includes(fields) ==
  LET isFirst(n) == \A j \in 1..(n - 1) : fields[j].type # fields[n].type
      list[n \in 0..Len(fields)] ==
        IF n = 0 THEN <<>>
        ELSE IF fields[n].type \in ClassNames /\ isFirst(n)
        THEN Append(list[n - 1], fields[n].type)
        ELSE list[n - 1]
  IN  list[Len(fields)]

(* writeFieldAccessors and writeField: what the header declares for the     *)
(* members, section by section.  Each data type has a name of its own.      *)
Declarations(fields) == Members(fields)

(* Mutant of ClassHash: the members without their order. *)
ClassHashOfSet(package, c) ==
  <<c, Includes(package[c]), ToSet(Declarations(package[c]))>>

(* The class hash, as the text it is taken of: two texts have two hashes.  *)
(* The code's hash has 32 bits, 37 * h + c over the characters, so that     *)
(* other texts with the same hash exist; what rests on ClassHash being      *)
(* equal is said of headers among which there is no such pair.              *)
ClassHash(package, c) ==
  HashedText(<<>>, c, Includes(package[c]), Declarations(package[c]))

-----------------------------------------------------------------------------
(* The walks. *)

Activation(package, c, base, path) ==
  [members |-> Members(package[c]), base |-> base, count |-> 0, path |-> path]

TypeOK ==
  /\ sender \in Packages /\ receiver \in Packages
  /\ class \in ClassNames /\ object \in Objects
  /\ phase \in Walks \union Ends
  /\ phase \in Walks <=> stack # <<>>
  /\ \A i \in DOMAIN stack : stack[i].base \in Nat /\ stack[i].count \in Nat
  /\ \A u \in buffer : u.at \in Nat /\ u.len \in Nat /\ u.of \in Paths
  /\ size \in Nat /\ consumed \in Nat
  /\ \A p \in DOMAIN values : p \in Paths /\ values[p] \in Paths \union {Junk}

Init ==
  /\ sender \in Packages /\ receiver \in Packages
  /\ class \in ClassNames
  /\ object \in Objects
  /\ phase = "sizing"
  /\ stack = <<Activation(sender, class, 0, <<>>)>>
  /\ size = 0 /\ consumed = 0
  /\ buffer = {}
  /\ values = [p \in {} |-> Junk]

top == Last(stack)
HasField == top.members # <<>>
field == Head(top.members)
path == Append(top.path, field.name)
address == top.base + top.count

InWalk(walk) == phase = walk /\ HasField /\ field.type \notin ClassNames
AtEnd(walk) == phase = walk /\ ~HasField /\ Len(stack) = 1

(* The next member, after n bytes of this one. *)
Past(frame, n) ==
  [frame EXCEPT !.members = Tail(@), !.count = @ + n]
Advance(n) == stack' = Append(Front(stack), Past(top, n))

(* Mutant of SizeOf: a string or blob is as long as its contents. *)
SizeOfContents(type, length) ==
  IF type \in Varying THEN length ELSE Width[type]

(* writeGetSerializedSizeField: sizeof( i64 ) and the contents. *)
SizeOf(type, length) ==
  IF type \in Varying THEN 8 + length ELSE Width[type]

SizeField ==
  /\ InWalk("sizing")
  /\ Advance(SizeOf(field.type, object[path]))
  /\ UNCHANGED <<programs, phase, size, buffer, consumed, values>>

(* A member that is an object: the same function of its class. *)
EnterObject ==
  /\ phase \in Walks /\ HasField /\ field.type \in ClassNames
  /\ stack' = Append(stack,
       Activation(IF phase = "reading" THEN receiver ELSE sender,
                  field.type, address, path))
  /\ UNCHANGED <<programs, phase, size, buffer, consumed, values>>

(* Its return value is added to that of the caller. *)
LeaveObject ==
  /\ phase \in Walks /\ ~HasField /\ Len(stack) > 1
  /\ stack' = Append(Front(Front(stack)), Past(Last(Front(stack)), top.count))
  /\ UNCHANGED <<programs, phase, size, buffer, consumed, values>>

EndSizing ==
  /\ AtEnd("sizing")
  /\ size' = top.count
  /\ phase' = "writing"
  /\ stack' = <<Activation(sender, class, 0, <<>>)>>
  /\ UNCHANGED <<programs, buffer, consumed, values>>

(* Serialization::write: the value, or a length and the contents. *)
Written(type, at) ==
  IF type \in Varying
  THEN {[at |-> at, len |-> 8, is |-> "length", of |-> path],
        [at |-> at + 8, len |-> object[path], is |-> "contents", of |-> path]}
  ELSE {[at |-> at, len |-> Width[type], is |-> "value", of |-> path]}

(* What Serialization::write returns: the bytes that it wrote, which the   *)
(* size the generator computes for a member need not be.                   *)
WriteReturns(type, length) ==
  IF type \in Varying THEN 8 + length ELSE Width[type]

SerializeField ==
  LET units == Written(field.type, address) IN
  /\ InWalk("writing")
  /\ buffer' = {old \in buffer : \A u \in units :
                  old.at + old.len <= u.at \/ u.at + u.len <= old.at}
               \union units
  /\ Advance(WriteReturns(field.type, object[path]))
  /\ UNCHANGED <<programs, phase, size, consumed, values>>

(* createStreamContents compares; the receiver looks for a handler with   *)
(* the hash of the stream, and that of this class inflates the object.    *)
EndSerialize ==
  /\ AtEnd("writing")
  /\ IF top.count # size
     THEN phase' = "thrown" /\ stack' = <<>>
     ELSE IF ClassHash(sender, class) # ClassHash(receiver, class)
     THEN phase' = "refused" /\ stack' = <<>>
     ELSE /\ phase' = "reading"
          /\ stack' = <<Activation(receiver, class, 0, <<>>)>>
  /\ UNCHANGED <<programs, size, buffer, consumed, values>>

At(is, len) == {u \in buffer : u.is = is /\ u.at = address /\ u.len = len}

Store(source) ==
  values' = [p \in DOMAIN values \union {path} |->
               IF p = path THEN source ELSE values[p]]

(* Serialization::read of a value, whoever wrote the bytes. *)
InternalizeValue ==
  /\ InWalk("reading") /\ field.type \notin Varying
  /\ LET found == At("value", Width[field.type]) IN
       Store(IF found = {} THEN Junk ELSE (CHOOSE u \in found : TRUE).of)
  /\ Advance(Width[field.type])
  /\ UNCHANGED <<programs, phase, size, buffer, consumed>>

(* The same of a string or blob: its length, and then as many bytes. *)
InternalizeContents ==
  /\ InWalk("reading") /\ field.type \in Varying
  /\ \E u \in At("length", 8) : Store(u.of) /\ Advance(8 + object[u.of])
  /\ UNCHANGED <<programs, phase, size, buffer, consumed>>

(* When no length was written there, there is no telling what it reads. *)
InternalizeAnything ==
  /\ InWalk("reading") /\ field.type \in Varying
  /\ At("length", 8) = {}
  /\ phase' = "lost"
  /\ stack' = <<>>
  /\ UNCHANGED <<programs, size, buffer, consumed, values>>

(* Mutant of EndInternalize: it returns what the last member counted. *)
EndInternalizeEarly ==
  /\ phase = "reading" /\ ~HasField
  /\ consumed' = top.count
  /\ phase' = "read"
  /\ stack' = Front(stack)
  /\ UNCHANGED <<programs, size, buffer, values>>

EndInternalize ==
  /\ AtEnd("reading")
  /\ consumed' = top.count
  /\ phase' = "read"
  /\ stack' = <<>>
  /\ UNCHANGED <<programs, size, buffer, values>>

Next ==
  \/ EnterObject \/ LeaveObject
  \/ SizeField \/ EndSizing
  \/ SerializeField \/ EndSerialize
  \/ InternalizeValue \/ InternalizeContents \/ InternalizeAnything
  \/ EndInternalize

Spec == Init /\ [][Next]_vars

-----------------------------------------------------------------------------
(* Properties. *)

(* serialize writes the bytes that getSerializedSize counted and none       *)
(* beyond, so that createStreamContents never throws on a generated class   *)
(* and never writes outside of its buffer.                                  *)
WritesItsSize ==
  /\ phase # "thrown"
  /\ phase # "sizing" => \A u \in buffer : u.at + u.len <= size

(* Every member has the value of the same member of the object that was     *)
(* sent, nothing was left out, and the object was used to its last byte.    *)
Restored ==
  /\ consumed = size
  /\ DOMAIN values = {u.of : u \in buffer}
  /\ \A p \in DOMAIN values : values[p] = p

(* An object that the receiver accepts is restored, whatever the versions   *)
(* of the two programs, as long as they agree on the hashes of the other    *)
(* classes, which are not in the stream, and no two different headers have  *)
(* the same 32-bit hash: ClassHash is the text itself, not cpp_util.cpp:173.*)
ReadsBack ==
  (\A c \in ClassNames \ {class} : ClassHash(sender, c) = ClassHash(receiver, c))
    => phase # "lost" /\ (phase = "read" => Restored)

(* A header shows one hash in both of its places, all of it where the zeros *)
(* were and nothing else overwritten; a hash of eight digits is shown as it *)
(* is; and generating the class again at another time changes neither the   *)
(* text that is hashed nor what is shown.                                   *)
Shown(text, label) ==
  LET i == CHOOSE j \in DOMAIN text : text[j] = Char(label) IN
    [k \in 1..8 |-> text[i + k].char]

HeaderShowsHash ==
  phase = "sizing" => \A time \in Times, digits \in HexHashes :
    LET included == Includes(sender[class])
        body == Declarations(sender[class])
        composed == Header(time, class, included, body)
        file == WithHash(time, class, included, body, digits)
        shown == Shown(file, " * Class hash: ")
    IN  /\ Shown(file, " 0x") = shown
        /\ \A i \in 1..8 : shown[i] = IF i \in DOMAIN digits THEN digits[i] ELSE "0"
        /\ \A i \in DOMAIN composed : file[i] # composed[i] => composed[i] = Char("0")
        /\ HashedText(time, class, included, body) = ClassHash(sender, class)

(* serializable.h on getClassHash: if the class definition changes such     *)
(* that its serialization semantics change, the hash changes, so that what  *)
(* the receiver accepts it restores.                                        *)
HashFollowsSemantics == phase # "lost" /\ (phase = "read" => Restored)

=============================================================================
