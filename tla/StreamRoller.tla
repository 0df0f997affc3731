---------------------------- MODULE StreamRoller ----------------------------
(***************************************************************************)
(* One transmission: createStreamContents sizes a buffer by asking every   *)
(* object for its size, asks again and lets every object serialize itself  *)
(* into the buffer, and the receiver walks the sizes it finds there        *)
(* (listStreamContents) and fetches objects by index (getObject).          *)
(*                                                                         *)
(* The objects are the caller's: Serializable only asks them to answer the *)
(* size they will write.  What they answer and write is chosen freely, but *)
(* serialize returns the number of bytes it wrote, as Serializable says it *)
(* should: an object that misreports them is not modelled.                 *)
(*                                                                         *)
(* The buffer is a set of fields; writing one destroys what it overlaps.   *)
(***************************************************************************)
EXTENDS Integers, Sequences

CONSTANTS
  MaxObjects,       \* bound: objects in the list
  Sizes,            \* what getSerializedSize and serialize may return
  Hashes,           \* class hashes
  CountModulus,     \* 2^32 in the code: the count is stored as a ui32
  IndexModulus,     \* 2^64 in the code: contents.size() is unsigned
  SenderVersions,   \* versions of coderoller the sender may be built with
  ReceiverVersion   \* version of coderoller the receiver is built with

ASSUME StreamAssumption ==
  /\ MaxObjects \in Nat
  /\ Sizes \subseteq Nat
  /\ Hashes \subseteq Int
  /\ CountModulus \in Nat \ {0}
  /\ IndexModulus \in Nat /\ MaxObjects < IndexModulus
  /\ SenderVersions \subseteq Nat
  /\ ReceiverVersion \in Nat

VARIABLES
  pc,        \* what createStreamContents, then the receiver, does next
  version,   \* the sender's version of coderoller
  n,         \* objects.size()
  sizes,     \* answers of the first pass
  size,      \* i64 size: the bytes allocated
  plan,      \* history: the starts the first pass provides for
  mem,       \* the buffer
  starts,    \* history: where each object was put, and where the next goes
  written,   \* history: the class hashes of the objects written
  changed,   \* history: objects that answered another size the second time
  count,     \* numberOfObjects, as the receiver read it
  contents,  \* the vector of <<hash, offset>> the receiver builds
  cursor,    \* the receiver's objectOffset
  got        \* result of the last getObject

createVars == <<version, n, sizes, size, plan, starts, written, changed>>
readVars == <<count, contents, cursor, got>>
vars == <<pc, mem, createVars, readVars>>

HeaderBytes == 18     \* designation, version, git hash, count
SizeBytes == 8        \* sizeof(i64)
HashBytes == 4        \* sizeof(i32)
EndBytes == 2         \* designation
PrefixBytes == SizeBytes + HashBytes

FieldKinds == {"begin", "version", "count", "size", "hash", "object", "end"}
Field(is, at, len, val) == [is |-> is, at |-> at, len |-> len, val |-> val]
Fields == [is : FieldKinds, at : Nat, len : Nat, val : Int]

(* Two fields share no byte. *)
Apart(f, g) == f.at + f.len <= g.at \/ g.at + g.len <= f.at

Put(m, f) == {g \in m : Apart(f, g)} \union {f}

(* The values found at an offset; garbage when no field of the kind is there. *)
Read(is, at, garbage) ==
  LET found == {f \in mem : f.is = is /\ f.at = at} IN
    IF found = {} THEN garbage ELSE {f.val : f \in found}

(* i64 objectOffset of the sender. *)
objectOffset == starts[Len(starts)]

TypeOK ==
  /\ pc \in {"sizing", "filling", "thrown", "returned",
             "listing", "refused", "listed"}
  /\ version \in SenderVersions
  /\ n \in 0..MaxObjects
  /\ sizes \in Seq(Sizes) /\ Len(sizes) <= n
  /\ size \in Nat
  /\ plan \in Seq(Nat)
  /\ mem \subseteq Fields
  /\ starts \in Seq(Nat) /\ starts # <<>>
  /\ written \in Seq(Hashes) /\ Len(written) <= n
  /\ changed \subseteq 1..MaxObjects
  /\ count \in 0..(CountModulus - 1)
  /\ contents \in Seq(Hashes \X Nat)
  /\ cursor \in Nat
  /\ got \in (-1..MaxObjects) \X (Nat \union {-1})

Init ==
  /\ pc = "sizing"
  /\ version \in SenderVersions
  /\ n \in 0..MaxObjects
  /\ sizes = <<>>
  /\ size = HeaderBytes + EndBytes
  /\ plan = <<HeaderBytes>>
  /\ mem = {}
  /\ starts = <<HeaderBytes>>
  /\ written = <<>>
  /\ changed = {}
  /\ count = 0
  /\ contents = <<>>
  /\ cursor = HeaderBytes
  /\ got = <<-1, -1>>

-----------------------------------------------------------------------------
(* createStreamContents. *)

(* Mutant of SizeObject: the bytes of the class hash are left out. *)
SizeObjectNoHash ==
  /\ pc = "sizing" /\ Len(sizes) < n
  /\ \E s \in Sizes :
       /\ sizes' = Append(sizes, s)
       /\ size' = size + s + SizeBytes
  /\ plan' = Append(plan, size' - EndBytes)
  /\ UNCHANGED <<pc, version, n, mem, starts, written, changed, readVars>>

(* The loop that adds every object to the total size. *)
SizeObject ==
  /\ pc = "sizing" /\ Len(sizes) < n
  /\ \E s \in Sizes :
       /\ sizes' = Append(sizes, s)
       /\ size' = size + s + PrefixBytes
  /\ plan' = Append(plan, size' - EndBytes)
  /\ UNCHANGED <<pc, version, n, mem, starts, written, changed, readVars>>

(* Mutant of WriteHeader: the count is not cut to its 32 bits. *)
WriteHeaderWideCount ==
  /\ pc = "sizing" /\ Len(sizes) = n
  /\ mem' = {Field("begin", 0, 2, 0),
             Field("version", 2, 4, version),
             Field("count", 14, 4, n)}
  /\ pc' = "filling"
  /\ UNCHANGED <<createVars, readVars>>

(* Allocation, and everything before the objects.  Bytes 6 to 13, for the *)
(* git hash, are left as the allocator returned them.                     *)
WriteHeader ==
  /\ pc = "sizing" /\ Len(sizes) = n
  /\ mem' = {Field("begin", 0, 2, 0),
             Field("version", 2, 4, version),
             Field("count", 14, 4, n % CountModulus)}
  /\ pc' = "filling"
  /\ UNCHANGED <<createVars, readVars>>

(* The three fields of an object, put at an offset. *)
PutObject(at, s, h, w) ==
  Put(Put(Put(mem, Field("size", at, SizeBytes, s)),
          Field("hash", at + SizeBytes, HashBytes, h)),
      Field("object", at + PrefixBytes, w, Len(written)))

(* Mutant of WriteObject: the bytes written are not compared. *)
WriteObjectUnchecked ==
  /\ pc = "filling" /\ Len(written) < n
  /\ \E s \in Sizes, h \in Hashes, w \in Sizes :
       /\ mem' = PutObject(objectOffset, s, h, w)
       /\ written' = Append(written, h)
       /\ changed' = changed \union {k \in {Len(written) + 1} : s # sizes[k]}
       /\ starts' = Append(starts, objectOffset + s + PrefixBytes)
  /\ UNCHANGED <<pc, version, n, sizes, size, plan, readVars>>

(* One object: its size, asked for again, its hash, and its own bytes.  The *)
(* comparison with the bytes written comes after they were written.         *)
WriteObject ==
  /\ pc = "filling" /\ Len(written) < n
  /\ \E s \in Sizes, h \in Hashes, w \in Sizes :
       /\ mem' = PutObject(objectOffset, s, h, w)
       /\ written' = Append(written, h)
       /\ changed' = changed \union {k \in {Len(written) + 1} : s # sizes[k]}
       /\ IF w # s
          THEN pc' = "thrown" /\ UNCHANGED starts
          ELSE /\ starts' = Append(starts, objectOffset + s + PrefixBytes)
               /\ UNCHANGED pc
  /\ UNCHANGED <<version, n, sizes, size, plan, readVars>>

(* The end designation; the buffer is returned. *)
WriteEnd ==
  /\ pc = "filling" /\ Len(written) = n
  /\ mem' = Put(mem, Field("end", objectOffset, EndBytes, 0))
  /\ pc' = "returned"
  /\ UNCHANGED <<createVars, readVars>>

-----------------------------------------------------------------------------
(* The receiver. *)

(* listStreamContents: validation, and the number of objects. *)
ListHeader ==
  /\ pc = "returned"
  /\ IF Read("begin", 0, {}) # {} /\ ReceiverVersion \in Read("version", 2, {})
     THEN /\ pc' = "listing"
          /\ count' \in Read("count", 14, {})
     ELSE pc' = "refused" /\ UNCHANGED count
  /\ UNCHANGED <<mem, createVars, contents, cursor, got>>

(* Mutant of ListObject: the size is taken to count its own prefix. *)
ListObjectNoPrefix ==
  /\ pc = "listing" /\ Len(contents) < count
  /\ \E s \in Read("size", cursor, Sizes),
        h \in Read("hash", cursor + SizeBytes, Hashes) :
       /\ contents' = Append(contents, <<h, cursor + PrefixBytes>>)
       /\ cursor' = cursor + s
  /\ UNCHANGED <<pc, mem, createVars, count, got>>

(* The loop over the objects of the stream. *)
ListObject ==
  /\ pc = "listing" /\ Len(contents) < count
  /\ \E s \in Read("size", cursor, Sizes),
        h \in Read("hash", cursor + SizeBytes, Hashes) :
       /\ contents' = Append(contents, <<h, cursor + PrefixBytes>>)
       /\ cursor' = cursor + PrefixBytes + s
  /\ UNCHANGED <<pc, mem, createVars, count, got>>

ListEnd ==
  /\ pc = "listing" /\ Len(contents) = count
  /\ pc' = "listed"
  /\ UNCHANGED <<mem, createVars, readVars>>

(* Mutant of Unsigned: the index is compared as the signed number it is. *)
Signed(itemIndex) == itemIndex

(* itemIndex is signed and converts when it is compared with a size. *)
Unsigned(itemIndex) ==
  IF itemIndex < 0 THEN itemIndex + IndexModulus ELSE itemIndex

(* What contents[itemIndex].second may be: outside of the vector, anything. *)
Offsets(itemIndex) ==
  IF itemIndex + 1 \in DOMAIN contents THEN {contents[itemIndex + 1][2]} ELSE 0..size

(* getObject: throws, or hands an offset to internalize. *)
GetObject ==
  /\ pc = "listed"
  /\ \E itemIndex \in -1..MaxObjects :
       \/ /\ Unsigned(itemIndex) >= Len(contents)
          /\ got' = <<-1, -1>>
       \/ /\ Unsigned(itemIndex) < Len(contents)
          /\ \E offset \in Offsets(itemIndex) : got' = <<itemIndex, offset>>
  /\ UNCHANGED <<pc, mem, createVars, count, contents, cursor>>

Next ==
  \/ SizeObject \/ WriteHeader \/ WriteObject \/ WriteEnd
  \/ ListHeader \/ ListObject \/ ListEnd \/ GetObject

Spec == Init /\ [][Next]_vars

-----------------------------------------------------------------------------
(* Properties. *)

(* The field of the k-th object, 0-indexed. *)
ObjectField(f, k) == f \in mem /\ f.is = "object" /\ f.val = k

(* The two passes agree on the layout.  As long as objects answer the same  *)
(* size twice, nothing create has written, the end designation included,    *)
(* lies outside the buffer, unless it is about to throw because an object   *)
(* wrote another number of bytes than it said.                              *)
InBuffer ==
  changed = {} /\ pc # "thrown" => \A f \in mem : f.at + f.len <= size

(* A returned stream is used to the last byte: the receiver's end           *)
(* designation is where the size handed out with the buffer says it is.     *)
EndsAtSize ==
  changed = {} /\ pc \notin {"sizing", "filling", "thrown"} =>
    \E f \in mem : f.is = "end" /\ f.at + f.len = size

(* Whatever the objects answer, as long as create does not throw the bytes  *)
(* of every object it wrote are still there: none wrote over another.       *)
NoneOverwritten ==
  pc # "thrown" =>
    \A k \in 0..(Len(written) - 1) : \E f \in mem : ObjectField(f, k)

(* The receiver finds the objects that were sent: the same number (as far   *)
(* as 32 bits count), in the same order, with the same hashes, even if the  *)
(* sender's objects changed their sizes between the passes.  The offset of  *)
(* each is the one at which it serialized itself, so that internalize can   *)
(* be given it; and the size that stands PrefixBytes in front of it is the  *)
(* number of bytes that follow.  This contradicts stream_roller.h:52, which *)
(* says "The offset will point directly to the size of the object": the     *)
(* code adds the size's and the hash's bytes, and getObject relies on it.   *)
RoundTrip ==
  pc = "listed" =>
    /\ n < CountModulus => Len(contents) = n
    /\ \A k \in 1..Len(contents) :
         /\ contents[k][1] = written[k]
         /\ \E f, g \in mem :
              /\ ObjectField(f, k - 1) /\ f.at = contents[k][2]
              /\ g.is = "size" /\ g.at + PrefixBytes = f.at /\ g.val = f.len

(* Whatever index getObject is asked for, negative ones included, it throws *)
(* or hands internalize the start of the object with that index.            *)
FetchesObject ==
  got # <<-1, -1>> => \E f \in mem : ObjectField(f, got[1]) /\ f.at = got[2]

=============================================================================
