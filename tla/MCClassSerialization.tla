------------------------ MODULE MCClassSerialization ------------------------
(* An instance of ClassSerialization for TLC. *)
EXTENDS ClassSerialization

CONSTANTS Outer, Inner, junk

TwoClasses == {Outer, Inner}
SomeWidths == [i32 |-> 4, i64 |-> 8]

F(name, privacy, type) == [name |-> name, privacy |-> privacy, type |-> type]

(* Three members of three kinds, in three orders. *)
Rotations(s) == {s, Tail(s) \o <<Head(s)>>, <<Last(s)>> \o Front(s)}
Outers ==
  UNION {Rotations(<<F("x", p, t), F("y", q, "string"), F("z", "protected", Inner)>>) :
           p \in {"public", "private"}, q \in {"public", "private"},
           t \in {"i32", "i64"}}

Inners ==
  {<<F("s", "public", "string")>>,
   <<F("s", "private", "string"), F("n", "public", "i32")>>,
   <<F("n", "private", "i64"), F("s", "private", "blob")>>}

SomePackages ==
  {[c \in TwoClasses |-> IF c = Outer THEN o ELSE i] : o \in Outers, i \in Inners}

FiveNames == {"x", "y", "z", "s", "n"}
SomePaths == SeqOf(FiveNames, 2)

(* Times of two lengths; hashes of one, of seven and of eight digits. *)
Digits(n) == [i \in 1..n |-> Char("9")]
SomeTimes == {Digits(1), Digits(3)}
SomeHashes ==
  {<<"a">>, <<"f", "0", "e", "1", "d", "2", "c">>,
   <<"1", "2", "3", "4", "5", "6", "7", "8">>}

SomeObjects == {[p \in SomePaths |-> Len(p)], [p \in SomePaths |-> 2 - Len(p)]}

=============================================================================
