---------------------------- MODULE ClassHeader ----------------------------
(***************************************************************************)
(* The text of a generated header, as far as the class hash goes: it is    *)
(* composed with eight zeros in two places, hashed from behind its opening *)
(* comment on, and then overwritten in both places.                        *)
(*                                                                         *)
(* A text is a sequence of characters.  Where nothing counts them, a piece *)
(* of text is one: a name, a line, the declaration of a member.            *)
(***************************************************************************)
EXTENDS Integers, Sequences, SequencesExt

Char(c) == [char |-> c]
EndLine == <<Char("endl")>>
Zeros == [i \in 1..8 |-> Char("0")]

(* writeMainHeader, up to the zeros.  time is the text of getTimeMillis. *)
Comment(time) ==
  <<Char("/** CodeRoller generated class. Generated on ")>> \o time
    \o EndLine \o <<Char(" * Class hash: ")>> \o Zeros

CommentEnd == EndLine \o <<Char(" "), Char("*"), Char("/")>> \o EndLine

(* Everything up to the zeros of writeHashDef. *)
ToHashDef(time, name, included) ==
  Comment(time) \o CommentEnd \o EndLine
    \o <<Char("#ifndef"), name>> \o EndLine
    \o included \o EndLine \o <<Char("#define __CR_HASH_"), name, Char(" 0x")>> \o Zeros

Header(time, name, included, body) ==
  ToHashDef(time, name, included) \o EndLine \o <<name>> \o body
    \o <<Char("#endif")>> \o EndLine

(* Mutant of BeforeZeros: one of the eight is forgotten. *)
BeforeSevenZeros(text) == Len(text) - 7

(* (i64)_hStream.tellp() - 8, when the zeros were just written. *)
BeforeZeros(text) == Len(text) - 8

(* sizeof( "00000000\n */" ) counts the zero that ends the string, which   *)
(* makes up for the end of the line that follows the comment.              *)
PlaceBytes == 13

(* What hash is given: the text from there on. *)
HashedText(time, name, included, body) ==
  LET text == Header(time, name, included, body)
      _hashPosition2 == BeforeZeros(Comment(time))
  IN  SubSeq(text, _hashPosition2 + PlaceBytes + 1, Len(text))

(* substituteHash: the digits, as many as std::hex prints. *)
substituteHash(text, digits, streamPos) ==
  [i \in DOMAIN text |->
     IF i - streamPos \in DOMAIN digits THEN Char(digits[i - streamPos]) ELSE text[i]]

(* The file, with the hash in both places. *)
WithHash(time, name, included, body, digits) ==
  substituteHash(
    substituteHash(Header(time, name, included, body), digits,
                   BeforeZeros(ToHashDef(time, name, included))),
    digits, BeforeZeros(Comment(time)))

=============================================================================
