--------------------------- MODULE Configuration ---------------------------
(***************************************************************************)
(* From the document to the classes that are composed: parseXML walks the  *)
(* elements and converts their attributes, generateAll finds a generator   *)
(* for each language, and CPPClassGenerator sorts the fields of a class by *)
(* the privacy that field, class or package set.  Any of them can throw,   *)
(* which ends the invocation with status 1.                                *)
(*                                                                         *)
(* An attribute is its string, or Absent.  Names matter only as far as     *)
(* they are there.                                                         *)
(*                                                                         *)
(* The file system is left out, and is that of Generate and MakeDirectory: *)
(* no output is there yet, so that no class is skipped as up to date, and  *)
(* the directories are there or can be made.                               *)
(***************************************************************************)
EXTENDS Integers, Sequences, SequencesExt

CONSTANTS
  Documents,   \* records [root, languages, privacy, serializable, classes]
  Absent

(* A document that was loaded has its elements in an order. *)
ASSUME DocumentsAssumption ==
  \A d \in Documents :
    /\ d.classes \in Seq(ToSet(d.classes))
    /\ \A class \in ToSet(d.classes) : class.fields \in Seq(ToSet(class.fields))

VARIABLES
  document,
  config,      \* GenConfig: languages, privacy, serializable, classes
  c,           \* the Class being parsed
  pc,
  composed     \* the classes composed so far, with their fields by privacy

vars == <<document, config, c, pc, composed>>

Specifications == {"NONE", "YES", "NO"}
Levels == {"PRIVATE", "PROTECTED", "PUBLIC"}
Running == {"root", "class", "field", "generate", "compose"}
Exits == {"exit 0", "exit 1", "crashed"}

-----------------------------------------------------------------------------
(* The conversions of cr_util.cpp. *)

(* An exception, for a string that no enumerator has. *)
Invalid == "invalid"

toLanguage(str) ==
  IF str = "" THEN "NONE"
  ELSE IF str \in {"C++", "CPP"} THEN "CPP" ELSE Invalid

toAccessPrivacy(str) ==
  IF str \in {Absent, ""} THEN "NONE"
  ELSE IF str = "private" THEN "PRIVATE"
  ELSE IF str = "protected" THEN "PROTECTED"
  ELSE IF str = "public" THEN "PUBLIC" ELSE Invalid

(* strcmp without a comparison to 0 is true for strings that differ. *)
toSerializableSpecification(str) ==
  IF str \in {Absent, ""} THEN "NONE"
  ELSE IF str = "yes" \/ str # "true" THEN "YES"
  ELSE IF str = "no" \/ str # "false" THEN "NO" ELSE "NONE"

(* An attribute of a field names a type, or an object and its class.  The *)
(* text after "object" has to be longer than its separator.               *)
Scalars == {"", "i32", "string"}
isDataType(str) == str \in Scalars \union {"object:Foo"}

-----------------------------------------------------------------------------
NoClass == [privacy |-> "NONE", serializable |-> "NONE", fields |-> <<>>]

TypeOK ==
  /\ pc \in Running \union Exits
  /\ ToSet(config.languages) \subseteq {"CPP", "NONE"}
  /\ config.privacy \in Levels \union {"NONE"}
  /\ config.serializable \in Specifications
  /\ \A parsed \in ToSet(config.classes) \union {c} :
       /\ parsed.privacy \in Levels \union {"NONE"}
       /\ ToSet(parsed.fields) \subseteq Levels \union {"NONE"}
  /\ Len(config.classes) <= Len(document.classes)
  /\ Len(composed) <= Len(config.classes)

Init ==
  /\ document \in Documents
  /\ config = [languages |-> <<>>, privacy |-> "NONE", serializable |-> "NONE",
               classes |-> <<>>]
  /\ c = NoClass
  /\ pc = "root"
  /\ composed = <<>>

(* Mutant of Throw: the exception is caught and logged. *)
ThrowNothing ==
  /\ pc' = "generate"
  /\ UNCHANGED <<config, c, composed>>

(* An exception reaches main. *)
Throw ==
  /\ pc' = "exit 1"
  /\ UNCHANGED <<config, c, composed>>

(* parseXML, up to the first class.  A document that cannot be loaded has  *)
(* no root to ask for its name; a language that cannot be converted is     *)
(* left out.                                                               *)
ParseRoot ==
  /\ pc = "root"
  /\ \/ document.root = Absent
        /\ pc' = "crashed" /\ UNCHANGED <<config, c, composed>>
     \/ /\ document.root # Absent
        /\ \/ document.root # "CodeRoller"
           \/ document.languages = Absent
           \/ toAccessPrivacy(document.privacy) = Invalid
        /\ Throw
     \/ /\ document.root = "CodeRoller"
        /\ document.languages # Absent
        /\ toAccessPrivacy(document.privacy) # Invalid
        /\ config' = [config EXCEPT
             !.languages = IF toLanguage(document.languages) = Invalid THEN <<>>
                           ELSE <<toLanguage(document.languages)>>,
             !.privacy = toAccessPrivacy(document.privacy),
             !.serializable = toSerializableSpecification(document.serializable)]
        /\ pc' = "class"
        /\ UNCHANGED <<c, composed>>
  /\ UNCHANGED document

element == document.classes[Len(config.classes) + 1]
fieldElement == element.fields[Len(c.fields) + 1]

(* parseClass, up to its first field.  Nothing sets Class::_serializable:  *)
(* it is what the memory held, NONE for any value that is no enumerator.   *)
ParseClass ==
  /\ pc = "class" /\ Len(config.classes) < Len(document.classes)
  /\ IF ~element.named \/ toAccessPrivacy(element.privacy) = Invalid
     THEN Throw
     ELSE /\ \E memory \in Specifications :
               c' = [privacy |-> toAccessPrivacy(element.privacy),
                     serializable |-> memory, fields |-> <<>>]
          /\ pc' = "field"
          /\ UNCHANGED <<config, composed>>
  /\ UNCHANGED document

(* Mutant of ParseField: whatever the privacy is converted to is kept. *)
ParseFieldUnchecked ==
  /\ pc = "field" /\ Len(c.fields) < Len(element.fields)
  /\ IF ~fieldElement.named \/ ~isDataType(fieldElement.type)
     THEN Throw
     ELSE /\ c' = [c EXCEPT !.fields =
                     Append(@, toAccessPrivacy(fieldElement.privacy))]
          /\ UNCHANGED <<config, pc, composed>>
  /\ UNCHANGED document

(* parseField. *)
ParseField ==
  /\ pc = "field" /\ Len(c.fields) < Len(element.fields)
  /\ IF \/ ~fieldElement.named \/ ~isDataType(fieldElement.type)
        \/ toAccessPrivacy(fieldElement.privacy) = Invalid
     THEN Throw
     ELSE /\ c' = [c EXCEPT !.fields =
                     Append(@, toAccessPrivacy(fieldElement.privacy))]
          /\ UNCHANGED <<config, pc, composed>>
  /\ UNCHANGED document

(* Mutant of EndClass: the next class inherits this one's default. *)
EndClassKeepingPrivacy ==
  /\ pc = "field" /\ Len(c.fields) = Len(element.fields)
  /\ config' = [config EXCEPT !.classes = Append(@, c), !.privacy = c.privacy]
  /\ c' = NoClass
  /\ pc' = "class"
  /\ UNCHANGED <<document, composed>>

EndClass ==
  /\ pc = "field" /\ Len(c.fields) = Len(element.fields)
  /\ config' = [config EXCEPT !.classes = Append(@, c)]
  /\ c' = NoClass
  /\ pc' = "class"
  /\ UNCHANGED <<document, composed>>

EndParse ==
  /\ pc = "class" /\ Len(config.classes) = Len(document.classes)
  /\ pc' = "generate"
  /\ UNCHANGED <<document, config, c, composed>>

(* generateAll: without a language there is nothing to do, and only C++    *)
(* has a generator.                                                        *)
GenerateAll ==
  /\ pc = "generate"
  /\ IF config.languages = <<"NONE">>
     THEN Throw
     ELSE /\ pc' = IF config.languages = <<>> THEN "exit 0" ELSE "compose"
          /\ UNCHANGED <<config, c, composed>>
  /\ UNCHANGED document

(* Mutant of resolvePrivacy: the class has the last word. *)
resolvePrivacyOfClass(parsed, level) ==
  IF parsed.privacy # "NONE" THEN parsed.privacy
  ELSE IF level # "NONE" THEN level ELSE config.privacy

resolvePrivacy(parsed, level) ==
  IF level # "NONE" THEN level
  ELSE IF parsed.privacy # "NONE" THEN parsed.privacy ELSE config.privacy

resolveClassSerializable(parsed) ==
  \/ parsed.serializable = "YES"
  \/ parsed.serializable = "NONE" /\ config.serializable = "YES"

next == config.classes[Len(composed) + 1]
level(i) == resolvePrivacy(next, next.fields[i])

(* Those of n fields whose numbers are in a set, in the order they came in. *)
InOrder(numbers, n) == SelectSeq([i \in 1..n |-> i], LAMBDA i : i \in numbers)

(* CPPClassGenerator::generate, of a class that it neither returns early   *)
(* for, since its outputs are newer than the input (lines 46 to 52), nor   *)
(* fails to make the directories of (58 to 67): that one throws too, but   *)
(* for no reason that lies in the document.  Fields are known by their     *)
(* numbers.                                                                *)
ComposeClass ==
  /\ pc = "compose" /\ Len(composed) < Len(config.classes)
  /\ IF \E i \in DOMAIN next.fields : level(i) = "NONE"
     THEN Throw
     ELSE /\ composed' = Append(composed,
               [serializable |-> resolveClassSerializable(next),
                fields |-> [l \in Levels |->
                  InOrder({i \in DOMAIN next.fields : level(i) = l},
                          Len(next.fields))]])
          /\ UNCHANGED <<config, c, pc>>
  /\ UNCHANGED document

Exit ==
  /\ pc = "compose" /\ Len(composed) = Len(config.classes)
  /\ pc' = "exit 0"
  /\ UNCHANGED <<document, config, c, composed>>

Next ==
  \/ ParseRoot \/ ParseClass \/ ParseField \/ EndClass \/ EndParse
  \/ GenerateAll \/ ComposeClass \/ Exit

Spec == Init /\ [][Next]_vars

-----------------------------------------------------------------------------
(* Properties. *)

IsPrivacy(str) == str \in {Absent, "", "private", "protected", "public"}

WellFormed ==
  /\ document.root = "CodeRoller" /\ document.languages # Absent
  /\ IsPrivacy(document.privacy)
  /\ \A class \in ToSet(document.classes) :
       /\ class.named /\ IsPrivacy(class.privacy)
       /\ \A field \in ToSet(class.fields) :
            field.named /\ isDataType(field.type) /\ IsPrivacy(field.privacy)

(* What a field's own attribute says goes, then its class's, then the root's. *)
Privacies(i, j) ==
  LET class == document.classes[i] IN
    <<class.fields[j].privacy, class.privacy, document.privacy>>
Speaking(i, j) == {r \in 1..3 : Privacies(i, j)[r] \notin {Absent, ""}}
HasLevel(i, j) == Speaking(i, j) # {}
Wanted(i, j) ==
  LET first == CHOOSE r \in Speaking(i, j) : \A q \in Speaking(i, j) : r <= q IN
    toAccessPrivacy(Privacies(i, j)[first])

(* Every field of a composed class is in the section of its level and in no *)
(* other, in the order of the document; and the program that exits with 0   *)
(* has composed every class, unless it knew none of the languages.  This is *)
(* where no outputs are there yet: a class whose outputs are up to date is  *)
(* passed without being composed.                                           *)
EveryFieldPlaced ==
  /\ \A i \in DOMAIN composed : \A l \in Levels :
       LET fields == document.classes[i].fields IN
         composed[i].fields[l] =
           InOrder({j \in DOMAIN fields : HasLevel(i, j) /\ Wanted(i, j) = l},
                   Len(fields))
  /\ pc = "exit 0" /\ config.languages # <<>> =>
       Len(composed) = Len(document.classes)

(* A mistake anywhere in the document keeps every class from being          *)
(* composed, those before the mistake included; only a field without any    *)
(* level is found after the classes before it were composed.                *)
NothingFromMalformed == composed # <<>> => WellFormed

(* On a healthy file system the program fails for a reason in the document; *)
(* on another one mkdir may throw as well.                                  *)
FailsForCause ==
  pc = "exit 1" =>
    \/ ~WellFormed
    \/ document.languages = ""
    \/ \E i \in DOMAIN document.classes :
         \E j \in DOMAIN document.classes[i].fields : ~HasLevel(i, j)

(* cr_constants.h on SerializableSpecification: yes, no or unspecified, as  *)
(* the attribute defaultSerializable says it.                               *)
SerializableAsWritten ==
  pc = "class" =>
    /\ document.serializable \in {"yes", "true"} => config.serializable = "YES"
    /\ document.serializable \in {"no", "false"} => config.serializable = "NO"

=============================================================================
