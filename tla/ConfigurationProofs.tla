------------------------ MODULE ConfigurationProofs ------------------------
(***************************************************************************)
(* Proofs about Configuration, for any documents: its types, the section   *)
(* every field is composed in, that nothing comes from a malformed         *)
(* document, and that an invocation fails for a reason in the document.    *)
(***************************************************************************)
EXTENDS Configuration, TLAPS

Converted == Levels \union {"NONE"}
Parsed ==
  [privacy : Converted, serializable : Specifications, fields : Seq(Converted)]
Configurations ==
  [languages : Seq({"CPP", "NONE"}), privacy : Converted,
   serializable : Specifications, classes : Seq(Parsed)]

Types ==
  /\ document \in Documents
  /\ config \in Configurations
  /\ c \in Parsed
  /\ pc \in Running \union Exits
  /\ composed \in Seq(ToSet(composed))

(* The element of the root has been read. *)
RootRead ==
  /\ document.root = "CodeRoller" /\ document.languages # Absent
  /\ IsPrivacy(document.privacy)
  /\ config.privacy = toAccessPrivacy(document.privacy)
  /\ config.languages = IF toLanguage(document.languages) = Invalid THEN <<>>
                        ELSE <<toLanguage(document.languages)>>

(* What was parsed from the element of a class, as far as its fields go. *)
ClassRead(parsed, class) ==
  /\ class.named /\ IsPrivacy(class.privacy)
  /\ parsed.privacy = toAccessPrivacy(class.privacy)
  /\ Len(parsed.fields) <= Len(class.fields)
  /\ \A j \in DOMAIN parsed.fields :
       LET field == class.fields[j] IN
         /\ field.named /\ isDataType(field.type) /\ IsPrivacy(field.privacy)
         /\ parsed.fields[j] = toAccessPrivacy(field.privacy)

RootInv ==
  /\ pc \in {"root", "class", "field", "generate", "crashed"} => composed = <<>>
  /\ pc = "root" => config.classes = <<>>
  /\ pc \in {"class", "field", "generate", "compose", "exit 0"} \/ composed # <<>> =>
       RootRead

(* The classes parsed are the first of the document, each of them whole; it *)
(* takes all of them before the first is composed.                          *)
ClassesInv ==
  /\ Len(config.classes) <= Len(document.classes)
  /\ \A i \in DOMAIN config.classes :
       /\ ClassRead(config.classes[i], document.classes[i])
       /\ Len(config.classes[i].fields) = Len(document.classes[i].fields)
  /\ pc = "field" =>
       Len(config.classes) < Len(document.classes) /\ ClassRead(c, element)
  /\ pc \in {"generate", "compose", "exit 0"} \/ composed # <<>> =>
       Len(config.classes) = Len(document.classes)

Placed(i) ==
  \A l \in Levels :
    LET fields == document.classes[i].fields IN
      composed[i].fields[l] =
        InOrder({j \in DOMAIN fields : HasLevel(i, j) /\ Wanted(i, j) = l},
                Len(fields))

ComposedInv ==
  /\ Len(composed) <= Len(config.classes)
  /\ \A i \in DOMAIN composed : Placed(i)
  /\ pc = "exit 0" /\ config.languages # <<>> => Len(composed) = Len(config.classes)

IInv == Types /\ RootInv /\ ClassesInv /\ ComposedInv /\ FailsForCause

-----------------------------------------------------------------------------
(* The conversions. *)

LEMMA Privacy ==
  ASSUME NEW str
  PROVE  /\ toAccessPrivacy(str) = Invalid <=> ~IsPrivacy(str)
         /\ toAccessPrivacy(str) = "NONE" <=> str \in {Absent, ""}
         /\ IsPrivacy(str) => toAccessPrivacy(str) \in Converted
BY ZenonT(30) DEF toAccessPrivacy, IsPrivacy, Invalid, Converted, Levels

LEMMA Language ==
  ASSUME NEW str
  PROVE  /\ toLanguage(str) \in {"NONE", "CPP", Invalid}
         /\ toLanguage(str) = "NONE" <=> str = ""
BY ZenonT(30) DEF toLanguage, Invalid

LEMMA Serializable ==
  ASSUME NEW str
  PROVE  toSerializableSpecification(str) \in Specifications
BY SMT DEF toSerializableSpecification, Specifications

-----------------------------------------------------------------------------
(* Sequences, and the elements of a document. *)

LEMMA Appended ==
  ASSUME NEW T, NEW s \in Seq(T), NEW e \in T
  PROVE  /\ Append(s, e) \in Seq(T)
         /\ Len(Append(s, e)) = Len(s) + 1
         /\ DOMAIN Append(s, e) = 1..(Len(s) + 1)
         /\ \A k \in 1..Len(s) : Append(s, e)[k] = s[k]
         /\ Append(s, e)[Len(s) + 1] = e
OBVIOUS

LEMMA OverItself ==
  ASSUME NEW T, NEW s \in Seq(T)
  PROVE  s \in Seq(ToSet(s))
BY DEF ToSet

LEMMA Elements ==
  ASSUME document \in Documents
  PROVE  /\ Len(document.classes) \in Nat
         /\ DOMAIN document.classes = 1..Len(document.classes)
         /\ \A i \in DOMAIN document.classes :
              /\ document.classes[i] \in ToSet(document.classes)
              /\ Len(document.classes[i].fields) \in Nat
              /\ DOMAIN document.classes[i].fields = 1..Len(document.classes[i].fields)
              /\ \A j \in DOMAIN document.classes[i].fields :
                   document.classes[i].fields[j] \in ToSet(document.classes[i].fields)
<1>1. document.classes \in Seq(ToSet(document.classes))
  BY DocumentsAssumption
<1>2. ASSUME NEW i \in DOMAIN document.classes
      PROVE  document.classes[i] \in ToSet(document.classes)
  BY DEF ToSet
<1>3. ASSUME NEW i \in DOMAIN document.classes
      PROVE  document.classes[i].fields \in Seq(ToSet(document.classes[i].fields))
  BY <1>2, DocumentsAssumption
<1>4. ASSUME NEW i \in DOMAIN document.classes,
             NEW j \in DOMAIN document.classes[i].fields
      PROVE  document.classes[i].fields[j] \in ToSet(document.classes[i].fields)
  BY DEF ToSet
<1> QED
  BY <1>1, <1>2, <1>3, <1>4

-----------------------------------------------------------------------------
(* The level a field is composed with is the one wanted of it. *)

LEMMA Resolved ==
  ASSUME NEW i, NEW j,
         NEW parsed, NEW lvl,
         parsed.privacy = toAccessPrivacy(document.classes[i].privacy),
         lvl = toAccessPrivacy(document.classes[i].fields[j].privacy),
         config.privacy = toAccessPrivacy(document.privacy)
  PROVE  /\ HasLevel(i, j) <=> resolvePrivacy(parsed, lvl) # "NONE"
         /\ HasLevel(i, j) => Wanted(i, j) = resolvePrivacy(parsed, lvl)
<1> DEFINE P == Privacies(i, j)
           first == CHOOSE r \in Speaking(i, j) : \A q \in Speaking(i, j) : r <= q
<1>1. /\ P[1] = document.classes[i].fields[j].privacy
      /\ P[2] = document.classes[i].privacy
      /\ P[3] = document.privacy
  BY DEF Privacies
<1>2. /\ lvl = toAccessPrivacy(P[1])
      /\ parsed.privacy = toAccessPrivacy(P[2])
      /\ config.privacy = toAccessPrivacy(P[3])
  BY <1>1
<1>3. ASSUME NEW r \in 1..3
      PROVE  r \in Speaking(i, j) <=> toAccessPrivacy(P[r]) # "NONE"
  BY Privacy DEF Speaking
<1>4. Speaking(i, j) \subseteq 1..3
  BY DEF Speaking
<1>5. ASSUME NEW r \in Speaking(i, j), \A q \in Speaking(i, j) : r <= q
      PROVE  first = r
  <2>1. /\ first \in Speaking(i, j)
        /\ \A q \in Speaking(i, j) : first <= q
    BY <1>5
  <2> QED
    BY <2>1, <1>4, <1>5
<1>6. Wanted(i, j) = toAccessPrivacy(P[first])
  BY DEF Wanted
<1> HIDE DEF P, first
<1>7. HasLevel(i, j) <=> Speaking(i, j) # {}
  BY DEF HasLevel
<1>8. CASE lvl # "NONE"
  <2>1. 1 \in Speaking(i, j) /\ \A q \in Speaking(i, j) : 1 <= q
    BY <1>2, <1>3, <1>4, <1>8
  <2>2. first = 1
    BY <1>5, <2>1
  <2> QED
    BY <1>2, <1>6, <1>7, <1>8, <2>1, <2>2 DEF resolvePrivacy
<1>9. CASE lvl = "NONE" /\ parsed.privacy # "NONE"
  <2>1. 2 \in Speaking(i, j) /\ 1 \notin Speaking(i, j)
    <3>1. 2 \in 1..3 /\ 1 \in 1..3
      OBVIOUS
    <3> QED
      BY <1>2, <1>3, <1>9, <3>1
  <2>2. \A q \in Speaking(i, j) : 2 <= q
    BY <2>1, <1>4
  <2>3. first = 2
    BY <1>5, <2>1, <2>2
  <2> QED
    BY <1>2, <1>6, <1>7, <1>9, <2>1, <2>3 DEF resolvePrivacy
<1>10. CASE lvl = "NONE" /\ parsed.privacy = "NONE"
  <2>1. 1 \notin Speaking(i, j) /\ 2 \notin Speaking(i, j)
    <3>1. 2 \in 1..3 /\ 1 \in 1..3
      OBVIOUS
    <3> QED
      BY <1>2, <1>3, <1>10, <3>1
  <2>2. resolvePrivacy(parsed, lvl) = config.privacy
    BY <1>10 DEF resolvePrivacy
  <2>3. CASE config.privacy = "NONE"
    <3>1. 3 \notin Speaking(i, j)
      <4>1. 3 \in 1..3
        OBVIOUS
      <4> QED
        BY <1>2, <1>3, <2>3, <4>1
    <3>2. \A r \in 1..3 : r = 1 \/ r = 2 \/ r = 3
      OBVIOUS
    <3>3. Speaking(i, j) = {}
      BY <1>4, <2>1, <3>1, <3>2
    <3> QED
      BY <1>7, <2>2, <2>3, <3>3
  <2>4. CASE config.privacy # "NONE"
    <3>1. 3 \in Speaking(i, j)
      BY <1>2, <1>3, <2>4
    <3>2. \A q \in Speaking(i, j) : 3 <= q
      BY <1>4, <2>1
    <3>3. first = 3
      BY <1>5, <3>1, <3>2
    <3> QED
      BY <1>2, <1>6, <1>7, <2>2, <2>4, <3>1, <3>3
  <2> QED
    BY <2>3, <2>4
<1> QED
  BY <1>8, <1>9, <1>10

-----------------------------------------------------------------------------
(* The invariant, one action at a time. *)

LEMMA InitIInv == Init => IInv
<1> SUFFICES ASSUME Init PROVE IInv
  OBVIOUS
<1>1. Types
  BY DEF Init, Types, Configurations, Parsed, Converted, Specifications, NoClass,
         Running, Exits, ToSet
<1>2. RootInv
  BY DEF Init, RootInv
<1>3. ClassesInv
  <2>1. Len(document.classes) \in Nat
    BY Elements DEF Init
  <2> QED
    BY <2>1 DEF Init, ClassesInv
<1>4. ComposedInv /\ FailsForCause
  BY DEF Init, ComposedInv, FailsForCause
<1> QED
  BY <1>1, <1>2, <1>3, <1>4 DEF IInv

(* What is wanted of a field is in the document, which stays as it is. *)
LEMMA StillWanted ==
  ASSUME document' = document
  PROVE  /\ \A i, j : HasLevel(i, j)' <=> HasLevel(i, j)
         /\ \A i, j : Wanted(i, j)' = Wanted(i, j)
<1>1. ASSUME NEW i, NEW j PROVE Privacies(i, j)' = Privacies(i, j)
  BY DEF Privacies
<1>2. ASSUME NEW i, NEW j PROVE Speaking(i, j)' = Speaking(i, j)
  BY <1>1 DEF Speaking
<1>3. ASSUME NEW i, NEW j PROVE HasLevel(i, j)' <=> HasLevel(i, j)
  BY <1>2 DEF HasLevel
<1>4. ASSUME NEW i, NEW j PROVE Wanted(i, j)' = Wanted(i, j)
  BY <1>1, <1>2 DEF Wanted
<1> QED
  BY <1>3, <1>4

LEMMA StillPlaced ==
  ASSUME NEW i, document' = document, composed'[i] = composed[i]
  PROVE  Placed(i)' <=> Placed(i)
<1> DEFINE fields == document.classes[i].fields
           numbers(l) == {j \in DOMAIN fields : HasLevel(i, j) /\ Wanted(i, j) = l}
<1>1. fields' = fields
  OBVIOUS
<1>2. ASSUME NEW l PROVE numbers(l)' = numbers(l)
  BY <1>1, StillWanted
<1>3. Placed(i) <=>
        \A l \in Levels : composed[i].fields[l] = InOrder(numbers(l), Len(fields))
  BY DEF Placed
<1>4. Placed(i)' <=>
        \A l \in Levels : composed'[i].fields[l] = InOrder(numbers(l)', Len(fields'))
  BY DEF Placed
<1> QED
  BY <1>1, <1>2, <1>3, <1>4

(* What an exception leaves is what was there before it. *)
LEMMA ThrowStep ==
  ASSUME IInv, Throw, document' = document, pc \in Running,
         \/ ~WellFormed
         \/ document.languages = ""
         \/ \E i \in DOMAIN document.classes :
              \E j \in DOMAIN document.classes[i].fields : ~HasLevel(i, j)
  PROVE  IInv'
<1> USE DEF IInv
<1>1. pc' = "exit 1" /\ config' = config /\ c' = c /\ composed' = composed
  BY DEF Throw
<1>2. Types'
  BY <1>1 DEF Types, Exits
<1>3. RootInv'
  BY <1>1 DEF RootInv, RootRead
<1>4. ClassesInv'
  BY <1>1 DEF ClassesInv
<1>5. ComposedInv'
  <2>1. ASSUME NEW i PROVE Placed(i)' <=> Placed(i)
    BY <1>1, StillPlaced
  <2> QED
    BY <1>1, <2>1 DEF ComposedInv
<1>6. FailsForCause'
  <2>1. WellFormed' <=> WellFormed
    BY DEF WellFormed
  <2> QED
    BY <2>1, StillWanted DEF FailsForCause
<1> QED
  BY <1>2, <1>3, <1>4, <1>5, <1>6

LEMMA ParseRootStep ==
  ASSUME IInv, ParseRoot
  PROVE  IInv'
<1> USE DEF IInv
<1>0. /\ pc = "root" /\ document' = document
      /\ composed = <<>> /\ config.classes = <<>>
  BY DEF ParseRoot, RootInv
<1>1. CASE /\ pc' = "crashed" /\ UNCHANGED <<config, c, composed>>
  <2>1. Types'
    BY <1>0, <1>1 DEF Types, Exits
  <2>2. RootInv' /\ ClassesInv'
    BY <1>0, <1>1 DEF RootInv, ClassesInv
  <2>3. ComposedInv' /\ FailsForCause'
    BY <1>0, <1>1 DEF ComposedInv, FailsForCause
  <2> QED
    BY <2>1, <2>2, <2>3
<1>2. CASE /\ \/ document.root # "CodeRoller"
              \/ document.languages = Absent
              \/ toAccessPrivacy(document.privacy) = Invalid
           /\ Throw
  <2>1. ~WellFormed
    BY <1>2, Privacy DEF WellFormed
  <2> QED
    BY <1>0, <1>2, <2>1, ThrowStep DEF Running
<1>3. CASE /\ document.root = "CodeRoller"
           /\ document.languages # Absent
           /\ toAccessPrivacy(document.privacy) # Invalid
           /\ config' = [config EXCEPT
                !.languages = IF toLanguage(document.languages) = Invalid THEN <<>>
                              ELSE <<toLanguage(document.languages)>>,
                !.privacy = toAccessPrivacy(document.privacy),
                !.serializable = toSerializableSpecification(document.serializable)]
           /\ pc' = "class"
           /\ UNCHANGED <<c, composed>>
  <2> DEFINE languages == IF toLanguage(document.languages) = Invalid THEN <<>>
                          ELSE <<toLanguage(document.languages)>>
             privacy == toAccessPrivacy(document.privacy)
             serializable == toSerializableSpecification(document.serializable)
  <2>1. languages \in Seq({"CPP", "NONE"})
    <3>1. CASE toLanguage(document.languages) = Invalid
      BY <3>1
    <3>2. CASE toLanguage(document.languages) \in {"CPP", "NONE"}
      <4>1. toLanguage(document.languages) # Invalid
        BY <3>2 DEF Invalid
      <4> QED
        BY <3>2, <4>1
    <3> QED
      BY <3>1, <3>2, Language
  <2>2. privacy \in Converted /\ IsPrivacy(document.privacy)
    BY <1>3, Privacy
  <2>3. serializable \in Specifications
    BY Serializable
  <2>4. config' = [languages |-> languages, privacy |-> privacy,
                   serializable |-> serializable, classes |-> config.classes]
    BY <1>3 DEF Types, Configurations
  <2>5. Types'
    <3>1. config' \in Configurations
      <4> HIDE DEF languages, privacy, serializable
      <4> QED
        BY <2>1, <2>2, <2>3, <2>4 DEF Types, Configurations
    <3> QED
      BY <1>0, <1>3, <3>1 DEF Types, Running
  <2>6. RootInv'
    <3>1. config'.privacy = privacy /\ config'.languages = languages
      BY <2>4
    <3> QED
      BY <1>0, <1>3, <2>2, <3>1 DEF RootInv, RootRead
  <2>7. config'.classes = <<>>
    BY <1>0, <2>4
  <2>8. Len(document.classes) \in Nat
    BY Elements DEF Types
  <2>9. ClassesInv'
    BY <1>0, <1>3, <2>7, <2>8 DEF ClassesInv
  <2>10. ComposedInv' /\ FailsForCause'
    BY <1>0, <1>3, <2>7 DEF ComposedInv, FailsForCause
  <2> QED
    BY <2>5, <2>6, <2>9, <2>10
<1> QED
  BY <1>0, <1>1, <1>2, <1>3 DEF ParseRoot

LEMMA ParseClassStep ==
  ASSUME IInv, ParseClass
  PROVE  IInv'
<1> USE DEF IInv
<1>0. /\ pc = "class" /\ document' = document /\ composed = <<>>
      /\ Len(config.classes) < Len(document.classes)
  BY DEF ParseClass, RootInv
<1>1. element \in ToSet(document.classes) /\ Len(element.fields) \in Nat
  <2>1. Len(config.classes) + 1 \in DOMAIN document.classes
    BY <1>0, Elements DEF Types, Configurations
  <2> QED
    BY <2>1, Elements DEF Types, element
<1>2. CASE ~element.named \/ toAccessPrivacy(element.privacy) = Invalid
  <2>1. ~WellFormed
    BY <1>1, <1>2, Privacy DEF WellFormed
  <2>2. Throw
    BY <1>2 DEF ParseClass
  <2> QED
    BY <1>0, <2>1, <2>2, ThrowStep DEF Running
<1>3. CASE ~(~element.named \/ toAccessPrivacy(element.privacy) = Invalid)
  <2>1. PICK memory \in Specifications :
          c' = [privacy |-> toAccessPrivacy(element.privacy),
                serializable |-> memory, fields |-> <<>>]
    BY <1>3 DEF ParseClass
  <2>2. pc' = "field" /\ config' = config /\ composed' = composed
    BY <1>3 DEF ParseClass
  <2>3. element.named /\ IsPrivacy(element.privacy)
        /\ toAccessPrivacy(element.privacy) \in Converted
    BY <1>3, Privacy
  <2>4. Types'
    BY <1>0, <2>1, <2>2, <2>3 DEF Types, Running, Parsed
  <2>5. RootInv'
    BY <1>0, <2>2 DEF RootInv, RootRead
  <2>6. c'.privacy = toAccessPrivacy(element.privacy) /\ c'.fields = <<>>
    BY <2>1
  <2>7. ClassRead(c', element)
    BY <1>1, <2>3, <2>6 DEF ClassRead
  <2>8. element' = element
    BY <1>0, <2>2 DEF element
  <2>9. ClassesInv'
    BY <1>0, <2>2, <2>7, <2>8 DEF ClassesInv
  <2>10. ComposedInv' /\ FailsForCause'
    BY <1>0, <2>2 DEF ComposedInv, FailsForCause, Types, Configurations
  <2> QED
    BY <2>4, <2>5, <2>9, <2>10
<1> QED
  BY <1>2, <1>3

LEMMA ParseFieldStep ==
  ASSUME IInv, ParseField
  PROVE  IInv'
<1> USE DEF IInv
<1>0. /\ pc = "field" /\ document' = document /\ composed = <<>>
      /\ Len(config.classes) < Len(document.classes)
      /\ ClassRead(c, element)
      /\ Len(c.fields) < Len(element.fields)
  BY DEF ParseField, RootInv, ClassesInv
<1>1. /\ element \in ToSet(document.classes)
      /\ Len(element.fields) \in Nat
      /\ fieldElement \in ToSet(element.fields)
  <2>1. Len(config.classes) + 1 \in DOMAIN document.classes
    BY <1>0, Elements DEF Types, Configurations
  <2>2. /\ element \in ToSet(document.classes)
        /\ Len(element.fields) \in Nat
        /\ DOMAIN element.fields = 1..Len(element.fields)
        /\ \A j \in DOMAIN element.fields : element.fields[j] \in ToSet(element.fields)
    BY <2>1, Elements DEF Types, element
  <2>3. Len(c.fields) + 1 \in DOMAIN element.fields
    BY <1>0, <2>2 DEF Types, Parsed
  <2> QED
    BY <2>2, <2>3 DEF fieldElement
<1>2. CASE \/ ~fieldElement.named \/ ~isDataType(fieldElement.type)
           \/ toAccessPrivacy(fieldElement.privacy) = Invalid
  <2>1. ~WellFormed
    BY <1>1, <1>2, Privacy DEF WellFormed
  <2>2. Throw
    BY <1>2 DEF ParseField
  <2> QED
    BY <1>0, <2>1, <2>2, ThrowStep DEF Running
<1>3. CASE ~(\/ ~fieldElement.named \/ ~isDataType(fieldElement.type)
             \/ toAccessPrivacy(fieldElement.privacy) = Invalid)
  <2> DEFINE lvl == toAccessPrivacy(fieldElement.privacy)
  <2>1. /\ fieldElement.named /\ isDataType(fieldElement.type)
        /\ IsPrivacy(fieldElement.privacy) /\ lvl \in Converted
    BY <1>3, Privacy
  <2>2. /\ c' = [c EXCEPT !.fields = Append(c.fields, lvl)]
        /\ UNCHANGED <<config, pc, composed>>
    BY <1>3 DEF ParseField
  <2> HIDE DEF lvl
  <2>3. c.fields \in Seq(Converted)
    BY DEF Types, Parsed
  <2>4. /\ Append(c.fields, lvl) \in Seq(Converted)
        /\ Len(Append(c.fields, lvl)) = Len(c.fields) + 1
        /\ DOMAIN Append(c.fields, lvl) = 1..(Len(c.fields) + 1)
        /\ \A k \in 1..Len(c.fields) : Append(c.fields, lvl)[k] = c.fields[k]
        /\ Append(c.fields, lvl)[Len(c.fields) + 1] = lvl
    BY <2>1, <2>3, Appended
  <2>5. /\ c' \in Parsed
        /\ c'.privacy = c.privacy /\ c'.fields = Append(c.fields, lvl)
    BY <2>2, <2>4 DEF Types, Parsed
  <2>6. Types'
    BY <1>0, <2>2, <2>5 DEF Types
  <2>7. RootInv'
    BY <1>0, <2>2 DEF RootInv, RootRead
  <2>8. ClassRead(c', element)
    <3>1. ASSUME NEW j \in DOMAIN c'.fields
          PROVE  /\ element.fields[j].named
                 /\ isDataType(element.fields[j].type)
                 /\ IsPrivacy(element.fields[j].privacy)
                 /\ c'.fields[j] = toAccessPrivacy(element.fields[j].privacy)
      <4>1. CASE j \in 1..Len(c.fields)
        <5>1. j \in DOMAIN c.fields
          BY <2>3, <4>1
        <5> QED
          BY <1>0, <2>4, <2>5, <4>1, <5>1 DEF ClassRead
      <4>2. CASE j = Len(c.fields) + 1
        <5>1. element.fields[j] = fieldElement
          BY <4>2 DEF fieldElement
        <5> QED
          BY <2>1, <2>4, <2>5, <4>2, <5>1 DEF lvl
      <4> QED
        BY <2>3, <2>4, <2>5, <4>1, <4>2
    <3>2. Len(c'.fields) <= Len(element.fields)
      BY <1>0, <1>1, <2>3, <2>4, <2>5
    <3> QED
      BY <1>0, <2>5, <3>1, <3>2 DEF ClassRead
  <2>9. element' = element
    BY <1>0, <2>2 DEF element
  <2>10. ClassesInv'
    BY <1>0, <2>2, <2>8, <2>9 DEF ClassesInv
  <2>11. ComposedInv' /\ FailsForCause'
    BY <1>0, <2>2 DEF ComposedInv, FailsForCause, Types, Configurations
  <2> QED
    BY <2>6, <2>7, <2>10, <2>11
<1> QED
  BY <1>2, <1>3

LEMMA EndClassStep ==
  ASSUME IInv, EndClass
  PROVE  IInv'
<1> USE DEF IInv
<1>0. /\ pc = "field" /\ document' = document /\ composed = <<>>
      /\ Len(config.classes) < Len(document.classes)
      /\ ClassRead(c, element)
      /\ Len(c.fields) = Len(element.fields)
      /\ c' = NoClass /\ pc' = "class" /\ composed' = composed
      /\ config' = [config EXCEPT !.classes = Append(config.classes, c)]
  BY DEF EndClass, RootInv, ClassesInv
<1>1. config.classes \in Seq(Parsed) /\ c \in Parsed
  BY DEF Types, Configurations
<1>2. /\ Append(config.classes, c) \in Seq(Parsed)
      /\ Len(Append(config.classes, c)) = Len(config.classes) + 1
      /\ DOMAIN Append(config.classes, c) = 1..(Len(config.classes) + 1)
      /\ \A k \in 1..Len(config.classes) :
           Append(config.classes, c)[k] = config.classes[k]
      /\ Append(config.classes, c)[Len(config.classes) + 1] = c
  BY <1>1, Appended
<1>3. /\ config' \in Configurations
      /\ config'.classes = Append(config.classes, c)
      /\ config'.privacy = config.privacy /\ config'.languages = config.languages
  BY <1>0, <1>2 DEF Types, Configurations
<1>4. Types'
  <2>1. NoClass \in Parsed
    BY DEF NoClass, Parsed, Converted, Specifications
  <2> QED
    BY <1>0, <1>3, <2>1 DEF Types, Running
<1>5. RootInv'
  BY <1>0, <1>3 DEF RootInv, RootRead
<1>6. ClassesInv'
  <2>1. Len(document.classes) \in Nat /\ Len(config.classes) \in Nat
    BY <1>1, Elements DEF Types
  <2>2. ASSUME NEW i \in DOMAIN config'.classes
        PROVE  /\ ClassRead(config'.classes[i], document.classes[i])
               /\ Len(config'.classes[i].fields) = Len(document.classes[i].fields)
    <3>1. CASE i \in 1..Len(config.classes)
      <4>1. i \in DOMAIN config.classes
        BY <1>1, <3>1
      <4> QED
        BY <1>2, <1>3, <3>1, <4>1 DEF ClassesInv
    <3>2. CASE i = Len(config.classes) + 1
      BY <1>0, <1>2, <1>3, <3>2 DEF element
    <3> QED
      BY <1>2, <1>3, <2>1, <3>1, <3>2
  <2>3. Len(config'.classes) <= Len(document.classes)
    BY <1>0, <1>2, <1>3, <2>1
  <2> QED
    BY <1>0, <2>2, <2>3 DEF ClassesInv
<1>7. ComposedInv' /\ FailsForCause'
  BY <1>0, <1>2, <1>3 DEF ComposedInv, FailsForCause, Types, Configurations
<1> QED
  BY <1>4, <1>5, <1>6, <1>7

LEMMA EndParseStep ==
  ASSUME IInv, EndParse
  PROVE  IInv'
<1> USE DEF IInv
<1>0. /\ pc = "class" /\ pc' = "generate"
      /\ Len(config.classes) = Len(document.classes)
      /\ document' = document /\ config' = config /\ c' = c /\ composed' = composed
      /\ composed = <<>>
  BY DEF EndParse, RootInv
<1>1. Types'
  BY <1>0 DEF Types, Running
<1>2. RootInv'
  BY <1>0 DEF RootInv, RootRead
<1>3. ClassesInv'
  BY <1>0 DEF ClassesInv
<1>4. ComposedInv' /\ FailsForCause'
  BY <1>0 DEF ComposedInv, FailsForCause
<1> QED
  BY <1>1, <1>2, <1>3, <1>4

LEMMA GenerateAllStep ==
  ASSUME IInv, GenerateAll
  PROVE  IInv'
<1> USE DEF IInv
<1>0. pc = "generate" /\ document' = document /\ composed = <<>> /\ RootRead
      /\ Len(config.classes) = Len(document.classes)
  BY DEF GenerateAll, RootInv, ClassesInv
<1>1. CASE config.languages = <<"NONE">>
  <2>1. toLanguage(document.languages) = "NONE"
    <3>1. CASE toLanguage(document.languages) = Invalid
      <4>1. config.languages = <<>>
        BY <1>0, <3>1 DEF RootRead
      <4>2. Len(config.languages) = 0
        BY <4>1
      <4>3. Len(config.languages) = 1
        BY <1>1
      <4> QED
        BY <4>2, <4>3
    <3>2. CASE toLanguage(document.languages) # Invalid
      <4>1. config.languages[1] = toLanguage(document.languages)
        BY <1>0, <3>2 DEF RootRead
      <4>2. config.languages[1] = "NONE"
        BY <1>1
      <4> QED
        BY <4>1, <4>2
    <3> QED
      BY <3>1, <3>2
  <2>2. document.languages = ""
    BY <2>1, Language
  <2>3. Throw
    BY <1>1 DEF GenerateAll
  <2> QED
    BY <1>0, <2>2, <2>3, ThrowStep DEF Running
<1>2. CASE config.languages # <<"NONE">>
  <2>1. /\ pc' = IF config.languages = <<>> THEN "exit 0" ELSE "compose"
        /\ config' = config /\ c' = c /\ composed' = composed
    BY <1>2 DEF GenerateAll
  <2>2. \/ pc' = "exit 0" /\ config.languages = <<>>
        \/ pc' = "compose"
    BY <2>1
  <2>3. Types'
    BY <1>0, <2>1, <2>2 DEF Types, Running, Exits
  <2>4. RootInv'
    BY <1>0, <2>1, <2>2 DEF RootInv, RootRead
  <2>5. ClassesInv'
    BY <1>0, <2>1, <2>2 DEF ClassesInv
  <2>6. ComposedInv'
    <3>1. ~(pc' = "exit 0" /\ config'.languages # <<>>)
      BY <2>1, <2>2
    <3>2. Len(composed') <= Len(config'.classes) /\ DOMAIN composed' = {}
      <4>1. config.classes \in Seq(Parsed)
        BY DEF Types, Configurations
      <4>2. composed' = <<>> /\ config'.classes = config.classes
        BY <1>0, <2>1
      <4>3. Len(config.classes) \in Nat /\ Len(<<>>) = 0 /\ DOMAIN <<>> = {}
        BY <4>1
      <4>4. Len(composed') = 0 /\ DOMAIN composed' = {}
        BY <4>2, <4>3
      <4> QED
        BY <4>2, <4>3, <4>4
    <3> QED
      BY <3>1, <3>2 DEF ComposedInv
  <2>7. FailsForCause'
    BY <2>2 DEF FailsForCause
  <2> QED
    BY <2>3, <2>4, <2>5, <2>6, <2>7
<1> QED
  BY <1>1, <1>2

LEMMA ComposeClassStep ==
  ASSUME IInv, ComposeClass
  PROVE  IInv'
<1> USE DEF IInv
<1> DEFINE n == Len(composed) + 1
           fields == document.classes[n].fields
<1>0. /\ pc = "compose" /\ document' = document /\ RootRead
      /\ Len(composed) < Len(config.classes)
      /\ Len(config.classes) = Len(document.classes)
  BY DEF ComposeClass, RootInv, ClassesInv
<1>1. config.classes \in Seq(Parsed) /\ composed \in Seq(ToSet(composed))
  BY DEF Types, Configurations
<1>2. n \in DOMAIN config.classes /\ next = config.classes[n]
  BY <1>0, <1>1 DEF next
<1>3. /\ ClassRead(next, document.classes[n])
      /\ Len(next.fields) = Len(fields)
      /\ next \in Parsed
  <2>1. /\ ClassRead(config.classes[n], document.classes[n])
        /\ Len(config.classes[n].fields) = Len(document.classes[n].fields)
    BY <1>2 DEF ClassesInv
  <2>2. config.classes[n] \in Parsed
    BY <1>1, <1>2
  <2> QED
    BY <1>2, <2>1, <2>2
<1>4. n \in DOMAIN document.classes
  BY <1>0, <1>1, <1>2, Elements DEF Types
<1>5. DOMAIN next.fields = DOMAIN fields /\ DOMAIN fields = 1..Len(fields)
  BY <1>3, <1>4, Elements DEF Types, Parsed
<1> HIDE DEF n, fields
<1>6. ASSUME NEW i \in DOMAIN next.fields
      PROVE  /\ HasLevel(n, i) <=> level(i) # "NONE"
             /\ HasLevel(n, i) => Wanted(n, i) = level(i)
  <2>1. next.fields[i] = toAccessPrivacy(document.classes[n].fields[i].privacy)
    BY <1>3 DEF ClassRead
  <2>2. next.privacy = toAccessPrivacy(document.classes[n].privacy)
    BY <1>3 DEF ClassRead
  <2>3. config.privacy = toAccessPrivacy(document.privacy)
    BY <1>0 DEF RootRead
  <2> QED
    BY <2>1, <2>2, <2>3, Resolved DEF level
<1>7. CASE \E i \in DOMAIN next.fields : level(i) = "NONE"
  <2>1. \E j \in DOMAIN document.classes[n].fields : ~HasLevel(n, j)
    BY <1>5, <1>6, <1>7 DEF fields
  <2>2. Throw
    BY <1>7 DEF ComposeClass
  <2> QED
    BY <1>0, <1>4, <2>1, <2>2, ThrowStep DEF Running
<1>8. CASE ~(\E i \in DOMAIN next.fields : level(i) = "NONE")
  <2> DEFINE sections == [l \in Levels |->
                           InOrder({i \in DOMAIN next.fields : level(i) = l},
                                   Len(next.fields))]
             e == [serializable |-> resolveClassSerializable(next), fields |-> sections]
  <2>1. composed' = Append(composed, e) /\ UNCHANGED <<config, c, pc>>
    BY <1>8 DEF ComposeClass
  <2>2. e.fields = sections
    OBVIOUS
  <2> HIDE DEF e
  <2>3. composed \in Seq(ToSet(composed) \union {e})
    BY <1>1
  <2>4. /\ composed' \in Seq(ToSet(composed) \union {e})
        /\ Len(composed') = Len(composed) + 1
        /\ DOMAIN composed' = 1..(Len(composed) + 1)
        /\ \A k \in 1..Len(composed) : composed'[k] = composed[k]
        /\ composed'[Len(composed) + 1] = e
    BY <2>1, <2>3, Appended
  <2>5. Types'
    <3>1. composed' \in Seq(ToSet(composed'))
      BY <2>4, OverItself
    <3> QED
      BY <1>0, <2>1, <3>1 DEF Types
  <2>6. RootInv'
    BY <1>0, <2>1 DEF RootInv, RootRead
  <2>7. ClassesInv'
    BY <1>0, <2>1 DEF ClassesInv
  <2>8. \A l \in Levels :
          e.fields[l] = InOrder({j \in DOMAIN fields : HasLevel(n, j) /\ Wanted(n, j) = l},
                                Len(fields))
    <3> SUFFICES ASSUME NEW l \in Levels
                 PROVE  sections[l] =
                          InOrder({j \in DOMAIN fields : HasLevel(n, j) /\ Wanted(n, j) = l},
                                  Len(fields))
      BY <2>2
    <3>1. l # "NONE"
      BY DEF Levels
    <3>2. {i \in DOMAIN next.fields : level(i) = l} =
            {j \in DOMAIN fields : HasLevel(n, j) /\ Wanted(n, j) = l}
      BY <1>5, <1>6, <1>8
    <3>3. sections[l] = InOrder({i \in DOMAIN next.fields : level(i) = l},
                                Len(next.fields))
      OBVIOUS
    <3> QED
      BY <1>3, <3>2, <3>3
  <2>9. ASSUME NEW i \in DOMAIN composed' PROVE Placed(i)'
    <3>1. CASE i \in 1..Len(composed)
      <4>1. i \in DOMAIN composed /\ composed'[i] = composed[i]
        BY <1>1, <2>4, <3>1
      <4>2. Placed(i)
        BY <4>1 DEF ComposedInv
      <4> QED
        BY <1>0, <4>1, <4>2, StillPlaced
    <3>2. CASE i = n
      <4>1. composed'[i] = e
        BY <2>4, <3>2 DEF n
      <4>2. \A l \in Levels :
              {j \in DOMAIN document'.classes[i].fields :
                 HasLevel(i, j)' /\ Wanted(i, j)' = l} =
              {j \in DOMAIN fields : HasLevel(n, j) /\ Wanted(n, j) = l}
        BY <1>0, <3>2, StillWanted DEF fields
      <4>3. document'.classes[i].fields = fields
        BY <1>0, <3>2 DEF fields
      <4> QED
        BY <2>8, <4>1, <4>2, <4>3 DEF Placed
    <3> QED
      BY <1>1, <2>4, <3>1, <3>2 DEF n
  <2>10. ComposedInv'
    <3>1. Len(composed') <= Len(config'.classes)
      BY <1>0, <1>1, <2>1, <2>4
    <3> QED
      BY <1>0, <2>1, <2>9, <3>1 DEF ComposedInv
  <2>11. FailsForCause'
    BY <1>0, <2>1 DEF FailsForCause
  <2> QED
    BY <2>5, <2>6, <2>7, <2>10, <2>11
<1> QED
  BY <1>7, <1>8

LEMMA ExitStep ==
  ASSUME IInv, Exit
  PROVE  IInv'
<1> USE DEF IInv
<1>0. /\ pc = "compose" /\ pc' = "exit 0" /\ Len(composed) = Len(config.classes)
      /\ document' = document /\ config' = config /\ c' = c /\ composed' = composed
  BY DEF Exit
<1>1. Types'
  BY <1>0 DEF Types, Exits
<1>2. RootInv'
  BY <1>0 DEF RootInv, RootRead
<1>3. ClassesInv'
  BY <1>0 DEF ClassesInv
<1>4. ComposedInv'
  <2>1. ASSUME NEW i PROVE Placed(i)' <=> Placed(i)
    BY <1>0, StillPlaced
  <2> QED
    BY <1>0, <2>1 DEF ComposedInv, Types, Configurations
<1>5. FailsForCause'
  BY <1>0 DEF FailsForCause
<1> QED
  BY <1>1, <1>2, <1>3, <1>4, <1>5

LEMMA StutterStep ==
  ASSUME IInv, UNCHANGED vars
  PROVE  IInv'
<1>0. document' = document /\ config' = config /\ c' = c /\ pc' = pc
      /\ composed' = composed
  BY DEF vars
<1>1. Types' /\ RootInv' /\ ClassesInv'
  BY <1>0 DEF IInv, Types, RootInv, RootRead, ClassesInv, element
<1>2. ComposedInv'
  <2>1. ASSUME NEW i PROVE Placed(i)' <=> Placed(i)
    BY <1>0, StillPlaced
  <2> QED
    BY <1>0, <2>1 DEF IInv, ComposedInv
<1>3. FailsForCause'
  <2>1. WellFormed' <=> WellFormed
    BY <1>0 DEF WellFormed
  <2> QED
    BY <1>0, <2>1, StillWanted DEF IInv, FailsForCause
<1> QED
  BY <1>1, <1>2, <1>3 DEF IInv

-----------------------------------------------------------------------------
(* The inductive invariant of parsing and composing: the classes parsed are *)
(* the first of the document, read as they are there, all of them before    *)
(* the first is composed, and every class composed has its fields placed.   *)
THEOREM Invariant == Spec => []IInv
<1>1. ASSUME IInv, [Next]_vars PROVE IInv'
  BY <1>1, ParseRootStep, ParseClassStep, ParseFieldStep, EndClassStep, EndParseStep,
     GenerateAllStep, ComposeClassStep, ExitStep, StutterStep DEF Next
<1> QED
  BY <1>1, InitIInv, PTL DEF Spec

(* What the parser makes of any document is of the types its code declares, *)
(* and no class or field appears that the document does not have.           *)
THEOREM TypeCorrect == Spec => []TypeOK
<1>1. ASSUME IInv PROVE TypeOK
  <2>1. ToSet(config.languages) \subseteq {"CPP", "NONE"}
    BY <1>1 DEF IInv, Types, Configurations, ToSet
  <2>2. ASSUME NEW parsed \in ToSet(config.classes) \union {c}
        PROVE  /\ parsed.privacy \in Levels \union {"NONE"}
               /\ ToSet(parsed.fields) \subseteq Levels \union {"NONE"}
    <3>1. parsed \in Parsed
      BY <1>1 DEF IInv, Types, Configurations, ToSet
    <3> QED
      BY <3>1 DEF Parsed, Converted, ToSet
  <2> QED
    BY <1>1, <2>1, <2>2
       DEF IInv, Types, Configurations, Converted, TypeOK, ClassesInv, ComposedInv
<1> QED
  BY <1>1, Invariant, PTL

(* Every field of a composed class is in the section of the level that the  *)
(* field, its class or the root asks for, in that order, and in no other;   *)
(* and an invocation that exits with 0 has composed every class.            *)
THEOREM FieldsArePlaced == Spec => []EveryFieldPlaced
<1>1. ASSUME IInv PROVE EveryFieldPlaced
  <2>1. pc = "exit 0" => Len(config.classes) = Len(document.classes)
    BY <1>1 DEF IInv, ClassesInv
  <2> QED
    BY <1>1, <2>1 DEF IInv, ComposedInv, Placed, EveryFieldPlaced
<1> QED
  BY <1>1, Invariant, PTL

(* A mistake anywhere in a document, in its last class too, keeps every     *)
(* class from being composed: parseXML is through before generateAll runs.  *)
THEOREM NothingComposedFromMalformed == Spec => []NothingFromMalformed
<1>1. ASSUME IInv, composed # <<>> PROVE WellFormed
  <2>1. RootRead
    BY <1>1 DEF IInv, RootInv
  <2>2. Len(config.classes) = Len(document.classes)
    BY <1>1 DEF IInv, ClassesInv
  <2>3. ASSUME NEW class \in ToSet(document.classes)
        PROVE  /\ class.named /\ IsPrivacy(class.privacy)
               /\ \A field \in ToSet(class.fields) :
                    field.named /\ isDataType(field.type) /\ IsPrivacy(field.privacy)
    <3>1. PICK i \in DOMAIN document.classes : class = document.classes[i]
      BY DEF ToSet
    <3>2. i \in DOMAIN config.classes
      BY <1>1, <2>2, Elements DEF IInv, Types, Configurations
    <3>3. /\ ClassRead(config.classes[i], class)
          /\ Len(config.classes[i].fields) = Len(class.fields)
          /\ config.classes[i] \in Parsed
      BY <1>1, <3>1, <3>2 DEF IInv, ClassesInv, Types, Configurations
    <3>4. DOMAIN config.classes[i].fields = DOMAIN class.fields
      BY <1>1, <3>1, <3>3, Elements DEF IInv, Types, Parsed
    <3>5. ASSUME NEW field \in ToSet(class.fields)
          PROVE  field.named /\ isDataType(field.type) /\ IsPrivacy(field.privacy)
      <4>1. PICK j \in DOMAIN class.fields : field = class.fields[j]
        BY DEF ToSet
      <4> QED
        BY <3>3, <3>4, <4>1 DEF ClassRead
    <3> QED
      BY <3>3, <3>5 DEF ClassRead
  <2> QED
    BY <2>1, <2>3 DEF RootRead, WellFormed
<1> QED
  BY <1>1, Invariant, PTL DEF NothingFromMalformed

(* An invocation that exits with 1 does so for a mistake in the document,   *)
(* for want of a language, or for a field that no one gave a level.         *)
THEOREM FailuresHaveCauses == Spec => []FailsForCause
<1>1. IInv => FailsForCause
  BY DEF IInv
<1> QED
  BY <1>1, Invariant, PTL

=============================================================================
