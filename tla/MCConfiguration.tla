-------------------------- MODULE MCConfiguration --------------------------
(* An instance of Configuration for TLC. *)
EXTENDS Configuration

CONSTANT absent

Field(named, type, privacy) == [named |-> named, type |-> type, privacy |-> privacy]
Class(named, privacy, fields) ==
  [named |-> named, privacy |-> privacy, fields |-> fields]

(* Fields as they should be, and fields with a mistake. *)
GoodFields ==
  {Field(TRUE, "i32", absent), Field(TRUE, "string", "private"),
   Field(TRUE, "object:Foo", "public")}
BadFields ==
  {Field(FALSE, "i32", "public"), Field(TRUE, absent, "public"),
   Field(TRUE, "object:", "public"), Field(TRUE, "i32", "secret")}

FieldLists == SeqOf(GoodFields, 2) \union {<<f>> : f \in BadFields}
SomeClasses ==
  {Class(TRUE, privacy, fields) : privacy \in {absent, "protected"},
                                  fields \in FieldLists}
  \union {Class(FALSE, absent, <<>>), Class(TRUE, "secret", <<>>)}

Document(root, languages, privacy, serializable, classes) ==
  [root |-> root, languages |-> languages, privacy |-> privacy,
   serializable |-> serializable, classes |-> classes]

OneClass == <<Class(TRUE, absent, <<Field(TRUE, "i32", "public")>>)>>

SomeDocuments ==
  {Document("CodeRoller", "CPP", privacy, "yes", classes) :
     privacy \in {absent, "private"}, classes \in SeqOf(SomeClasses, 2)}
  \union
  {Document(root, languages, privacy, serializable, OneClass) :
     root \in {absent, "CodeRoller", "Other"},
     languages \in {absent, "", "CPP", "C++", "Java"},
     privacy \in {absent, "", "public", "secret"},
     serializable \in {absent, "", "yes", "true", "no", "false"}}

=============================================================================
