-------------------------- MODULE MCMakeDirectory --------------------------
(* An instance of MakeDirectory for TLC. *)
EXTENDS MakeDirectory

CONSTANTS a, b, slash

TwoNames == {a, b}
Top == <<>>

(* A first directory, and below it what there may be. *)
SomeTrees ==
  {t \in UNION {[nodes \union {<<>>} -> Kinds] :
                  nodes \in SUBSET {<<a>>, <<a, a>>, <<a, b>>}} : IsTree(t)}

(* Relative, absolute, with a trailing and with a doubled separator, with *)
(* both at once, and one that is its own parent.                          *)
SomePaths ==
  {<<a, slash, b>>, <<a, slash, a, slash>>,
   <<slash, a, slash, b, slash, slash, a>>, <<a, slash, b, slash, a, slash, b>>,
   <<a, slash, b, slash, slash>>, <<b>>}

(* What may be a file, one of them on the way of most paths above. *)
FilePaths == {<<a>>, <<slash, a, slash, b>>}

=============================================================================
