---------------------------- MODULE MCOutputDir ----------------------------
(* An instance of OutputDir for TLC. *)
EXTENDS OutputDir

CONSTANTS a, b, inc, h, slash

AllNames == {a, b, inc, h}
Top == <<>>
HeaderPath == <<inc, slash, h>>

(* Nodes on the two ways from the root that the invocations take.          *)
SomeTrees ==
  {t \in UNION {[nodes \union {<<>>} -> Kinds] :
                  nodes \in SUBSET {<<a>>, <<a, b>>, <<a, b, inc>>}
                        \union SUBSET {<<a>>, <<a, inc>>, <<a, inc, h>>}} :
     IsTree(t)}

(* The output directory on the command line: a or a/b, spelt in many ways,  *)
(* or the place of another invocation's header.                             *)
Args ==
  {<<a>>, <<a, slash>>, <<a, slash, b>>, <<a, slash, b, slash>>, <<slash, a>>,
   <<slash, a, slash, b, slash>>, <<a, slash, inc, slash, h, slash>>}

=============================================================================
