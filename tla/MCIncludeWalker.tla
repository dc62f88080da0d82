-------------------------- MODULE MCIncludeWalker --------------------------
(***************************************************************************)
(* IncludeWalker on all include graphs over four files, in which the main  *)
(* file and x include up to two files and the other two up to one.  x and  *)
(* libx have the same base name.  The depth limit of 10 becomes 3, so that *)
(* chains, cycles and diamonds of four files reach it.                     *)
(***************************************************************************)
EXTENDS IncludeWalker

MCFile == {"main", "x", "libx", "y"}
MCBase == [f \in MCFile |-> IF f = "libx" THEN "x" ELSE f]
MCBackend == {"a", "b", "c"}

UpToOne == {<<>>} \cup {<<f>> : f \in MCFile}
UpToTwo == UpToOne \cup {<<f, g>> : f \in MCFile, g \in MCFile}

MCDecl == [main |-> {"a"}, x |-> {}, libx |-> {"a", "b"}, y |-> {}]

MCPrograms ==
  {[incl |-> [main |-> m, x |-> x, libx |-> l, y |-> y], decl |-> MCDecl, broken |-> b] :
     m \in UpToTwo, x \in UpToTwo, l \in UpToOne, y \in UpToOne, b \in {{}, {"y"}}}

MCMockSets == {{"a"}, {"a", "b"}}
=============================================================================
