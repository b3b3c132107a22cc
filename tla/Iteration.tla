------------------------------ MODULE Iteration -----------------------------
(***************************************************************************)
(* The loops of the code as operators: over a sequence, in the order of    *)
(* its elements, and over a map, whose keys a range statement visits in    *)
(* any order.  They have the names and the meaning that they have in       *)
(* SequencesExt, and are written here over FiniteSetsExt because           *)
(* theorems are proved about the specifications that use them: a proof     *)
(* step carries every definition in its scope, and SequencesExt brings in  *)
(* many more, those of Bags included.                                      *)
(***************************************************************************)
EXTENDS Naturals, Sequences, FiniteSets, FiniteSetsExt

\* A loop over s that replaces its result, at first base, by Op of the result and the element.
FoldLeft(Op(_, _), base, s) ==
    MapThenFoldSet(LAMBDA x, y : Op(y, x), base, LAMBDA i : s[i], Max, DOMAIN s)

\* The orders in which a loop may visit the elements of a set; one of them.
SetToSeqs(S) == {o \in [1..Cardinality(S) -> S] : IsInjective(o)}
SetToSeq(S) == CHOOSE o \in SetToSeqs(S) : TRUE

\* A loop that appends each sequence of ss to its result.
FlattenSeq(ss) ==
    IF ss = <<>> THEN <<>>
    ELSE LET join[i \in 1..Len(ss)] == IF i = 1 THEN ss[i] ELSE join[i - 1] \o ss[i]
         IN  join[Len(ss)]
=============================================================================
