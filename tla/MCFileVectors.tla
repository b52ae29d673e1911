--------------------------- MODULE MCFileVectors ---------------------------
(* Constant values with which TLC checks FileVectors.                      *)
EXTENDS FileVectors, TLC

CONSTANTS n1, n2, n3

ThreeNodes == {n1, n2, n3}

\* Files 1 and 2 of one chunk, file 3 of two.
ThreeSizes == <<1, 1, 2>>

\* n1 misses two files, n2 and n3 have all of them.
OneCollector ==
  {[n \in Node |-> IF n = n1 THEN <<1>> ELSE <<3, 1, 2>>]}

SymmetricNodes == Permutations({n2, n3})
=============================================================================
