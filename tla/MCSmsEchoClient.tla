-------------------------- MODULE MCSmsEchoClient --------------------------
(* Constant values with which TLC checks SmsEchoClient.                    *)
EXTENDS SmsEchoClient, TLC

CONSTANTS n1, n2, n3, f1, f2

TwoNodes == {n1, n2}
ThreeNodes == {n1, n2, n3}
TwoFiles == {f1, f2}

\* Every way to give each node a non-empty set of files.
AnyDistribution == [Node -> (SUBSET File) \ {{}}]

\* n1 alone has f1, everybody has f2.
OneSource == {[n \in Node |-> IF n = n1 THEN {f1, f2} ELSE {f2}]}

\* n2 and n3 start alike.
SymmetricNodes == Permutations({n2, n3})

TwoChunksEach == [f \in File |-> 2]
OneChunkEach == [f \in File |-> 1]
OneAndTwoChunks == [f \in File |-> IF f = f1 THEN 2 ELSE 1]
=============================================================================
