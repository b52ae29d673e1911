--------------------------- MODULE Dissemination ---------------------------
(***************************************************************************)
(* What the file exchange promises, without packets, timers or radio.  A   *)
(* node learns who has a file only from a node that has all of it, and     *)
(* gains chunks one at a time, each from a node that has all of the file   *)
(* and that it then knows as a holder.  Nothing is ever lost.              *)
(***************************************************************************)
EXTENDS Integers

CONSTANTS Node, File, NumChunks, Distributions

VARIABLES
  held,     \* the chunks of each file each node has
  known     \* the nodes each node knows to have each file

vars == <<held, known>>

AllChunks(f) == 0 .. NumChunks[f] - 1

Complete(n, f) == held[n][f] = AllChunks(f)

Init ==
  /\ \E initial \in Distributions :
       held = [n \in Node |-> [f \in File |->
                 IF f \in initial[n] THEN AllChunks(f) ELSE {}]]
  /\ known = [n \in Node |-> [f \in File |-> {}]]

\* n learns that m has the files in F.
Learn(n, m, F) ==
  /\ \A f \in F : Complete(m, f)
  /\ known' = [known EXCEPT ![n] = [f \in File |->
       IF f \in F THEN @[f] \cup {m} ELSE @[f]]]
  /\ held' = held

\* n obtains chunk c of f from m.
Obtain(n, m, f, c) ==
  /\ Complete(m, f)
  /\ c \in AllChunks(f) \ held[n][f]
  /\ held' = [held EXCEPT ![n][f] = @ \cup {c}]
  /\ known' = [known EXCEPT ![n][f] = @ \cup {m}]

Next ==
  \E n \in Node : \E m \in Node \ {n} :
    \/ \E F \in SUBSET File : Learn(n, m, F)
    \/ \E f \in File : \E c \in AllChunks(f) : Obtain(n, m, f, c)

Spec == Init /\ [][Next]_vars
=============================================================================
