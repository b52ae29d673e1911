--------------------------- MODULE SmsMainProofs ---------------------------
(***************************************************************************)
(* For every number of nodes and files: main starts the exchange in one of *)
(* its initial states, no file is missing from the results and no record   *)
(* counted twice.                                                          *)
(***************************************************************************)
EXTENDS SmsMain, FiniteSetTheorems, TLAPS

\* What getInitialFileList may return.
Share == {files \in SUBSET File :
            files # {} /\ Cardinality(files) <= MaxFileCountPerNode}

\* The list that is being drawn names no file twice.
DrawInv ==
  /\ pc \in {"draw", "install", "setup", "run", "count", "over"}
  /\ i \in 0 .. NumberOfMobileNodes
  /\ list \in Seq(File)
  /\ IsFiniteSet(Listed(list)) /\ Cardinality(Listed(list)) = Len(list)
  /\ numOfFiles \in 1 .. MaxFileCountPerNode \cup {NoList}

\* Each list that is stored is a share, and file_set has all of them.
ListsInv ==
  /\ nodeFileList \in Seq(Seq(File))
  /\ Len(nodeFileList) = IF pc = "draw" THEN i ELSE NumberOfMobileNodes
  /\ \A k \in DOMAIN nodeFileList : Listed(nodeFileList[k]) \in Share
  /\ file_set = UNION {Listed(nodeFileList[k]) : k \in DOMAIN nodeFileList}

\* The nodes below m have what they drew, and no other has anything.
SetUp(m) ==
  held = [n \in Node |-> [f \in File |->
            IF n < m /\ f \in DrawnBy(n) THEN 0 .. ChunksPerFile - 1 ELSE {}]]

NothingKnown == known = [n \in Node |-> [f \in File |-> {}]]

SetupInv ==
  /\ pc \in {"draw", "install"} => held = [n \in Node |-> [f \in File |-> {}]]
  /\ pc = "setup" => SetUp(i)
  /\ pc \in {"draw", "install", "setup"} => NothingKnown

\* Every node keeps what it drew, and has nothing that nobody drew.
RunInv ==
  pc \in {"run", "count", "over"} =>
    /\ held \in [Node -> [File -> SUBSET (0 .. ChunksPerFile - 1)]]
    /\ \A n \in Node : \A f \in DrawnBy(n) : held[n][f] = 0 .. ChunksPerFile - 1
    /\ \A n \in Node : \A f \in File : held[n][f] # {} => f \in file_set

NoDuplicates(s) == \A a, b \in DOMAIN s : s[a] = s[b] => a = b

\* No list names a file twice, so no vector has two records of a file; and what
\* a node has, it has in a record.
RecordsInv ==
  /\ NoDuplicates(list)
  /\ \A k \in DOMAIN nodeFileList : NoDuplicates(nodeFileList[k])
  /\ records \in [Node -> [File -> {0, 1}]]
  /\ \A n \in Node : \A f \in File : held[n][f] # {} => records[n][f] = 1

MainInv == DrawInv /\ ListsInv /\ SetupInv /\ RunInv

-----------------------------------------------------------------------------
(* Facts about lists.                                                      *)

LEMMA AppendExtends ==
  ASSUME NEW S, NEW s \in Seq(S), NEW x \in S
  PROVE  /\ Append(s, x) \in Seq(S)
         /\ Len(Append(s, x)) = Len(s) + 1
         /\ DOMAIN Append(s, x) = DOMAIN s \cup {Len(s) + 1}
         /\ \A k \in DOMAIN s : Append(s, x)[k] = s[k]
         /\ Append(s, x)[Len(s) + 1] = x
OBVIOUS

LEMMA ListedAppend ==
  ASSUME NEW S, NEW s \in Seq(S), NEW x \in S
  PROVE  Listed(Append(s, x)) = Listed(s) \cup {x}
<1>1. /\ DOMAIN Append(s, x) = DOMAIN s \cup {Len(s) + 1}
      /\ \A k \in DOMAIN s : Append(s, x)[k] = s[k]
      /\ Append(s, x)[Len(s) + 1] = x
  BY AppendExtends
<1> QED BY <1>1 DEF Listed

LEMMA ListedIsSubset ==
  ASSUME NEW S, NEW s \in Seq(S)
  PROVE  Listed(s) \subseteq S
<1>1. \A k \in DOMAIN s : s[k] \in S
  OBVIOUS
<1> QED BY <1>1 DEF Listed

\* Once all lists are stored, node n's is there.
LEMMA EveryNodeHasAList ==
  ASSUME DrawInv, ListsInv, pc # "draw"
  PROVE  /\ \A n \in Node : n + 1 \in DOMAIN nodeFileList
         /\ \A k \in DOMAIN nodeFileList : k - 1 \in Node /\ (k - 1) + 1 = k
         /\ \A n \in Node : DrawnBy(n) \in Share
         /\ file_set = UNION {DrawnBy(n) : n \in Node}
<1>1. DOMAIN nodeFileList = 1 .. NumberOfMobileNodes
  BY DEF ListsInv
<1>2. /\ \A n \in Node : n + 1 \in DOMAIN nodeFileList
      /\ \A k \in DOMAIN nodeFileList : k - 1 \in Node /\ (k - 1) + 1 = k
  BY <1>1, NodesAssumption DEF Node
<1>3. \A n \in Node : DrawnBy(n) \in Share
  BY <1>2 DEF ListsInv, DrawnBy, ListOf
<1>4. file_set = UNION {DrawnBy(n) : n \in Node}
  BY <1>2 DEF ListsInv, DrawnBy, ListOf
<1> QED BY <1>2, <1>3, <1>4

-----------------------------------------------------------------------------
(* The invariant.                                                          *)

LEMMA InitMainInv == Init => MainInv
<1> SUFFICES ASSUME Init PROVE MainInv
  OBVIOUS
<1>1. Listed(<<>>) = {} /\ <<>> \in Seq(File) /\ <<>> \in Seq(Seq(File))
  BY DEF Listed
<1>2. DrawInv
  <2>1. /\ pc = "draw" /\ i = 0 /\ numOfFiles = NoList
        /\ list \in Seq(File) /\ Listed(list) = {} /\ Len(list) = 0
    BY <1>1 DEF Init
  <2>2. IsFiniteSet(Listed(list)) /\ Cardinality(Listed(list)) = Len(list)
    BY <2>1, FS_EmptySet
  <2> QED BY <2>1, <2>2, NodesAssumption DEF DrawInv
<1>3. ListsInv
  BY <1>1 DEF Init, ListsInv
<1>4. SetupInv /\ RunInv
  BY DEF Init, SetupInv, NothingKnown, RunInv
<1> QED BY <1>2, <1>3, <1>4 DEF MainInv

LEMMA ListsStay ==
  ASSUME ListsInv, UNCHANGED <<nodeFileList, file_set>>,
         \/ pc = "draw" /\ pc' = "draw" /\ i' = i
         \/ pc = "draw" /\ pc' # "draw" /\ i = NumberOfMobileNodes
         \/ pc # "draw" /\ pc' # "draw"
  PROVE  ListsInv'
<1>1. Len(nodeFileList') = IF pc' = "draw" THEN i' ELSE NumberOfMobileNodes
  BY DEF ListsInv
<1>2. /\ nodeFileList' \in Seq(Seq(File))
      /\ \A k \in DOMAIN nodeFileList' : Listed(nodeFileList'[k]) \in Share
      /\ file_set' = UNION {Listed(nodeFileList'[k]) : k \in DOMAIN nodeFileList'}
  BY DEF ListsInv
<1> QED BY <1>1, <1>2 DEF ListsInv, Share, Listed

LEMMA OthersKeepTheRest ==
  ASSUME ListsInv, SetupInv, RunInv,
         UNCHANGED <<pc, i, nodeFileList, file_set, held, known>>
  PROVE  ListsInv' /\ SetupInv' /\ RunInv'
<1>1. ListsInv'
  <2>1. pc = "draw" \/ pc # "draw"
    OBVIOUS
  <2> QED BY <2>1, ListsStay
<1>2. SetupInv'
  BY DEF SetupInv, SetUp, NothingKnown, DrawnBy, ListOf
<1>3. RunInv'
  BY DEF RunInv, DrawnBy, ListOf
<1> QED BY <1>1, <1>2, <1>3

LEMMA DrawFileKeeps ==
  ASSUME MainInv, NEW id \in File, DrawFile(id)
  PROVE  MainInv'
<1>1. /\ list' = Append(list, id) /\ id \notin Listed(list)
      /\ UNCHANGED <<pc, i, numOfFiles, nodeFileList, file_set, held, known>>
  BY DEF DrawFile, IsNew, nodes
<1>2. list \in Seq(File) /\ IsFiniteSet(Listed(list))
      /\ Cardinality(Listed(list)) = Len(list)
  BY DEF MainInv, DrawInv
<1>3. list' \in Seq(File) /\ Len(list') = Len(list) + 1
  BY <1>1, <1>2, AppendExtends
<1>4. Listed(list') = Listed(list) \cup {id}
  BY <1>1, <1>2, ListedAppend
<1>5. IsFiniteSet(Listed(list')) /\ Cardinality(Listed(list')) = Len(list')
  BY <1>1, <1>2, <1>3, <1>4, FS_AddElement
<1>6. DrawInv'
  BY <1>1, <1>3, <1>5 DEF MainInv, DrawInv, Listed
<1>7. ListsInv' /\ SetupInv' /\ RunInv'
  BY <1>1, OthersKeepTheRest DEF MainInv
<1> QED BY <1>6, <1>7 DEF MainInv

LEMMA StoreListKeeps ==
  ASSUME MainInv, StoreList
  PROVE  MainInv'
<1>1. /\ pc = "draw" /\ i < NumberOfMobileNodes /\ Len(list) = numOfFiles
      /\ nodeFileList' = Append(nodeFileList, list)
      /\ file_set' = file_set \cup Listed(list)
      /\ numOfFiles' = NoList /\ list' = <<>> /\ i' = i + 1
      /\ UNCHANGED <<pc, held, known>>
  BY DEF StoreList, nodes
<1>2. /\ i \in 0 .. NumberOfMobileNodes /\ list \in Seq(File)
      /\ IsFiniteSet(Listed(list)) /\ Cardinality(Listed(list)) = Len(list)
      /\ numOfFiles \in 1 .. MaxFileCountPerNode \cup {NoList}
  BY DEF MainInv, DrawInv
<1>3. DrawInv'
  <2>1. list' \in Seq(File) /\ Listed(list') = {} /\ Len(list') = 0
    BY <1>1 DEF Listed
  <2>2. i' \in 0 .. NumberOfMobileNodes
    BY <1>1, <1>2, NodesAssumption
  <2> QED BY <1>1, <2>1, <2>2, FS_EmptySet DEF DrawInv, Listed, MainInv
<1>4. Listed(list) \in Share
  <2>1. numOfFiles \in 1 .. MaxFileCountPerNode
    <3>1. Len(list) \in Nat
      BY <1>2
    <3> QED BY <1>1, <1>2, <3>1 DEF NoList
  <2>2. Listed(list) # {}
    BY <1>1, <1>2, <2>1, FS_EmptySet
  <2>3. Cardinality(Listed(list)) <= MaxFileCountPerNode
    BY <1>1, <1>2, <2>1, CountsAssumption
  <2> QED BY <1>2, <2>2, <2>3, ListedIsSubset DEF Share
<1>5. ListsInv'
  <2>1. /\ nodeFileList \in Seq(Seq(File)) /\ Len(nodeFileList) = i
        /\ \A k \in DOMAIN nodeFileList : Listed(nodeFileList[k]) \in Share
        /\ file_set = UNION {Listed(nodeFileList[k]) : k \in DOMAIN nodeFileList}
    BY <1>1 DEF MainInv, ListsInv
  <2>2. /\ nodeFileList' \in Seq(Seq(File))
        /\ Len(nodeFileList') = i'
        /\ DOMAIN nodeFileList' = DOMAIN nodeFileList \cup {i + 1}
        /\ \A k \in DOMAIN nodeFileList : nodeFileList'[k] = nodeFileList[k]
        /\ nodeFileList'[i + 1] = list
    BY <1>1, <1>2, <2>1, AppendExtends
  <2>3. \A k \in DOMAIN nodeFileList' : Listed(nodeFileList'[k]) \in Share
    BY <1>4, <2>1, <2>2
  <2>4. file_set' = UNION {Listed(nodeFileList'[k]) : k \in DOMAIN nodeFileList'}
    BY <1>1, <2>1, <2>2
  <2> QED BY <1>1, <2>2, <2>3, <2>4 DEF ListsInv, Listed, Share
<1>6. SetupInv' /\ RunInv'
  BY <1>1 DEF MainInv, SetupInv, NothingKnown, RunInv
<1> QED BY <1>3, <1>5, <1>6 DEF MainInv

LEMMA SetFilesKeeps ==
  ASSUME MainInv, SetFiles
  PROVE  MainInv'
<1>1. /\ pc = "setup" /\ i < NumberOfMobileNodes /\ i' = i + 1
      /\ held' = [held EXCEPT ![i] = [f \in File |->
           IF f \in DrawnBy(i) THEN 0 .. ChunksPerFile - 1 ELSE {}]]
      /\ UNCHANGED <<pc, list, numOfFiles, nodeFileList, file_set, known>>
  BY DEF SetFiles, lists
<1>2. i \in 0 .. NumberOfMobileNodes
  BY DEF MainInv, DrawInv
<1>3. i' \in 0 .. NumberOfMobileNodes /\ i \in Node
  BY <1>1, <1>2, NodesAssumption DEF Node
<1>4. DrawInv'
  BY <1>1, <1>3 DEF MainInv, DrawInv, Listed
<1>5. ListsInv'
  BY <1>1, ListsStay DEF MainInv
<1>6. SetUp(i)'
  <2>1. held = [n \in Node |-> [f \in File |->
                  IF n < i /\ f \in DrawnBy(n) THEN 0 .. ChunksPerFile - 1 ELSE {}]]
    BY <1>1 DEF MainInv, SetupInv, SetUp
  <2>2. \A n \in Node : n < i + 1 <=> (n < i \/ n = i)
    BY <1>2 DEF Node
  <2>3. held' = [n \in Node |-> [f \in File |->
                   IF n < i + 1 /\ f \in DrawnBy(n) THEN 0 .. ChunksPerFile - 1 ELSE {}]]
    <3>1. held' = [n \in Node |-> IF n = i
             THEN [f \in File |-> IF f \in DrawnBy(i) THEN 0 .. ChunksPerFile - 1 ELSE {}]
             ELSE held[n]]
      BY <1>1, <2>1
    <3>2. ASSUME NEW n \in Node
          PROVE  held'[n] = [f \in File |->
                   IF n < i + 1 /\ f \in DrawnBy(n) THEN 0 .. ChunksPerFile - 1 ELSE {}]
      <4>1. CASE n = i
        BY <2>2, <3>1, <4>1
      <4>2. CASE n # i
        BY <2>1, <2>2, <3>1, <4>2
      <4> QED BY <4>1, <4>2
    <3> QED BY <3>1, <3>2
  <2> QED BY <1>1, <2>3 DEF SetUp, DrawnBy, ListOf
<1>7. SetupInv' /\ RunInv'
  BY <1>1, <1>6 DEF MainInv, SetupInv, NothingKnown, RunInv
<1> QED BY <1>4, <1>5, <1>7 DEF MainInv

\* At the end of the set-up every node has its list, in full.
LEMMA AllSetUp ==
  ASSUME DrawInv, ListsInv, SetUp(NumberOfMobileNodes), pc # "draw"
  PROVE  held = [n \in Node |-> [f \in File |->
                   IF f \in DrawnBy(n) THEN 0 .. ChunksPerFile - 1 ELSE {}]]
<1>1. \A n \in Node : n < NumberOfMobileNodes
  BY NodesAssumption DEF Node
<1> QED BY <1>1 DEF SetUp

LEMMA NextPartKeeps ==
  ASSUME MainInv,
         NextPart("draw", "install") \/ NextPart("install", "setup")
           \/ NextPart("setup", "run") \/ NextPart("count", "over")
  PROVE  MainInv'
<1>1. /\ i = NumberOfMobileNodes /\ i' = 0
      /\ \/ pc = "draw" /\ pc' = "install"
         \/ pc = "install" /\ pc' = "setup"
         \/ pc = "setup" /\ pc' = "run"
         \/ pc = "count" /\ pc' = "over"
      /\ UNCHANGED <<list, numOfFiles, nodeFileList, file_set, held, known>>
  BY DEF NextPart, lists, nodes
<1>2. DrawInv'
  BY <1>1, NodesAssumption DEF MainInv, DrawInv, Listed
<1>3. ListsInv'
  BY <1>1, ListsStay DEF MainInv
<1>4. SetupInv'
  <2>1. CASE pc = "draw" /\ pc' = "install"
    BY <1>1, <2>1 DEF MainInv, SetupInv, NothingKnown
  <2>2. CASE pc = "install" /\ pc' = "setup"
    <3>1. \A n \in Node : ~(n < 0)
      BY DEF Node
    <3>2. held = [n \in Node |-> [f \in File |-> {}]]
      BY <2>2 DEF MainInv, SetupInv
    <3>3. SetUp(i)'
      BY <1>1, <3>1, <3>2 DEF SetUp
    <3> QED BY <1>1, <2>2, <3>3 DEF MainInv, SetupInv, NothingKnown
  <2>3. CASE pc = "setup" /\ pc' = "run"
    BY <2>3 DEF SetupInv
  <2>4. CASE pc = "count" /\ pc' = "over"
    BY <2>4 DEF SetupInv
  <2> QED BY <1>1, <2>1, <2>2, <2>3, <2>4
<1>5. RunInv'
  <2>1. CASE pc \in {"draw", "install"}
    BY <1>1, <2>1 DEF RunInv
  <2>3. CASE pc = "count"
    BY <1>1, <2>3 DEF MainInv, RunInv, DrawnBy, ListOf
  <2>2. CASE pc = "setup"
    <3>1. held = [n \in Node |-> [f \in File |->
                   IF f \in DrawnBy(n) THEN 0 .. ChunksPerFile - 1 ELSE {}]]
      BY <1>1, <2>2, AllSetUp DEF MainInv, SetupInv
    <3>2. /\ \A n \in Node : DrawnBy(n) \subseteq File
          /\ file_set = UNION {DrawnBy(n) : n \in Node}
      BY <2>2, EveryNodeHasAList DEF MainInv, Share
    <3>3. held \in [Node -> [File -> SUBSET (0 .. ChunksPerFile - 1)]]
      BY <3>1
    <3>4. \A n \in Node : \A f \in DrawnBy(n) : held[n][f] = 0 .. ChunksPerFile - 1
      BY <3>1, <3>2
    <3>5. \A n \in Node : \A f \in File : held[n][f] # {} => f \in file_set
      BY <3>1, <3>2
    <3> QED BY <1>1, <3>3, <3>4, <3>5 DEF RunInv, DrawnBy, ListOf
  <2> QED BY <1>1, <2>1, <2>2, <2>3
<1> QED BY <1>2, <1>3, <1>4, <1>5 DEF MainInv

LEMMA RunKeeps ==
  ASSUME MainInv, Run
  PROVE  MainInv'
<1>1. /\ pc = "run" /\ UNCHANGED <<pc, i, list, numOfFiles, nodeFileList, file_set>>
  BY DEF Run, lists
<1>2. DrawInv' /\ ListsInv'
  BY <1>1, ListsStay DEF MainInv, DrawInv, Listed
<1>3. SetupInv'
  BY <1>1 DEF SetupInv
<1>4. /\ held \in [Node -> [File -> SUBSET (0 .. ChunksPerFile - 1)]]
      /\ \A n \in Node : \A f \in DrawnBy(n) : held[n][f] = 0 .. ChunksPerFile - 1
      /\ \A n \in Node : \A f \in File : held[n][f] # {} => f \in file_set
  BY <1>1 DEF MainInv, RunInv
<1>5. \A n \in Node : DrawnBy(n) \subseteq File
  BY <1>1, EveryNodeHasAList DEF MainInv, Share
<1>6. \A f \in File : D!AllChunks(f) = 0 .. ChunksPerFile - 1
  BY DEF D!AllChunks, NumChunks
<1>7. ASSUME held' = held
      PROVE  RunInv'
  BY <1>1, <1>4, <1>7 DEF RunInv, DrawnBy, ListOf
<1>8. ASSUME NEW n \in Node, NEW m \in Node, NEW f \in File,
             NEW c \in D!AllChunks(f), D!Obtain(n, m, f, c)
      PROVE  RunInv'
  <2>1. held[m][f] = 0 .. ChunksPerFile - 1
    BY <1>6, <1>8 DEF D!Obtain, D!Complete
  <2>2. c \in 0 .. ChunksPerFile - 1
    BY <1>6
  <2>3. held' = [held EXCEPT ![n][f] = @ \cup {c}]
    BY <1>8 DEF D!Obtain
  <2>4. held' \in [Node -> [File -> SUBSET (0 .. ChunksPerFile - 1)]]
    BY <1>4, <2>2, <2>3
  <2>5. \A k \in Node : \A g \in File :
          held'[k][g] = IF k = n /\ g = f THEN held[k][g] \cup {c} ELSE held[k][g]
    BY <1>4, <2>3
  <2>6. \A k \in Node : \A g \in DrawnBy(k) : held'[k][g] = 0 .. ChunksPerFile - 1
    <3> SUFFICES ASSUME NEW k \in Node, NEW g \in DrawnBy(k)
                 PROVE  held'[k][g] = 0 .. ChunksPerFile - 1
      OBVIOUS
    <3>1. held[k][g] = 0 .. ChunksPerFile - 1 /\ g \in File
      BY <1>4, <1>5
    <3>2. (0 .. ChunksPerFile - 1) \cup {c} = 0 .. ChunksPerFile - 1
      BY <2>2
    <3> QED BY <2>5, <3>1, <3>2
  <2>7. f \in file_set
    BY <1>4, <2>1, <2>2
  <2>8. \A k \in Node : \A g \in File : held'[k][g] # {} => g \in file_set
    BY <1>4, <2>5, <2>7
  <2> QED BY <1>1, <2>4, <2>6, <2>8 DEF RunInv, DrawnBy, ListOf
<1>9. RunInv'
  <2>1. D!Next
    BY DEF Run
  <2>2. CASE \E n \in Node : \E m \in Node \ {n} : \E F \in SUBSET File : D!Learn(n, m, F)
    BY <1>7, <2>2 DEF D!Learn
  <2>3. CASE \E n \in Node : \E m \in Node \ {n} : \E f \in File :
               \E c \in D!AllChunks(f) : D!Obtain(n, m, f, c)
    BY <1>8, <2>3
  <2> QED BY <2>1, <2>2, <2>3 DEF D!Next
<1> QED BY <1>2, <1>3, <1>9 DEF MainInv

LEMMA StopOrCountKeeps ==
  ASSUME MainInv, Stop \/ CountFullFiles
  PROVE  MainInv'
<1>1. /\ \/ pc = "run" /\ pc' = "count" /\ i' = i
         \/ pc = "count" /\ pc' = pc /\ i < NumberOfMobileNodes /\ i' = i + 1
      /\ UNCHANGED <<list, numOfFiles, nodeFileList, file_set, held>>
  BY DEF Stop, CountFullFiles, lists, nodes
<1>2. i' \in 0 .. NumberOfMobileNodes
  BY <1>1, NodesAssumption DEF MainInv, DrawInv
<1>3. DrawInv' /\ ListsInv' /\ SetupInv'
  BY <1>1, <1>2, ListsStay DEF MainInv, DrawInv, SetupInv, Listed
<1>4. RunInv'
  BY <1>1 DEF MainInv, RunInv, DrawnBy, ListOf
<1> QED BY <1>3, <1>4 DEF MainInv

LEMMA MainInvIsInductive == MainInv /\ [Next]_vars => MainInv'
<1> SUFFICES ASSUME MainInv, [Next]_vars PROVE MainInv'
  OBVIOUS
<1>1. CASE BeginList
  <2>1. /\ numOfFiles' \in 1 .. MaxFileCountPerNode /\ list' = <<>>
        /\ UNCHANGED <<pc, i, nodeFileList, file_set, held, known>>
    BY <1>1 DEF BeginList, NumOfFiles, nodes
  <2>2. list' \in Seq(File) /\ Listed(list') = {} /\ Len(list') = 0
    BY <2>1 DEF Listed
  <2>3. DrawInv'
    BY <2>1, <2>2, FS_EmptySet DEF MainInv, DrawInv, Listed
  <2> QED BY <2>1, <2>3, OthersKeepTheRest DEF MainInv
<1>2. CASE InstallPriv
  <2>1. /\ pc = "install" /\ i < NumberOfMobileNodes /\ i' = i + 1
        /\ UNCHANGED <<pc, list, numOfFiles, nodeFileList, file_set, held, known>>
    BY <1>2 DEF InstallPriv, lists, nodes
  <2>2. i' \in 0 .. NumberOfMobileNodes
    BY <2>1, NodesAssumption DEF MainInv, DrawInv
  <2>3. DrawInv' /\ ListsInv'
    BY <2>1, <2>2, ListsStay DEF MainInv, DrawInv, Listed
  <2>4. SetupInv' /\ RunInv'
    BY <2>1 DEF MainInv, SetupInv, NothingKnown, RunInv
  <2> QED BY <2>3, <2>4 DEF MainInv
<1>3. CASE Returned \/ UNCHANGED vars
  <2>1. UNCHANGED <<pc, i, list, numOfFiles, nodeFileList, file_set, held, known>>
    BY <1>3 DEF Returned, vars, lists, nodes
  <2>2. DrawInv'
    BY <2>1 DEF MainInv, DrawInv, Listed
  <2> QED BY <2>1, <2>2, OthersKeepTheRest DEF MainInv
<1> QED BY <1>1, <1>2, <1>3, DrawFileKeeps, StoreListKeeps, SetFilesKeeps,
           NextPartKeeps, RunKeeps, StopOrCountKeeps DEF Next

LEMMA MainInvHolds == Spec => []MainInv
<1>1. Init => MainInv
  BY InitMainInv
<1>2. MainInv /\ [Next]_vars => MainInv'
  BY MainInvIsInductive
<1> QED BY <1>1, <1>2, PTL DEF Spec

\* Whatever was drawn, main starts Dissemination, and so what SmsEchoClient
\* implements, in one of its initial states (sms-main.cc:38-77).
THEOREM MainStartsTheExchange == Spec => StartsTheExchange
<1>1. MainInv /\ [Next]_vars => [pc = "setup" /\ pc' = "run" => D!Init]_vars
  <2> SUFFICES ASSUME MainInv, Next, pc = "setup", pc' = "run"
               PROVE  D!Init
    OBVIOUS
  <2>1. i = NumberOfMobileNodes
    BY DEF Next, BeginList, DrawFile, StoreList, NextPart, InstallPriv, SetFiles,
           Run, Stop, CountFullFiles, Returned, vars
  <2>2. held = [n \in Node |-> [f \in File |->
                 IF f \in DrawnBy(n) THEN 0 .. ChunksPerFile - 1 ELSE {}]]
    BY <2>1, AllSetUp DEF MainInv, SetupInv
  <2> DEFINE initial == [n \in Node |-> DrawnBy(n)]
  <2>3. initial \in Distributions
    BY EveryNodeHasAList DEF MainInv, Distributions, Share
  <2>4. held = [n \in Node |-> [f \in File |->
                 IF f \in initial[n] THEN D!AllChunks(f) ELSE {}]]
    BY <2>2 DEF D!AllChunks, NumChunks
  <2>5. known = [n \in Node |-> [f \in File |-> {}]]
    BY DEF MainInv, SetupInv, NothingKnown
  <2> HIDE DEF initial
  <2> QED BY <2>3, <2>4, <2>5 DEF D!Init
<1> QED BY <1>1, MainInvHolds, PTL DEF Spec, StartsTheExchange

-----------------------------------------------------------------------------
(* What the applications hold is of its type.                              *)

RestTyped ==
  /\ apps \subseteq Node
  /\ held \in [Node -> [File -> SUBSET (0 .. ChunksPerFile - 1)]]
  /\ known \in [Node -> [File -> SUBSET Node]]

LEMMA RunTyped ==
  ASSUME RestTyped, Run
  PROVE  RestTyped'
<1>1. UNCHANGED apps /\ D!Next
  BY DEF Run
<1>2. CASE \E n \in Node : \E m \in Node \ {n} : \E F \in SUBSET File : D!Learn(n, m, F)
  <2>1. PICK n \in Node, m \in Node, F \in SUBSET File : D!Learn(n, m, F)
    BY <1>2
  <2>2. /\ known' = [known EXCEPT ![n] = [f \in File |->
               IF f \in F THEN known[n][f] \cup {m} ELSE known[n][f]]]
        /\ held' = held
    BY <2>1 DEF D!Learn
  <2>3. known' \in [Node -> [File -> SUBSET Node]]
    BY <2>2 DEF RestTyped
  <2> QED BY <1>1, <2>2, <2>3 DEF RestTyped
<1>3. CASE \E n \in Node : \E m \in Node \ {n} : \E f \in File :
             \E c \in D!AllChunks(f) : D!Obtain(n, m, f, c)
  <2>0. PICK n \in Node, m \in Node, f \in File :
          \E c \in D!AllChunks(f) : D!Obtain(n, m, f, c)
    BY <1>3
  <2>1. PICK c \in D!AllChunks(f) : D!Obtain(n, m, f, c)
    BY <2>0
  <2>2. /\ c \in 0 .. ChunksPerFile - 1
        /\ held' = [held EXCEPT ![n][f] = @ \cup {c}]
        /\ known' = [known EXCEPT ![n][f] = @ \cup {m}]
    BY <2>1 DEF D!Obtain, D!AllChunks, NumChunks
  <2>3. held' \in [Node -> [File -> SUBSET (0 .. ChunksPerFile - 1)]]
    BY <2>2 DEF RestTyped
  <2>4. known' \in [Node -> [File -> SUBSET Node]]
    BY <2>2 DEF RestTyped
  <2> QED BY <1>1, <2>3, <2>4 DEF RestTyped
<1> QED BY <1>1, <1>2, <1>3 DEF D!Next

LEMMA RestTypedHolds == Spec => []RestTyped
<1>1. Init => RestTyped
  BY DEF Init, RestTyped
<1>2. MainInv /\ RestTyped /\ [Next]_vars => RestTyped'
  <2> SUFFICES ASSUME MainInv, RestTyped, [Next]_vars PROVE RestTyped'
    OBVIOUS
  <2>1. CASE UNCHANGED <<apps, held, known>>
    BY <2>1 DEF RestTyped
  <2>2. CASE InstallPriv
    <3>1. i \in Node
      BY <2>2, NodesAssumption DEF MainInv, DrawInv, InstallPriv, Node
    <3> QED BY <2>2, <3>1 DEF InstallPriv, nodes, RestTyped
  <2>3. CASE SetFiles
    <3>1. held' \in [Node -> [File -> SUBSET (0 .. ChunksPerFile - 1)]]
      BY <2>3 DEF SetFiles, RestTyped
    <3> QED BY <2>3, <3>1 DEF SetFiles, RestTyped
  <2>4. \/ UNCHANGED <<apps, held, known>>
        \/ InstallPriv \/ SetFiles \/ Run
    BY DEF Next, BeginList, DrawFile, StoreList, NextPart, Stop, CountFullFiles,
           Returned, vars, nodes
  <2> QED BY <2>1, <2>2, <2>3, <2>4, RunTyped
<1> QED BY <1>1, <1>2, MainInvHolds, PTL DEF Spec

-----------------------------------------------------------------------------
(* One record of a file per vector.                                        *)

LEMMA AppendNewKeepsDistinct ==
  ASSUME NEW s \in Seq(File), NoDuplicates(s), NEW id \in File, id \notin Listed(s)
  PROVE  NoDuplicates(Append(s, id))
<1>1. /\ DOMAIN Append(s, id) = DOMAIN s \cup {Len(s) + 1}
      /\ \A k \in DOMAIN s : Append(s, id)[k] = s[k]
      /\ Append(s, id)[Len(s) + 1] = id
  BY AppendExtends
<1>2. \A k \in DOMAIN s : s[k] # id
  BY DEF Listed
<1> QED BY <1>1, <1>2 DEF NoDuplicates

LEMMA OccurrencesAreCounted ==
  ASSUME NEW s \in Seq(File), NoDuplicates(s), NEW f \in File
  PROVE  Cardinality({j \in DOMAIN s : s[j] = f}) = IF f \in Listed(s) THEN 1 ELSE 0
<1>1. CASE f \in Listed(s)
  <2>1. PICK a \in DOMAIN s : s[a] = f
    BY <1>1 DEF Listed
  <2>2. {j \in DOMAIN s : s[j] = f} = {a}
    BY <2>1 DEF NoDuplicates
  <2>3. Cardinality({a}) = 1
    BY FS_Singleton
  <2> QED BY <1>1, <2>2, <2>3
<1>2. CASE f \notin Listed(s)
  <2>1. {j \in DOMAIN s : s[j] = f} = {}
    BY <1>2 DEF Listed
  <2> QED BY <1>2, <2>1, FS_EmptySet
<1> QED BY <1>1, <1>2

LEMMA SetFilesRecords ==
  ASSUME MainInv, RestTyped, RecordsInv, SetFiles
  PROVE  RecordsInv'
<1>1. /\ pc = "setup" /\ i < NumberOfMobileNodes
      /\ UNCHANGED <<list, nodeFileList>>
      /\ held' = [held EXCEPT ![i] = [f \in File |->
           IF f \in DrawnBy(i) THEN 0 .. ChunksPerFile - 1 ELSE {}]]
      /\ records' = [records EXCEPT ![i] = [f \in File |-> Occurrences(i, f)]]
  BY DEF SetFiles, lists
<1>2. i \in Node
  BY <1>1, NodesAssumption DEF MainInv, DrawInv, Node
<1>3. ListOf(i) \in Seq(File) /\ NoDuplicates(ListOf(i))
  <2>1. i + 1 \in DOMAIN nodeFileList /\ nodeFileList \in Seq(Seq(File))
    BY <1>1, <1>2, EveryNodeHasAList DEF MainInv, ListsInv
  <2> QED BY <2>1 DEF ListOf, RecordsInv
<1>4. \A f \in File : Occurrences(i, f) = IF f \in DrawnBy(i) THEN 1 ELSE 0
  BY <1>3, OccurrencesAreCounted DEF Occurrences, DrawnBy
<1>5. records' \in [Node -> [File -> {0, 1}]]
  BY <1>1, <1>4 DEF RecordsInv
<1>6. \A n \in Node : \A f \in File : held'[n][f] # {} => records'[n][f] = 1
  <2> SUFFICES ASSUME NEW n \in Node, NEW f \in File, held'[n][f] # {}
               PROVE  records'[n][f] = 1
    OBVIOUS
  <2>1. CASE n = i
    BY <1>1, <1>2, <1>4, <2>1 DEF RestTyped, RecordsInv
  <2>2. CASE n # i
    BY <1>1, <1>2, <2>2 DEF RestTyped, RecordsInv
  <2> QED BY <2>1, <2>2
<1> QED BY <1>1, <1>5, <1>6 DEF RecordsInv, NoDuplicates

LEMMA RunRecords ==
  ASSUME MainInv, RestTyped, RecordsInv, Run
  PROVE  RecordsInv'
<1>1. /\ UNCHANGED <<list, nodeFileList>> /\ D!Next
      /\ records' = [n \in Node |-> [f \in File |->
           IF records[n][f] = 0 /\ known'[n][f] # {} THEN 1 ELSE records[n][f]]]
  BY DEF Run, AppendRecords, lists
<1>2. records' \in [Node -> [File -> {0, 1}]]
  BY <1>1 DEF RecordsInv
<1>3. ASSUME NEW n \in Node, NEW f \in File, held'[n][f] # {}
      PROVE  held[n][f] # {} \/ known'[n][f] # {}
  <2>1. CASE held' = held
    BY <1>3, <2>1
  <2>2. CASE \E k \in Node, m \in Node, g \in File :
               /\ held' = [held EXCEPT ![k][g] = held'[k][g]]
               /\ known' = [known EXCEPT ![k][g] = @ \cup {m}]
    <3>1. PICK k \in Node, m \in Node, g \in File :
            /\ held' = [held EXCEPT ![k][g] = held'[k][g]]
            /\ known' = [known EXCEPT ![k][g] = @ \cup {m}]
      BY <2>2
    <3>2. CASE n = k /\ f = g
      <4>1. known'[n][f] = known[n][f] \cup {m}
        BY <3>1, <3>2 DEF RestTyped
      <4> QED BY <4>1
    <3>3. CASE ~(n = k /\ f = g)
      <4>1. held'[n][f] = held[n][f]
        BY <3>1, <3>3 DEF RestTyped
      <4> QED BY <1>3, <4>1
    <3> QED BY <3>2, <3>3
  <2>3. \/ held' = held
        \/ \E k \in Node, m \in Node, g \in File :
             /\ held' = [held EXCEPT ![k][g] = held'[k][g]]
             /\ known' = [known EXCEPT ![k][g] = @ \cup {m}]
    <3>1. CASE \E k \in Node : \E m \in Node \ {k} : \E F \in SUBSET File :
                 D!Learn(k, m, F)
      BY <3>1 DEF D!Learn
    <3>2. CASE \E k \in Node : \E m \in Node \ {k} : \E g \in File :
                 \E c \in D!AllChunks(g) : D!Obtain(k, m, g, c)
      <4>1. PICK k \in Node, m \in Node, g \in File :
              \E c \in D!AllChunks(g) : D!Obtain(k, m, g, c)
        BY <3>2
      <4>2. PICK c \in D!AllChunks(g) : D!Obtain(k, m, g, c)
        BY <4>1
      <4>3. /\ held' = [held EXCEPT ![k][g] = @ \cup {c}]
            /\ known' = [known EXCEPT ![k][g] = @ \cup {m}]
        BY <4>2 DEF D!Obtain
      <4>4. held' = [held EXCEPT ![k][g] = held'[k][g]]
        BY <4>3 DEF RestTyped
      <4> QED BY <4>3, <4>4
    <3> QED BY <1>1, <3>1, <3>2 DEF D!Next
  <2> QED BY <2>1, <2>2, <2>3
<1>4. \A n \in Node : \A f \in File : held'[n][f] # {} => records'[n][f] = 1
  BY <1>1, <1>3 DEF RecordsInv
<1> QED BY <1>1, <1>2, <1>4 DEF RecordsInv, NoDuplicates

LEMMA RecordsInvHolds == Spec => []RecordsInv
<1>1. Init => RecordsInv
  BY DEF Init, RecordsInv, NoDuplicates
<1>2. MainInv /\ RestTyped /\ RecordsInv /\ [Next]_vars => RecordsInv'
  <2> SUFFICES ASSUME MainInv, RestTyped, RecordsInv, [Next]_vars
               PROVE  RecordsInv'
    OBVIOUS
  <2>1. CASE BeginList
    <3>1. /\ list' = <<>> /\ UNCHANGED <<nodeFileList, held, records>>
      BY <2>1 DEF BeginList, nodes
    <3> QED BY <3>1 DEF RecordsInv, NoDuplicates
  <2>2. ASSUME NEW id \in File, DrawFile(id)
        PROVE  RecordsInv'
    <3>1. /\ list' = Append(list, id) /\ id \notin Listed(list)
          /\ UNCHANGED <<nodeFileList, held, records>>
      BY <2>2 DEF DrawFile, IsNew, nodes
    <3>2. NoDuplicates(list)'
      BY <3>1, AppendNewKeepsDistinct DEF MainInv, DrawInv, RecordsInv, NoDuplicates
    <3> QED BY <3>1, <3>2 DEF RecordsInv, NoDuplicates
  <2>3. CASE StoreList
    <3>1. /\ nodeFileList' = Append(nodeFileList, list) /\ list' = <<>>
          /\ UNCHANGED <<held, records>>
      BY <2>3 DEF StoreList, nodes
    <3>2. list \in Seq(File) /\ nodeFileList \in Seq(Seq(File))
      BY DEF MainInv, DrawInv, ListsInv
    <3>3. \A k \in DOMAIN nodeFileList' :
            \/ nodeFileList'[k] = list
            \/ k \in DOMAIN nodeFileList /\ nodeFileList'[k] = nodeFileList[k]
      BY <3>1, <3>2, AppendExtends
    <3>4. NoDuplicates(list)'
      BY <3>1 DEF NoDuplicates
    <3>5. \A k \in DOMAIN nodeFileList' : NoDuplicates(nodeFileList'[k])
      BY <3>3 DEF RecordsInv
    <3> QED BY <3>1, <3>4, <3>5 DEF RecordsInv, NoDuplicates
  <2>4. CASE UNCHANGED <<list, nodeFileList, held, records>>
    BY <2>4 DEF RecordsInv, NoDuplicates
  <2>5. \/ BeginList \/ StoreList \/ SetFiles \/ Run
        \/ \E id \in File : DrawFile(id)
        \/ UNCHANGED <<list, nodeFileList, held, records>>
    BY DEF Next, NextPart, InstallPriv, Stop, CountFullFiles, Returned, vars, lists,
           nodes
  <2> QED BY <2>1, <2>2, <2>3, <2>4, <2>5, SetFilesRecords, RunRecords
<1> QED BY <1>1, <1>2, MainInvHolds, RestTypedHolds, PTL DEF Spec

-----------------------------------------------------------------------------
(* The count at the end.                                                   *)

FullFilesOf(n) == {f \in File : held[n][f] = 0 .. ChunksPerFile - 1}

\* The files the nodes below k have in full, as pairs of a node and a file.
FullPairs(k) == {copy \in Node \X File : copy[1] < k /\ copy[2] \in FullFilesOf(copy[1])}

\* The nodes below this one are counted.
CountedSoFar ==
  IF pc = "count" THEN i ELSE IF pc = "over" THEN NumberOfMobileNodes ELSE 0

\* main has counted each full file of each node it has been at, once.
CountInv ==
  /\ pc = "run" => i = 0
  /\ file_set_in_the_end = {copy[2] : copy \in FullPairs(CountedSoFar)}
  /\ total_number_of_full_files = Cardinality(FullPairs(CountedSoFar))

LEMMA NodesAndFilesAreFinite ==
  /\ IsFiniteSet(Node) /\ Cardinality(Node) = NumberOfMobileNodes
  /\ IsFiniteSet(File)
  /\ IsFiniteSet(Node \X File)
<1>1. IsFiniteSet(Node) /\ Cardinality(Node) = NumberOfMobileNodes
  <2>1. 0 \in Int /\ NumberOfMobileNodes - 1 \in Int
    BY NodesAssumption
  <2> QED BY <2>1, FS_Interval, NodesAssumption DEF Node
<1>2. IsFiniteSet(File)
  <2>1. 1 \in Int /\ TotalFileCount \in Int
    BY CountsAssumption
  <2> QED BY <2>1, FS_Interval DEF File
<1> QED BY <1>1, <1>2, FS_Product

LEMMA FullPairsAreFinite ==
  ASSUME NEW k
  PROVE  IsFiniteSet(FullPairs(k)) /\ Cardinality(FullPairs(k)) \in Nat
BY NodesAndFilesAreFinite, FS_Subset, FS_CardinalityType DEF FullPairs

LEMMA FirstOfPairs ==
  ASSUME NEW S, NEW x
  PROVE  {pair[1] : pair \in S \X {x}} = S
<1>1. \A y \in S : <<y, x>> \in S \X {x} /\ <<y, x>>[1] = y
  OBVIOUS
<1>2. \A pair \in S \X {x} : pair[1] \in S
  OBVIOUS
<1>3. \A y \in S : \E pair \in S \X {x} : y = pair[1]
  BY <1>1
<1> QED BY <1>2, <1>3

LEMMA SecondOfPairs ==
  ASSUME NEW S, NEW x
  PROVE  {pair[2] : pair \in {x} \X S} = S
<1>1. \A y \in S : <<x, y>> \in {x} \X S /\ <<x, y>>[2] = y
  OBVIOUS
<1>2. \A pair \in {x} \X S : pair[2] \in S
  OBVIOUS
<1>3. \A y \in S : \E pair \in {x} \X S : y = pair[2]
  BY <1>1
<1> QED BY <1>2, <1>3

\* There is one record of each file node i has in full, and main adds them to
\* those it has counted.
LEMMA CountFullFilesCounts ==
  ASSUME MainInv, RecordsInv, CountInv, CountFullFiles
  PROVE  CountInv'
<1> DEFINE New == {i} \X FullFilesOf(i)
<1>1. /\ pc = "count" /\ pc' = "count" /\ i < NumberOfMobileNodes /\ i' = i + 1
      /\ held' = held
      /\ total_number_of_full_files' =
           total_number_of_full_files + Cardinality(FullRecords(i))
      /\ file_set_in_the_end' =
           file_set_in_the_end \cup {record[1] : record \in FullRecords(i)}
  BY DEF CountFullFiles, nodes
<1>2. i \in Node
  BY <1>1, NodesAssumption DEF MainInv, DrawInv, Node
<1>3. FullRecords(i) = FullFilesOf(i) \X {1}
  <2>1. 0 \in 0 .. ChunksPerFile - 1
    BY ChunksAssumption
  <2>2. \A f \in FullFilesOf(i) : f \in File /\ 1 .. records[i][f] = {1}
    <3> SUFFICES ASSUME NEW f \in FullFilesOf(i)
                 PROVE  f \in File /\ 1 .. records[i][f] = {1}
      OBVIOUS
    <3>1. f \in File /\ held[i][f] # {}
      BY <2>1 DEF FullFilesOf
    <3>2. records[i][f] = 1
      BY <1>2, <3>1 DEF RecordsInv
    <3>3. 1 .. 1 = {1}
      OBVIOUS
    <3> QED BY <3>1, <3>2, <3>3
  <2>3. {g \in File : D!Complete(i, g)} = FullFilesOf(i)
    BY DEF FullFilesOf, D!Complete, D!AllChunks, NumChunks
  <2>4. FullRecords(i) = UNION {{f} \X (1 .. records[i][f]) : f \in FullFilesOf(i)}
    BY <2>3 DEF FullRecords
  <2>5. FullRecords(i) = UNION {{f} \X {1} : f \in FullFilesOf(i)}
    BY <2>2, <2>4
  <2> QED BY <2>5
<1>4. IsFiniteSet(FullFilesOf(i)) /\ Cardinality(FullFilesOf(i)) \in Nat
  BY NodesAndFilesAreFinite, FS_Subset, FS_CardinalityType DEF FullFilesOf
<1>5. /\ Cardinality(FullRecords(i)) = Cardinality(FullFilesOf(i))
      /\ IsFiniteSet(New) /\ Cardinality(New) = Cardinality(FullFilesOf(i))
  <2>1. /\ IsFiniteSet({i}) /\ Cardinality({i}) = 1
        /\ IsFiniteSet({1}) /\ Cardinality({1}) = 1
    BY FS_Singleton
  <2>2. /\ Cardinality(FullFilesOf(i) \X {1}) = Cardinality(FullFilesOf(i)) * 1
        /\ IsFiniteSet(New) /\ Cardinality(New) = 1 * Cardinality(FullFilesOf(i))
    BY <1>4, <2>1, FS_Product
  <2> QED BY <1>3, <1>4, <2>2
<1>6. {record[1] : record \in FullRecords(i)} = FullFilesOf(i)
  BY <1>3, FirstOfPairs
<1>7. FullPairs(i + 1) = FullPairs(i) \cup New
  <2>1. \A n \in Node : n < i + 1 <=> n < i \/ n = i
    BY <1>2 DEF Node
  <2>2. \A n \in Node, f \in File :
          <<n, f>> \in FullPairs(i + 1) <=> <<n, f>> \in FullPairs(i) \cup New
    BY <2>1 DEF FullPairs, FullFilesOf
  <2>3. FullPairs(i + 1) \subseteq Node \X File /\ FullPairs(i) \cup New \subseteq Node \X File
    BY <1>2 DEF FullPairs, FullFilesOf
  <2> HIDE DEF New
  <2> QED BY <2>2, <2>3
<1>8. FullPairs(i) \cap New = {}
  BY <1>2 DEF FullPairs, Node
<1>9. {copy[2] : copy \in FullPairs(i + 1)} =
        {copy[2] : copy \in FullPairs(i)} \cup FullFilesOf(i)
  <2>1. {copy[2] : copy \in New} = FullFilesOf(i)
    BY SecondOfPairs
  <2> HIDE DEF New
  <2> QED BY <1>7, <2>1
<1>10. Cardinality(FullPairs(i + 1)) =
         Cardinality(FullPairs(i)) + Cardinality(FullFilesOf(i))
  <2> HIDE DEF New
  <2>1. Cardinality(FullPairs(i) \cup New) =
          Cardinality(FullPairs(i)) + Cardinality(New) - Cardinality(FullPairs(i) \cap New)
    BY <1>5, FullPairsAreFinite, FS_Union
  <2>2. Cardinality(FullPairs(i) \cap New) = 0
    BY <1>8, FS_EmptySet
  <2>3. Cardinality(FullPairs(i)) \in Nat
    BY FullPairsAreFinite
  <2>4. Cardinality(FullPairs(i) \cup New) =
          Cardinality(FullPairs(i)) + Cardinality(FullFilesOf(i))
    BY <1>4, <1>5, <2>1, <2>2, <2>3
  <2> QED BY <1>7, <2>4
<1>11. FullPairs(CountedSoFar)' = FullPairs(i + 1) /\ FullPairs(CountedSoFar) = FullPairs(i)
  BY <1>1 DEF FullPairs, FullFilesOf, CountedSoFar
<1> QED BY <1>1, <1>5, <1>6, <1>9, <1>10, <1>11 DEF CountInv

LEMMA NothingCountedYet == FullPairs(0) = {}
BY DEF FullPairs, Node

LEMMA CountInvHolds == Spec => []CountInv
<1>1. Init => CountInv
  <2> SUFFICES ASSUME Init PROVE CountInv
    OBVIOUS
  <2>1. CountedSoFar = 0
    BY DEF Init, CountedSoFar
  <2>2. FullPairs(CountedSoFar) = {}
    BY <2>1, NothingCountedYet
  <2> QED BY <2>2, FS_EmptySet DEF Init, CountInv
<1>2. MainInv /\ RecordsInv /\ CountInv /\ [Next]_vars => CountInv'
  <2> SUFFICES ASSUME MainInv, RecordsInv, CountInv, [Next]_vars PROVE CountInv'
    OBVIOUS
  <2>1. ASSUME UNCHANGED results, pc' = "run" => i' = 0,
               CountedSoFar = 0, CountedSoFar' = 0
        PROVE  CountInv'
    <3>1. FullPairs(CountedSoFar) = {} /\ FullPairs(CountedSoFar)' = {}
      BY <2>1, NothingCountedYet DEF FullPairs, Node
    <3> QED BY <2>1, <3>1 DEF CountInv, results
  <2>2. ASSUME UNCHANGED <<held, results>>, pc' = "run" => i' = 0,
               CountedSoFar' = CountedSoFar
        PROVE  CountInv'
    <3>1. FullPairs(CountedSoFar)' = FullPairs(CountedSoFar)
      BY <2>2 DEF FullPairs, FullFilesOf
    <3> QED BY <2>2, <3>1 DEF CountInv, results
  <2>3. CASE BeginList \/ StoreList \/ InstallPriv \/ SetFiles
               \/ \E id \in File : DrawFile(id)
    <3>1. /\ pc \in {"draw", "install", "setup", "run", "count", "over"}
          /\ UNCHANGED <<pc, results>>
          /\ pc \in {"draw", "install", "setup"} \/ UNCHANGED <<i, held>>
      BY <2>3 DEF BeginList, StoreList, InstallPriv, SetFiles, DrawFile, nodes,
                  MainInv, DrawInv
    <3>2. CASE pc \in {"draw", "install", "setup"}
      BY <2>1, <3>1, <3>2 DEF CountedSoFar
    <3>3. CASE UNCHANGED <<i, held>>
      BY <2>2, <3>1, <3>3 DEF CountedSoFar, CountInv
    <3> QED BY <3>1, <3>2, <3>3
  <2>4. CASE \/ NextPart("draw", "install") \/ NextPart("install", "setup")
             \/ NextPart("setup", "run")
    BY <2>1, <2>4 DEF NextPart, CountedSoFar
  <2>5. CASE Run
    BY <2>1, <2>5 DEF Run, CountedSoFar, CountInv
  <2>6. CASE Stop
    BY <2>1, <2>6 DEF Stop, CountedSoFar, CountInv
  <2>7. CASE NextPart("count", "over")
    BY <2>2, <2>7 DEF NextPart, CountedSoFar, nodes
  <2>8. CASE Returned \/ UNCHANGED vars
    BY <2>2, <2>8 DEF Returned, CountedSoFar, CountInv, vars, nodes
  <2> QED BY <2>3, <2>4, <2>5, <2>6, <2>7, <2>8, CountFullFilesCounts DEF Next
<1> QED BY <1>1, <1>2, MainInvHolds, RecordsInvHolds, PTL DEF Spec

\* Among the files that are full at the end are all copies of the beginning,
\* and no file that was not drawn.
LEMMA WhatIsFullInTheEnd ==
  ASSUME MainInv, pc = "over"
  PROVE  /\ \A n \in Node : DrawnBy(n) \subseteq FullFilesOf(n)
         /\ \A n \in Node : FullFilesOf(n) \subseteq file_set
         /\ file_set = UNION {DrawnBy(n) : n \in Node}
         /\ file_set \subseteq File
<1>1. /\ \A n \in Node : \A f \in DrawnBy(n) : held[n][f] = 0 .. ChunksPerFile - 1
      /\ \A n \in Node : \A f \in File : held[n][f] # {} => f \in file_set
  BY DEF MainInv, RunInv
<1>2. /\ \A n \in Node : DrawnBy(n) \subseteq File
      /\ file_set = UNION {DrawnBy(n) : n \in Node}
  BY EveryNodeHasAList DEF MainInv, Share
<1>3. 0 \in 0 .. ChunksPerFile - 1
  BY ChunksAssumption
<1> QED BY <1>1, <1>2, <1>3 DEF FullFilesOf

\* The unique files main prints at the end are those it prints at the
\* beginning (sms-main.cc:38-54, 87-102): none is lost and none comes up.
THEOREM NoFileIsLost == Spec => []UniqueFilesKept
<1>1. MainInv /\ CountInv => UniqueFilesKept
  <2> SUFFICES ASSUME MainInv, CountInv, pc = "over"
               PROVE  file_set_in_the_end = file_set
    BY DEF UniqueFilesKept
  <2>1. file_set_in_the_end = {copy[2] : copy \in FullPairs(NumberOfMobileNodes)}
    BY DEF CountInv, CountedSoFar
  <2>2. \A n \in Node : n < NumberOfMobileNodes
    BY NodesAssumption DEF Node
  <2>3. \A n \in Node : \A f \in FullFilesOf(n) : <<n, f>> \in FullPairs(NumberOfMobileNodes)
    BY <2>2 DEF FullPairs, FullFilesOf
  <2>4. file_set \subseteq file_set_in_the_end
    <3> SUFFICES ASSUME NEW f \in file_set PROVE f \in file_set_in_the_end
      OBVIOUS
    <3>1. PICK n \in Node : f \in FullFilesOf(n)
      BY WhatIsFullInTheEnd
    <3>2. <<n, f>>[2] = f
      OBVIOUS
    <3> QED BY <2>1, <2>3, <3>1, <3>2
  <2>5. file_set_in_the_end \subseteq file_set
    BY <2>1, WhatIsFullInTheEnd DEF FullPairs
  <2> QED BY <2>4, <2>5
<1> QED BY <1>1, MainInvHolds, CountInvHolds, PTL

-----------------------------------------------------------------------------
(* The totals.                                                             *)

\* The copies of files in the lists that are stored, as pairs of a node and a
\* file: the total main prints at the beginning is their number.
Copies == {copy \in Node \X File : copy[1] < Len(nodeFileList) /\ copy[2] \in DrawnBy(copy[1])}

TotalInv == total_num_of_files_in_the_beginning = Cardinality(Copies)

LEMMA CopiesAreCounted == IsFiniteSet(Copies) /\ Cardinality(Copies) \in Nat
BY NodesAndFilesAreFinite, FS_Subset, FS_CardinalityType DEF Copies

\* One node's list adds as many copies as it is long.
LEMMA StoreListCounts ==
  ASSUME MainInv, TotalInv, StoreList
  PROVE  TotalInv'
<1>1. /\ pc = "draw" /\ pc' = "draw" /\ i < NumberOfMobileNodes
      /\ nodeFileList' = Append(nodeFileList, list)
      /\ total_num_of_files_in_the_beginning' =
           total_num_of_files_in_the_beginning + Len(list)
  BY DEF StoreList
<1>2. /\ i \in 0 .. NumberOfMobileNodes /\ list \in Seq(File)
      /\ IsFiniteSet(Listed(list)) /\ Cardinality(Listed(list)) = Len(list)
      /\ nodeFileList \in Seq(Seq(File)) /\ Len(nodeFileList) = i
  BY <1>1 DEF MainInv, DrawInv, ListsInv
<1>3. i \in Node /\ Listed(list) \subseteq File
  BY <1>1, <1>2, NodesAssumption, ListedIsSubset DEF Node
<1>4. /\ Len(nodeFileList') = i + 1
      /\ \A k \in 1 .. i : nodeFileList'[k] = nodeFileList[k]
      /\ nodeFileList'[i + 1] = list
  BY <1>1, <1>2, AppendExtends
<1> DEFINE New == {i} \X Listed(list)
<1>5. Copies' = Copies \cup New
  <2>1. ASSUME NEW n \in Node
        PROVE  /\ n < i => DrawnBy(n)' = DrawnBy(n)
               /\ n = i => DrawnBy(n)' = Listed(list)
               /\ n < i + 1 <=> n < i \/ n = i
    <3>1. n \in Nat /\ (n < i => n + 1 \in 1 .. i)
      BY <1>2 DEF Node
    <3>2. n < i => nodeFileList'[n + 1] = nodeFileList[n + 1]
      BY <1>4, <3>1
    <3>3. n = i => nodeFileList'[n + 1] = list
      BY <1>4
    <3>4. n < i + 1 <=> n < i \/ n = i
      BY <1>2, <3>1
    <3>5. DrawnBy(n)' = Listed(nodeFileList'[n + 1])
      BY DEF DrawnBy, ListOf, Listed
    <3> QED BY <3>2, <3>3, <3>4, <3>5 DEF DrawnBy, ListOf
  <2>2. ASSUME NEW n \in Node, NEW f \in File
        PROVE  <<n, f>> \in Copies' <=> <<n, f>> \in Copies \cup New
    BY <1>2, <1>4, <2>1 DEF Copies
  <2>3. Copies' \subseteq Node \X File /\ Copies \cup New \subseteq Node \X File
    BY <1>3 DEF Copies
  <2> HIDE DEF New
  <2> QED BY <2>2, <2>3
<1>6. Copies \cap New = {}
  BY <1>2 DEF Copies, Node
<1>7. IsFiniteSet(New) /\ Cardinality(New) = Len(list)
  <2>1. IsFiniteSet({i}) /\ Cardinality({i}) = 1
    BY FS_Singleton
  <2>2. IsFiniteSet(New) /\ Cardinality(New) = 1 * Len(list)
    BY <1>2, <2>1, FS_Product
  <2> QED BY <1>2, <2>2
<1>8. Cardinality(Copies') = Cardinality(Copies) + Len(list)
  <2>1. Cardinality(Copies \cup New) =
          Cardinality(Copies) + Cardinality(New) - Cardinality(Copies \cap New)
    BY <1>7, CopiesAreCounted, FS_Union
  <2>2. Cardinality(Copies \cap New) = 0
    BY <1>6, FS_EmptySet
  <2>3. Len(list) \in Nat /\ Cardinality(Copies) \in Nat
    BY <1>2, CopiesAreCounted
  <2> HIDE DEF New
  <2>4. Cardinality(Copies \cup New) = Cardinality(Copies) + Len(list)
    BY <1>7, <2>1, <2>2, <2>3
  <2> QED BY <1>5, <2>4
<1> QED BY <1>1, <1>8 DEF TotalInv

LEMMA TotalInvHolds == Spec => []TotalInv
<1>1. Init => TotalInv
  <2> SUFFICES ASSUME Init PROVE TotalInv
    OBVIOUS
  <2>1. Copies = {}
    BY DEF Init, Copies, Node
  <2> QED BY <2>1, FS_EmptySet DEF Init, TotalInv
<1>2. MainInv /\ TotalInv /\ [Next]_vars => TotalInv'
  <2> SUFFICES ASSUME MainInv, TotalInv, [Next]_vars PROVE TotalInv'
    OBVIOUS
  <2>1. CASE UNCHANGED <<nodeFileList, total_num_of_files_in_the_beginning>>
    <3>1. Copies' = Copies
      BY <2>1 DEF Copies, DrawnBy, ListOf, Listed
    <3> QED BY <2>1, <3>1 DEF TotalInv
  <2>2. StoreList \/ UNCHANGED <<nodeFileList, total_num_of_files_in_the_beginning>>
    BY DEF Next, BeginList, DrawFile, NextPart, InstallPriv, SetFiles, Run, Stop,
           CountFullFiles, Returned, vars, lists
  <2> QED BY <2>1, <2>2, StoreListCounts
<1> QED BY <1>1, <1>2, MainInvHolds, PTL DEF Spec

\* The totals main prints fit together (sms-main.cc:50-54, 87-102), which count
\* the entries of lists and vectors: every copy that was drawn is counted as full
\* at the end, and no node is credited with more than the files that were drawn,
\* for no list and so no vector has a file twice.
THEOREM TotalsFitTogether == Spec => []TotalsConsistent
<1>1. MainInv /\ CountInv /\ TotalInv => TotalsConsistent
  <2> SUFFICES ASSUME MainInv, CountInv, TotalInv, pc = "over"
               PROVE  /\ total_num_of_files_in_the_beginning <= total_number_of_full_files
                      /\ total_number_of_full_files <=
                           NumberOfMobileNodes * Cardinality(file_set)
    BY DEF TotalsConsistent
  <2> DEFINE Full == FullPairs(NumberOfMobileNodes)
  <2>1. total_number_of_full_files = Cardinality(Full)
    BY DEF CountInv, CountedSoFar
  <2>2. \A n \in Node : n < NumberOfMobileNodes
    BY NodesAssumption DEF Node
  <2>3. Copies \in SUBSET Full
    BY <2>2, WhatIsFullInTheEnd DEF Copies, FullPairs
  <2>4. Full \in SUBSET (Node \X file_set)
    BY WhatIsFullInTheEnd DEF FullPairs
  <2>5. IsFiniteSet(file_set)
    BY WhatIsFullInTheEnd, NodesAndFilesAreFinite, FS_Subset
  <2>6. /\ IsFiniteSet(Node \X file_set)
        /\ Cardinality(Node \X file_set) = NumberOfMobileNodes * Cardinality(file_set)
    BY <2>5, NodesAndFilesAreFinite, FS_Product
  <2> HIDE DEF Full
  <2>7. IsFiniteSet(Full) /\ Cardinality(Full) <= Cardinality(Node \X file_set)
    BY <2>4, <2>6, FS_Subset
  <2>8. Cardinality(Copies) <= Cardinality(Full)
    BY <2>3, <2>7, FS_Subset
  <2> QED BY <2>1, <2>6, <2>7, <2>8 DEF TotalInv
<1> QED BY <1>1, MainInvHolds, CountInvHolds, TotalInvHolds, PTL

-----------------------------------------------------------------------------
(* Types.                                                                  *)

\* Every variable of main keeps its type through drawing, set-up, run and count.
THEOREM TypeCorrect == Spec => []TypeOK
<1>1. MainInv /\ RestTyped /\ RecordsInv /\ CountInv /\ TotalInv => TypeOK
  <2> SUFFICES ASSUME MainInv, RestTyped, RecordsInv, CountInv, TotalInv
               PROVE  TypeOK
    OBVIOUS
  <2>1. total_num_of_files_in_the_beginning \in Nat
    BY CopiesAreCounted DEF TotalInv
  <2>2. file_set \subseteq File
    BY DEF MainInv, ListsInv, Share
  <2>3. total_number_of_full_files \in Nat
    BY FullPairsAreFinite DEF CountInv
  <2>4. file_set_in_the_end \subseteq File
    BY DEF CountInv, FullPairs
  <2>5. records \in [Node -> [File -> Nat]]
    BY DEF RecordsInv
  <2> QED BY <2>1, <2>2, <2>3, <2>4, <2>5
             DEF MainInv, DrawInv, ListsInv, RestTyped, TypeOK
<1> QED BY <1>1, MainInvHolds, RestTypedHolds, RecordsInvHolds, CountInvHolds,
           TotalInvHolds, PTL
=============================================================================
