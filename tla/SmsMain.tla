------------------------------ MODULE SmsMain ------------------------------
(***************************************************************************)
(* The driver: main() draws the initial files of every node, installs the  *)
(* applications, hands each its list, runs the simulation and counts the   *)
(* full files.  The run itself is any behaviour of Dissemination, which    *)
(* SmsEchoClient implements; what is checked here is that main starts it   *)
(* in one of its initial states and counts what it leaves.                 *)
(***************************************************************************)
EXTENDS Integers, Sequences, FiniteSets

CONSTANTS
  NumberOfMobileNodes,
  TotalFileCount,
  MaxFileCountPerNode,
  ChunksPerFile          \* of the files of getInitialFileList, which are alike

ASSUME NodesAssumption == NumberOfMobileNodes \in Nat \ {0}

\* With more files per node than files the search for a new one never ends.
ASSUME CountsAssumption ==
  /\ TotalFileCount \in Nat \ {0}
  /\ MaxFileCountPerNode \in 1 .. TotalFileCount

ASSUME ChunksAssumption == ChunksPerFile \in Nat \ {0}

VARIABLES
  pc,             \* draw, install, setup, run, count, over
  i,              \* the loop variable: the node whose turn it is
  numOfFiles,     \* of the list that is being drawn, or NoList
  list,           \* `files' of getInitialFileList
  nodeFileList,
  file_set,
  total_num_of_files_in_the_beginning,
  apps,           \* the nodes with an application
  held,           \* the chunks each node has
  known,          \* the holders each node knows
  records,        \* how many records of each file a node's vector has
  file_set_in_the_end,
  total_number_of_full_files

lists == <<numOfFiles, list, nodeFileList, file_set,
           total_num_of_files_in_the_beginning>>
results == <<file_set_in_the_end, total_number_of_full_files>>
nodes == <<held, known, records>>
vars == <<pc, i, lists, apps, nodes, results>>

NoList == -1

Node == 0 .. NumberOfMobileNodes - 1
File == 1 .. TotalFileCount
NumChunks == [f \in File |-> ChunksPerFile]

\* What the calls of getInitialFileList return, up to the order of each list.
Distributions ==
  [Node -> {files \in SUBSET File :
              files # {} /\ Cardinality(files) <= MaxFileCountPerNode}]

D == INSTANCE Dissemination

\* The ids in a list of files.
Listed(s) == {s[j] : j \in DOMAIN s}

\* What each variable holds.
TypeOK ==
  /\ pc \in {"draw", "install", "setup", "run", "count", "over"}
  /\ i \in 0 .. NumberOfMobileNodes
  /\ numOfFiles \in 1 .. MaxFileCountPerNode \cup {NoList}
  /\ list \in Seq(File)
  /\ nodeFileList \in Seq(Seq(File))
  /\ file_set \subseteq File
  /\ total_num_of_files_in_the_beginning \in Nat
  /\ apps \subseteq Node
  /\ held \in [Node -> [File -> SUBSET (0 .. ChunksPerFile - 1)]]
  /\ known \in [Node -> [File -> SUBSET Node]]
  /\ records \in [Node -> [File -> Nat]]
  /\ file_set_in_the_end \subseteq File
  /\ total_number_of_full_files \in Nat

Init ==
  /\ pc = "draw"
  /\ i = 0
  /\ numOfFiles = NoList
  /\ list = <<>>
  /\ nodeFileList = <<>>
  /\ file_set = {}
  /\ total_num_of_files_in_the_beginning = 0
  /\ apps = {}
  /\ held = [n \in Node |-> [f \in File |-> {}]]
  /\ known = [n \in Node |-> [f \in File |-> {}]]
  /\ records = [n \in Node |-> [f \in File |-> 0]]
  /\ file_set_in_the_end = {}
  /\ total_number_of_full_files = 0

-----------------------------------------------------------------------------
(* getInitialFileList, called for one node after the other.                *)

\* Mutants: the bounds of GetInteger are off by one.
FromZero == 0 .. MaxFileCountPerNode
OneMore == 1 .. MaxFileCountPerNode + 1

\* numOfFilesRand.GetInteger
NumOfFiles == 1 .. MaxFileCountPerNode

BeginList ==
  /\ pc = "draw"
  /\ i < NumberOfMobileNodes
  /\ numOfFiles = NoList
  /\ numOfFiles' \in NumOfFiles
  /\ list' = <<>>
  /\ UNCHANGED <<pc, i, nodeFileList, file_set,
                 total_num_of_files_in_the_beginning, apps, nodes, results>>

\* Mutant: std::find is left out.
IsAlwaysNew(id) == id \in File

IsNew(id) == id \notin Listed(list)

\* zipfRandom draws id.  An id that is in the list already changes nothing,
\* and the next one is drawn.
DrawFile(id) ==
  /\ Len(list) < numOfFiles
  /\ IsNew(id)
  /\ list' = Append(list, id)
  /\ UNCHANGED <<pc, i, numOfFiles, nodeFileList, file_set,
                 total_num_of_files_in_the_beginning, apps, nodes, results>>

\* main stores and counts the list it got.  The model then forgets the list.
StoreList ==
  /\ pc = "draw"
  /\ i < NumberOfMobileNodes
  /\ Len(list) = numOfFiles
  /\ nodeFileList' = Append(nodeFileList, list)
  /\ file_set' = file_set \cup Listed(list)
  /\ total_num_of_files_in_the_beginning' =
       total_num_of_files_in_the_beginning + Len(list)
  /\ numOfFiles' = NoList
  /\ list' = <<>>
  /\ i' = i + 1
  /\ UNCHANGED <<pc, apps, nodes, results>>

-----------------------------------------------------------------------------
(* The applications.                                                       *)

\* A loop over the nodes is done, the next part of main begins.
NextPart(from, to) ==
  /\ pc = from
  /\ i = NumberOfMobileNodes
  /\ pc' = to
  /\ i' = 0
  /\ UNCHANGED <<lists, apps, nodes, results>>

\* Install, of the container, for node i.
InstallPriv ==
  /\ pc = "install"
  /\ i < NumberOfMobileNodes
  /\ apps' = apps \cup {i}
  /\ i' = i + 1
  /\ UNCHANGED <<pc, lists, nodes, results>>

\* Mutant: every node gets the list of the first.
ListOfFirstNode(n) == nodeFileList[1]

ListOf(n) == nodeFileList[n + 1]

DrawnBy(n) == Listed(ListOf(n))

\* How often f is in the list of n.
Occurrences(n, f) == Cardinality({j \in DOMAIN ListOf(n) : ListOf(n)[j] = f})

\* SetFiles makes a full record of each entry of node i's list.
SetFiles ==
  /\ pc = "setup"
  /\ i < NumberOfMobileNodes
  /\ i \in apps
  /\ held' = [held EXCEPT ![i] = [f \in File |->
       IF f \in DrawnBy(i) THEN 0 .. ChunksPerFile - 1 ELSE {}]]
  /\ records' = [records EXCEPT ![i] = [f \in File |-> Occurrences(i, f)]]
  /\ i' = i + 1
  /\ UNCHANGED <<pc, lists, apps, known, results>>

-----------------------------------------------------------------------------
(* The simulation and its statistics.                                      *)

\* A node that learns of a file, from an advertisement or by a chunk, appends a
\* record unless getFileById finds one.
AppendRecords ==
  records' = [n \in Node |-> [f \in File |->
    IF records[n][f] = 0 /\ known'[n][f] # {} THEN 1 ELSE records[n][f]]]

\* Simulator::Run
Run ==
  /\ pc = "run"
  /\ D!Next
  /\ AppendRecords
  /\ UNCHANGED <<pc, i, lists, apps, results>>

\* The event of Simulator::Stop, after which Run returns.
Stop ==
  /\ pc = "run"
  /\ pc' = "count"
  /\ UNCHANGED <<i, lists, apps, nodes, results>>

\* The full records in node n's vector: a file that the vector has twice is
\* there twice.
FullRecords(n) ==
  UNION {{f} \X (1 .. records[n][f]) : f \in {g \in File : D!Complete(n, g)}}

\* One round of the loop over the nodes counts the full records of node i.
CountFullFiles ==
  /\ pc = "count"
  /\ i < NumberOfMobileNodes
  /\ total_number_of_full_files' =
       total_number_of_full_files + Cardinality(FullRecords(i))
  /\ file_set_in_the_end' =
       file_set_in_the_end \cup {record[1] : record \in FullRecords(i)}
  /\ i' = i + 1
  /\ UNCHANGED <<pc, lists, apps, nodes>>

\* main has returned.
Returned == pc = "over" /\ UNCHANGED vars

Next ==
  \/ BeginList
  \/ \E id \in File : DrawFile(id)
  \/ StoreList
  \/ NextPart("draw", "install")
  \/ InstallPriv
  \/ NextPart("install", "setup")
  \/ SetFiles
  \/ NextPart("setup", "run")
  \/ Run
  \/ Stop
  \/ CountFullFiles
  \/ NextPart("count", "over")
  \/ Returned

\* The generator keeps drawing ids the list does not hold yet, and simulated
\* time reaches the event of Simulator::Stop.
Fairness ==
  /\ WF_vars(BeginList) /\ WF_vars(\E id \in File : DrawFile(id)) /\ WF_vars(StoreList)
  /\ WF_vars(NextPart("draw", "install")) /\ WF_vars(NextPart("install", "setup"))
  /\ WF_vars(NextPart("setup", "run")) /\ WF_vars(NextPart("count", "over"))
  /\ WF_vars(InstallPriv) /\ WF_vars(SetFiles)
  /\ WF_vars(Stop) /\ WF_vars(CountFullFiles)

Spec == Init /\ [][Next]_vars /\ Fairness

-----------------------------------------------------------------------------
(* Properties.                                                             *)

\* "Unique files in the beginning" and "unique files in the end" of the
\* results: the exchange neither loses the last copy of a file nor counts one
\* nobody had.
UniqueFilesKept == pc = "over" => file_set_in_the_end = file_set

\* The totals of the results, which count records and not files: every copy of
\* the beginning is still full, and no vector has a file twice, neither from a
\* list nor from what was heard later, nor a full one that nobody had.
TotalsConsistent ==
  pc = "over" =>
    /\ total_num_of_files_in_the_beginning <= total_number_of_full_files
    /\ total_number_of_full_files <= NumberOfMobileNodes * Cardinality(file_set)

\* Drawing, installing and setting up lead to an initial state of the
\* exchange: every node has at least one file and all it drew, in full.
StartsTheExchange == [][pc = "setup" /\ pc' = "run" => D!Init]_vars

\* main returns: no list waits for ever for an id that it does not hold.
MainReturns == <>(pc = "over")
=============================================================================
