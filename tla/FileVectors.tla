---------------------------- MODULE FileVectors ----------------------------
(***************************************************************************)
(* The vectors behind the sets of SmsEchoClient.tla: the vector `files' of *)
(* every node with its records, their bitmaps and node lists, the fields   *)
(* of 8 and 16 bits in which an advertisement carries files, and the loops *)
(* of getFileToRequest.  Packets are heard as soon as they are sent: that  *)
(* they arrive late, or not at all, is the subject of SmsEchoClient.       *)
(***************************************************************************)
EXTENDS Integers, Sequences, FiniteSets, SequencesExt

CONSTANTS
  Node,          \* the addresses of the mobile nodes
  FileSize,      \* size in KB of each id of the catalogue
  InitialLists,  \* the results the calls of getInitialFileList may give
  FieldWidth,    \* 2^16: ids and sizes in an advertisement are uint16_t
  CountWidth     \* 2^8: the number of files in an advertisement is uint8_t

File == DOMAIN FileSize

\* "Only 16 bits for id and size in order that the packet doesn't overflow".
ASSUME FieldAssumption ==
  /\ File \subseteq 1 .. FieldWidth - 1
  /\ \A f \in File : FileSize[f] \in 1 .. FieldWidth - 1

ASSUME CountAssumption == IsFiniteSet(File) /\ Cardinality(File) < CountWidth

ASSUME WidthAssumption == FieldWidth \in Nat \ {0} /\ CountWidth \in Nat \ {0}

\* getInitialFileList draws every file at most once.
ASSUME ListsAssumption ==
  /\ InitialLists \subseteq [Node -> Seq(File)]
  /\ \A lists \in InitialLists : \A n \in Node : IsInjective(lists[n])

VARIABLES
  files,                   \* the vector of each node
  seen_nodes,              \* the list of nodes it heard an advertisement of
  maximum_full_files_seen

vars == <<files, seen_nodes, maximum_full_files_seen>>

-----------------------------------------------------------------------------
(* FileSMSChunks: the records.                                             *)

Larger(a, b) == IF a > b THEN a ELSE b

SizeInChunks(kb) == (1000 * kb + 1449) \div 1450

NewFile(id, size, full) ==
  [id |-> id, size |-> size,
   chunks |-> [i \in 1 .. SizeInChunks(size) |-> full],
   received |-> IF full THEN SizeInChunks(size) ELSE 0,
   holders |-> <<>>]

\* What getFileToRequest returns when there is nothing to request.
NoFile == NewFile(0, 0, TRUE)

IsFull(file) == file.received = SizeInChunks(file.size)

NumOfMissingChunks(file) == SizeInChunks(file.size) - file.received

\* add_node_to_seen_list of a file, and addNodeToSeenList of a node.
AddNode(list, n) == IF Contains(list, n) THEN list ELSE Append(list, n)

AddHolder(file, n) == [file EXCEPT !.holders = AddNode(@, n)]

AddChunk(file, c, n) ==
  [AddHolder(file, n) EXCEPT !.chunks[c + 1] = TRUE, !.received = @ + 1]

-----------------------------------------------------------------------------
(* The vector.                                                             *)

\* getFileById: the position of id, 0 if there is none.
GetFileById(v, id) == SelectInSeq(v, LAMBDA file : file.id = id)

\* The full records among the first k, in their order.
FullAmong(v) ==
  LET after[k \in 0 .. Len(v)] ==
        IF k = 0 THEN <<>>
        ELSE IF IsFull(v[k]) THEN Append(after[k - 1], v[k]) ELSE after[k - 1]
  IN  after

FullRecords(v) == FullAmong(v)[Len(v)]

NumOfFullFiles(v) == Len(FullRecords(v))

\* Mutant: the size is written before the id.
EncodeFilesSwapped(v) ==
  LET full == FullRecords(v)
  IN  [count |-> Len(full) % CountWidth,
       fields |-> [i \in DOMAIN full |-> [id |-> full[i].size % FieldWidth,
                                          size |-> full[i].id % FieldWidth]]]

EncodeFilesForAdv(v) ==
  LET full == FullRecords(v)
  IN  [count |-> Len(full) % CountWidth,
       fields |-> [i \in DOMAIN full |-> [id |-> full[i].id % FieldWidth,
                                          size |-> full[i].size % FieldWidth]]]

\* Mutant: already_known_file is never set.
AppendFile(v, s, field) ==
  Append(v, AddHolder(NewFile(field.id, field.size, FALSE), s))

\* One round of the loop of DecodeFilesForAdv.
DecodeFile(v, s, field) ==
  LET i == GetFileById(v, field.id)
  IN  IF i = 0
        THEN Append(v, AddHolder(NewFile(field.id, field.size, FALSE), s))
        ELSE [v EXCEPT ![i] = AddHolder(@, s)]

DecodeFilesForAdv(v, s, packet) ==
  LET after[k \in 0 .. packet.count] ==
        IF k = 0 THEN v ELSE DecodeFile(after[k - 1], s, packet.fields[k])
  IN  after[packet.count]

\* Mutant: a chunk of an unknown file only makes a record of the file.
AddNewFile(v, s, reply) ==
  LET i == GetFileById(v, reply.file)
  IN  IF i = 0
        THEN Append(v, AddHolder(NewFile(reply.file, reply.size, FALSE), s))
        ELSE IF ~v[i].chunks[reply.chunk + 1]
               THEN [v EXCEPT ![i] = AddChunk(@, reply.chunk, s)]
               ELSE v

AddNewChunk(v, s, reply) ==
  LET i == GetFileById(v, reply.file)
  IN  IF i = 0
        THEN Append(v, AddChunk(NewFile(reply.file, reply.size, FALSE),
                                reply.chunk, s))
        ELSE IF ~v[i].chunks[reply.chunk + 1]
               THEN [v EXCEPT ![i] = AddChunk(@, reply.chunk, s)]
               ELSE v

-----------------------------------------------------------------------------
(* getFileToRequest: a loop over the vector collects the unfinished files  *)
(* of s with the fewest missing chunks, a loop over these keeps the first  *)
(* one that is least popular.                                              *)

\* Mutant: the list is not cleared when a file misses fewer chunks.
CollectWithoutClear(best, file, s) ==
  IF IsFull(file) \/ ~Contains(file.holders, s)
    THEN best
    ELSE IF best = <<>> \/ NumOfMissingChunks(file) <= NumOfMissingChunks(Last(best))
           THEN Append(best, file)
           ELSE best

Collect(best, file, s) ==
  IF IsFull(file) \/ ~Contains(file.holders, s)
    THEN best
    ELSE IF best = <<>> \/ NumOfMissingChunks(file) < NumOfMissingChunks(Last(best))
           THEN <<file>>
           ELSE IF NumOfMissingChunks(file) = NumOfMissingChunks(Last(best))
                  THEN Append(best, file)
                  ELSE best

\* A popularity is a share of the nodes seen; INFINITY, the start of the
\* search, is above all of them if there is a node seen, and above none if not.
LessPopular(lowest, file, seen) ==
  IF seen # <<>> /\ (lowest = NoFile \/ Len(file.holders) < Len(lowest.holders))
    THEN file
    ELSE lowest

\* The two loops, after k rounds.
CollectedAfter(v, s) ==
  LET after[k \in 0 .. Len(v)] ==
        IF k = 0 THEN <<>> ELSE Collect(after[k - 1], v[k], s)
  IN  after

LowestAfter(best, seen) ==
  LET after[k \in 0 .. Len(best)] ==
        IF k = 0 THEN NoFile ELSE LessPopular(after[k - 1], best[k], seen)
  IN  after

GetFileToRequest(n, s) ==
  LET best == CollectedAfter(files[n], s)[Len(files[n])]
  IN  LowestAfter(best, seen_nodes[n])[Len(best)]

-----------------------------------------------------------------------------

\* SetFiles of every node.
Init ==
  /\ \E lists \in InitialLists :
       /\ files = [n \in Node |-> [i \in DOMAIN lists[n] |->
                     NewFile(lists[n][i], FileSize[lists[n][i]], TRUE)]]
       /\ maximum_full_files_seen = [n \in Node |-> Len(lists[n])]
  /\ seen_nodes = [n \in Node |-> <<>>]

\* Node s sends what it has in full, node n hears it.
HearAdvertisement(n, s) ==
  LET packet == EncodeFilesForAdv(files[s])
  IN  /\ files' = [files EXCEPT ![n] = DecodeFilesForAdv(@, s, packet)]
      /\ seen_nodes' = [seen_nodes EXCEPT ![n] = AddNode(@, s)]
      /\ maximum_full_files_seen' = [maximum_full_files_seen EXCEPT
           ![s] = Larger(@, NumOfFullFiles(files[s])),
           ![n] = Larger(@, packet.count)]

\* Node s answers n, or a node n overhears, with a chunk of a file it has.
HearReply(n, s) ==
  \E i \in DOMAIN files[s] : \E c \in 0 .. SizeInChunks(files[s][i].size) - 1 :
    /\ IsFull(files[s][i])
    /\ files' = [files EXCEPT ![n] = AddNewChunk(@, s,
         [file |-> files[s][i].id, size |-> files[s][i].size, chunk |-> c])]
    /\ maximum_full_files_seen' = [maximum_full_files_seen EXCEPT ![n] =
         IF files'[n] = files[n] THEN @ ELSE Larger(@, NumOfFullFiles(files'[n]))]
    /\ seen_nodes' = seen_nodes

Next ==
  \E n \in Node : \E s \in Node \ {n} : HearAdvertisement(n, s) \/ HearReply(n, s)

Spec == Init /\ [][Next]_vars

-----------------------------------------------------------------------------
(* The sets and functions of SmsEchoClient that the vectors stand for.     *)

Ids(v) == {v[i].id : i \in DOMAIN v}

\* The record of f; a file that is not known is like one of which there is
\* no chunk and that nobody is known to have.
Known(v, f) ==
  LET i == GetFileById(v, f)
  IN  IF i = 0 THEN NewFile(f, FileSize[f], FALSE) ELSE v[i]

ChunksOf(file) == {i - 1 : i \in {j \in DOMAIN file.chunks : file.chunks[j]}}

HoldersOf(file) == ToSet(file.holders)

E == INSTANCE SmsEchoClient WITH
  NumChunks <- [f \in File |-> SizeInChunks(FileSize[f])],
  Distributions <- {[n \in Node |-> ToSet(lists[n])] : lists \in InitialLists},
  files <- [n \in Node |-> Ids(files[n])],
  chunks <- [n \in Node |-> [f \in File |-> ChunksOf(Known(files[n], f))]],
  received <- [n \in Node |-> [f \in File |-> Known(files[n], f).received]],
  holders <- [n \in Node |-> [f \in File |-> HoldersOf(Known(files[n], f))]],
  seen_nodes <- [n \in Node |-> ToSet(seen_nodes[n])],
  \* Timers and the radio play no part in what is compared.
  Leftover <- {0}, Unreliable <- {}, Multiplier <- 50, MaxFrames <- 1,
  NoEvent <- "none", NoFrame <- "none",
  sendEvent <- {}, requestEvent <- {}, replyEvent <- {}, queue <- {},
  radio <- "none", aborted <- FALSE

\* A node has one record per file and lists a node once, although records and
\* list entries are made by advertisements and by replies in any order: all
\* searches stop at the first match, and popularities count the entries.
NothingIsListedTwice ==
  \A n \in Node :
    /\ Cardinality(Ids(files[n])) = Len(files[n])
    /\ IsInjective(seen_nodes[n])
    /\ \A i \in DOMAIN files[n] : IsInjective(files[n][i].holders)

\* Advertisements carry 16 bits of ids and sizes, replies 32: a record has the
\* size and the bitmap of its file whichever packet announced it.
RecordsFitTheirFile ==
  \A n \in Node : \A i \in DOMAIN files[n] :
    LET file == files[n][i]
    IN  /\ file.id \in File
        /\ file.size = FileSize[file.id]
        /\ DOMAIN file.chunks = 1 .. SizeInChunks(file.size)

\* The loops of getFileToRequest return one of the best files of a node that
\* was heard, and the empty file only if there is nothing to ask it for.
ChoiceIsAllowed ==
  \A n \in Node, s \in Node : Contains(seen_nodes[n], s) =>
    LET file == GetFileToRequest(n, s)
    IN  IF IsFull(file) THEN E!FileToRequest(n, s) = {}
                        ELSE file.id \in E!FileToRequest(n, s)

\* Vectors, bytes and loops change what a node knows exactly as the handlers of
\* SmsEchoClient change its sets, up to the boundary of the fields.
HandlersAgree ==
  [][vars' # vars =>
       \E n \in Node : \E s \in Node \ {n} :
         \/ /\ seen_nodes' = seen_nodes
            /\ \E f \in E!FullFiles(s) : \E c \in E!ChunkIds(f) :
                 E!AddNewChunk(n, f, c, s)
         \/ /\ Contains(seen_nodes'[n], s)
            /\ E!AddNodeToSeenList(n, s)
            /\ E!DecodeFilesForAdv(n, s, E!FullFiles(s))]_vars
=============================================================================
