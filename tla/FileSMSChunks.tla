--------------------------- MODULE FileSMSChunks ---------------------------
(***************************************************************************)
(* One record of a file at a node that collects its chunks: how FileSMS-   *)
(* Chunks cuts a file of `size' KB into chunks, which chunk a request      *)
(* names, how large each reply is, and what add_new_chunk keeps.  The      *)
(* exchange of SmsEchoClient.tla treats chunks as opaque ids; this module  *)
(* adds their sizes.                                                       *)
(***************************************************************************)
EXTENDS Integers, FiniteSets

CONSTANTS
  Sizes,      \* getFileSize(), in KB
  Overheard   \* ids of chunks that other nodes ask for and this one overhears

ASSUME SizesAssumption == Sizes \subseteq Nat \ {0}

VARIABLES
  size,                      \* of the file, fixed when it is announced
  chunks,                    \* ids of the chunks received
  num_of_received_chunks,
  bytes                      \* of chunk data in the replies that were kept

vars == <<size, chunks, num_of_received_chunks, bytes>>

CHUNK_SIZE == 1450

FileSizeInChunks(kb) == (1000 * kb + CHUNK_SIZE - 1) \div CHUNK_SIZE

SizeOfLastChunk(kb) == (1000 * kb) % CHUNK_SIZE

ChunkIds == 0 .. FileSizeInChunks(size) - 1

TypeOK ==
  /\ size \in Sizes
  /\ chunks \subseteq ChunkIds
  /\ num_of_received_chunks \in Nat
  /\ bytes \in Nat

IsFull == num_of_received_chunks = FileSizeInChunks(size)

\* Mutant: the loop stops one position too early.
FirstMissingChunkFromOne ==
  CHOOSE c \in 1 .. FileSizeInChunks(size) :
    /\ c \notin chunks
    /\ \A d \in 1 .. c - 1 : d \in chunks

\* The loop of get_first_missing_chunk: past the last chunk if none misses.
GetFirstMissingChunk ==
  CHOOSE c \in 0 .. FileSizeInChunks(size) :
    /\ c \notin chunks
    /\ \A d \in 0 .. c - 1 : d \in chunks

\* Mutant: the last chunk is padded to CHUNK_SIZE.
PaddedSizeOfChunk(c) == CHUNK_SIZE

GetSizeOfChunk(c) ==
  IF c = FileSizeInChunks(size) - 1 THEN SizeOfLastChunk(size) ELSE CHUNK_SIZE

Init ==
  /\ size \in Sizes
  /\ chunks = {}
  /\ num_of_received_chunks = 0
  /\ bytes = 0

\* What a reply with chunk c changes.
KeepChunk(c) ==
  /\ chunks' = chunks \cup {c}
  /\ num_of_received_chunks' = num_of_received_chunks + 1
  /\ bytes' = bytes + GetSizeOfChunk(c)
  /\ size' = size

\* Mutant: counts a chunk that it has already.
AddChunkAgain(c) == KeepChunk(c)

AddNewChunk(c) == c \notin chunks /\ KeepChunk(c)

\* The reply to this node's own request, which is for the first missing chunk.
RequestedReply == ~IsFull /\ AddNewChunk(GetFirstMissingChunk)

\* The reply to a request of another node.
OverheardReply == \E c \in Overheard \cap ChunkIds : AddNewChunk(c)

Next == RequestedReply \/ OverheardReply

Spec == Init /\ [][Next]_vars

-----------------------------------------------------------------------------

\* Chunks overheard in any order leave no hole behind the position that
\* get_first_missing_chunk finds: while is_full() is false the request names
\* a chunk of the file, never the position after the last one.
RequestNamesAChunk == ~IsFull => GetFirstMissingChunk \in ChunkIds

\* A node that counts a file as full has been sent all its bytes: the chunks
\* add up to the size of the file.
FullFileIsComplete == IsFull => bytes = 1000 * size
=============================================================================
