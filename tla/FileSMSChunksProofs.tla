------------------------ MODULE FileSMSChunksProofs ------------------------
(***************************************************************************)
(* For every file size: how many chunks there are, what the last one       *)
(* leaves out, and when a node that counts a file as full has all of it.   *)
(***************************************************************************)
EXTENDS FileSMSChunks, Loops, FiniteSetTheorems

\* The chunks cover the file and the last one is needed.
LEMMA ChunksCoverFile ==
  ASSUME NEW kb \in Nat \ {0}
  PROVE  /\ FileSizeInChunks(kb) \in Nat \ {0}
         /\ 1000 * kb <= CHUNK_SIZE * FileSizeInChunks(kb)
         /\ CHUNK_SIZE * (FileSizeInChunks(kb) - 1) < 1000 * kb
         /\ SizeOfLastChunk(kb) \in 0 .. CHUNK_SIZE - 1
BY DEF FileSizeInChunks, SizeOfLastChunk, CHUNK_SIZE

\* The modulo that gives the size of the last chunk is 0 when the file is a
\* whole number of chunks, which is when 29 divides its size in KB.
LEMMA LastChunkCompletesFile ==
  ASSUME NEW kb \in Nat \ {0}, kb % 29 # 0
  PROVE  CHUNK_SIZE * (FileSizeInChunks(kb) - 1) + SizeOfLastChunk(kb)
           = 1000 * kb
<1> DEFINE q == (1000 * kb) \div 1450
           r == (1000 * kb) % 1450
<1>1. q \in Nat /\ r \in 0 .. 1449 /\ 1000 * kb = 1450 * q + r
  OBVIOUS
<1>2. r # 0
  <2> SUFFICES ASSUME r = 0 PROVE FALSE
    OBVIOUS
  <2>1. 20 * kb = 29 * q
    BY <1>1
  <2> QED BY <2>1
<1>3. FileSizeInChunks(kb) = q + 1
  BY <1>1, <1>2 DEF FileSizeInChunks, CHUNK_SIZE
<1> QED BY <1>1, <1>3 DEF SizeOfLastChunk, CHUNK_SIZE

-----------------------------------------------------------------------------
(* What a node has received, as a function of the bitmap.                  *)

LastChunk == FileSizeInChunks(size) - 1

\* Every chunk but the last brings CHUNK_SIZE bytes.
Inv ==
  /\ TypeOK
  /\ num_of_received_chunks = Cardinality(chunks)
  /\ bytes = IF LastChunk \in chunks
       THEN CHUNK_SIZE * (num_of_received_chunks - 1) + SizeOfLastChunk(size)
       ELSE CHUNK_SIZE * num_of_received_chunks

LEMMA ChunkIdsAreCounted ==
  ASSUME TypeOK
  PROVE  /\ LastChunk \in Nat
         /\ ChunkIds = 0 .. LastChunk
         /\ IsFiniteSet(ChunkIds)
         /\ Cardinality(ChunkIds) = FileSizeInChunks(size)
<1>1. size \in Nat \ {0}
  BY SizesAssumption DEF TypeOK
<1>2. LastChunk \in Nat /\ LastChunk - 0 + 1 = FileSizeInChunks(size)
  BY <1>1, ChunksCoverFile DEF LastChunk
<1>3. IsFiniteSet(0 .. LastChunk) /\ Cardinality(0 .. LastChunk) = LastChunk - 0 + 1
  BY <1>2, FS_Interval
<1> QED BY <1>2, <1>3 DEF ChunkIds, LastChunk

LEMMA FullMeansAllChunks ==
  ASSUME Inv
  PROVE  IsFull <=> chunks = ChunkIds
<1>1. TypeOK /\ chunks \in SUBSET ChunkIds
  BY DEF Inv, TypeOK
<1>2. IsFiniteSet(ChunkIds) /\ Cardinality(ChunkIds) = FileSizeInChunks(size)
  BY <1>1, ChunkIdsAreCounted
<1>3. Cardinality(ChunkIds) = Cardinality(chunks) => ChunkIds = chunks
  BY <1>1, <1>2, FS_Subset
<1> QED BY <1>2, <1>3 DEF Inv, IsFull

\* The loop of get_first_missing_chunk ends at a chunk of the file if there
\* is one it misses.
LEMMA FirstMissingExists ==
  ASSUME Inv, ~IsFull
  PROVE  GetFirstMissingChunk \in ChunkIds
<1>1. chunks # ChunkIds /\ chunks \subseteq ChunkIds /\ TypeOK
  BY FullMeansAllChunks DEF Inv, TypeOK
<1>2. /\ LastChunk \in Nat /\ ChunkIds = 0 .. LastChunk
      /\ FileSizeInChunks(size) = LastChunk + 1
  <2>1. size \in Nat \ {0}
    BY <1>1, SizesAssumption DEF TypeOK
  <2> QED BY <1>1, <2>1, ChunkIdsAreCounted, ChunksCoverFile DEF LastChunk
<1> DEFINE Missing == {c \in Nat : c \notin chunks}
<1>3. Missing \subseteq Nat /\ Missing # {}
  BY <1>1, <1>2
<1>4. PICK c \in Missing : \A d \in Missing : c <= d
  <2> HIDE DEF Missing
  <2> QED BY <1>3, LeastElement
<1>5. \A d \in 0 .. c - 1 : d \in chunks
  <2> SUFFICES ASSUME NEW d \in 0 .. c - 1, d \notin chunks PROVE FALSE
    OBVIOUS
  <2>1. c \in Nat /\ d \in Nat /\ d < c
    OBVIOUS
  <2>2. d \in Missing
    BY <2>1
  <2> QED BY <1>4, <2>1, <2>2
<1>6. PICK x \in ChunkIds : x \notin chunks
  BY <1>1
<1>7. c \in ChunkIds
  <2>1. x \in Nat /\ c \in Nat /\ ~(x < c)
    BY <1>2, <1>5, <1>6
  <2> QED BY <1>2, <1>6, <2>1
<1>8. /\ GetFirstMissingChunk \in 0 .. FileSizeInChunks(size)
      /\ GetFirstMissingChunk \notin chunks
      /\ \A d \in 0 .. GetFirstMissingChunk - 1 : d \in chunks
  BY <1>2, <1>4, <1>5, <1>7 DEF GetFirstMissingChunk
<1>9. ~(x < GetFirstMissingChunk)
  BY <1>2, <1>6, <1>8
<1> QED BY <1>2, <1>6, <1>8, <1>9

LEMMA InitInv == Init => Inv
<1> SUFFICES ASSUME Init PROVE Inv
  OBVIOUS
<1>1. Cardinality({}) = 0
  BY FS_EmptySet
<1> QED BY <1>1 DEF Init, Inv, TypeOK, CHUNK_SIZE

LEMMA AddNewChunkInv ==
  ASSUME Inv, NEW c \in ChunkIds, AddNewChunk(c)
  PROVE  Inv'
<1>1. /\ TypeOK
      /\ size' = size
      /\ chunks' = chunks \cup {c}
      /\ num_of_received_chunks' = num_of_received_chunks + 1
      /\ bytes' = bytes + GetSizeOfChunk(c)
      /\ c \notin chunks
  BY DEF Inv, AddNewChunk, KeepChunk
<1>2. /\ ChunkIds' = ChunkIds
      /\ LastChunk' = LastChunk
      /\ IsFiniteSet(ChunkIds)
      /\ SizeOfLastChunk(size) \in 0 .. CHUNK_SIZE - 1
  BY <1>1, ChunkIdsAreCounted, ChunksCoverFile, SizesAssumption
     DEF ChunkIds, LastChunk, TypeOK
<1>3. IsFiniteSet(chunks)
  BY <1>1, <1>2, FS_Subset DEF TypeOK
<1>4. num_of_received_chunks' = Cardinality(chunks')
  BY <1>1, <1>3, FS_AddElement DEF Inv
<1>5. GetSizeOfChunk(c) =
        IF c = LastChunk THEN SizeOfLastChunk(size) ELSE CHUNK_SIZE
  BY DEF GetSizeOfChunk, LastChunk
<1>6. TypeOK'
  BY <1>1, <1>2, <1>5 DEF TypeOK, CHUNK_SIZE
<1>7. (bytes = IF LastChunk \in chunks
         THEN CHUNK_SIZE * (num_of_received_chunks - 1) + SizeOfLastChunk(size)
         ELSE CHUNK_SIZE * num_of_received_chunks)'
  <2>1. CASE c = LastChunk
    BY <1>1, <1>2, <1>5, <2>1 DEF Inv, TypeOK, CHUNK_SIZE
  <2>2. CASE c # LastChunk
    BY <1>1, <1>2, <1>5, <2>2 DEF Inv, TypeOK, CHUNK_SIZE
  <2> QED BY <2>1, <2>2
<1> QED BY <1>4, <1>6, <1>7 DEF Inv

LEMMA InvStep == Inv /\ [Next]_vars => Inv'
<1> SUFFICES ASSUME Inv, [Next]_vars PROVE Inv'
  OBVIOUS
<1>1. CASE RequestedReply
  BY <1>1, FirstMissingExists, AddNewChunkInv DEF RequestedReply
<1>2. CASE OverheardReply
  BY <1>2, AddNewChunkInv DEF OverheardReply
<1>3. CASE UNCHANGED vars
  BY <1>3 DEF vars, Inv, TypeOK, ChunkIds, LastChunk
<1> QED BY <1>1, <1>2, <1>3 DEF Next

LEMMA InvAlways == Spec => []Inv
BY InitInv, InvStep, PTL DEF Spec

\* Whatever is overheard, a record holds chunks of its own file only
\* (sms-echo-client.cc:45-97), for every file size.
THEOREM TypeCorrect == Spec => []TypeOK
<1>1. Inv => TypeOK
  BY DEF Inv
<1> QED BY <1>1, InvAlways, PTL

\* In whatever order chunks are overheard, the search of a file that is not
\* full ends at one of its chunks, for every file size.
THEOREM RequestsNameChunks == Spec => []RequestNamesAChunk
<1>1. Inv => RequestNamesAChunk
  BY FirstMissingExists DEF RequestNamesAChunk
<1> QED BY <1>1, InvAlways, PTL

\* A file that is counted as full has arrived to the last byte if no size is
\* a multiple of 29 KB.
THEOREM FullFilesAreComplete ==
  ASSUME \A kb \in Sizes : kb % 29 # 0
  PROVE  Spec => []FullFileIsComplete
<1>1. Inv => FullFileIsComplete
  <2> SUFFICES ASSUME Inv, IsFull PROVE bytes = 1000 * size
    BY DEF FullFileIsComplete
  <2>1. size \in Nat \ {0} /\ size % 29 # 0
    BY SizesAssumption DEF Inv, TypeOK
  <2>2. LastChunk \in chunks /\ num_of_received_chunks = FileSizeInChunks(size)
    BY FullMeansAllChunks, ChunkIdsAreCounted DEF Inv, IsFull
  <2> QED BY <2>1, <2>2, LastChunkCompletesFile DEF Inv
<1> QED BY <1>1, InvAlways, PTL
=============================================================================
