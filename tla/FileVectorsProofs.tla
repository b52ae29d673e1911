------------------------- MODULE FileVectorsProofs -------------------------
(***************************************************************************)
(* The vectors of FileVectors.tla, for every catalogue that fits into the  *)
(* fields of an advertisement, every set of nodes and every initial lists: *)
(* nothing is listed twice, records fit their files, the loops of          *)
(* getFileToRequest choose what SmsEchoClient allows, and the handlers     *)
(* change the vectors as those of SmsEchoClient change its sets.           *)
(***************************************************************************)
EXTENDS FileVectors, Loops, FiniteSetTheorems

\* The records that occur.
Record ==
  {file \in [id : File, size : Nat, chunks : Seq(BOOLEAN), received : Nat,
             holders : Seq(Node)] :
     /\ file.size = FileSize[file.id]
     /\ Len(file.chunks) = SizeInChunks(file.size)
     /\ IsInjective(file.holders)}

DistinctIds(v) == \A i, j \in DOMAIN v : v[i].id = v[j].id => i = j

\* The vectors that occur.
Vector == {v \in Seq(Record) : DistinctIds(v)}

-----------------------------------------------------------------------------
(* Records.                                                                *)

LEMMA FilesHaveSizes ==
  ASSUME NEW f \in File
  PROVE  /\ f \in Nat \ {0} /\ f < FieldWidth
         /\ FileSize[f] \in Nat \ {0} /\ FileSize[f] < FieldWidth
         /\ SizeInChunks(FileSize[f]) \in Nat \ {0}
<1>1. /\ f \in 1 .. FieldWidth - 1 /\ FileSize[f] \in 1 .. FieldWidth - 1
      /\ FieldWidth \in Nat
  BY FieldAssumption, WidthAssumption
<1>2. ASSUME NEW kb \in Nat \ {0}
      PROVE  (1000 * kb + 1449) \div 1450 \in Nat \ {0}
  OBVIOUS
<1> QED BY <1>1, <1>2 DEF SizeInChunks

LEMMA NewFileType ==
  ASSUME NEW f \in File, NEW full \in BOOLEAN
  PROVE  /\ NewFile(f, FileSize[f], full) \in Record
         /\ NewFile(f, FileSize[f], full).id = f
         /\ IsFull(NewFile(f, FileSize[f], full)) <=> full
<1> DEFINE size == FileSize[f]
           m == SizeInChunks(size)
           file == NewFile(f, size, full)
           map == [i \in 1 .. m |-> full]
<1>1. size \in Nat /\ m \in Nat \ {0}
  BY FilesHaveSizes
<1> HIDE DEF size, m
<1>2. map \in Seq(BOOLEAN) /\ Len(map) = m
  BY <1>1
<1> HIDE DEF map
<1>3. file = [id |-> f, size |-> size, chunks |-> map,
              received |-> IF full THEN m ELSE 0, holders |-> <<>>]
  BY DEF NewFile, m, map
<1>4. IsInjective(<<>>) /\ <<>> \in Seq(Node)
  BY DEF IsInjective
<1> HIDE DEF file
<1>5. file \in [id : File, size : Nat, chunks : Seq(BOOLEAN), received : Nat,
                holders : Seq(Node)]
  BY <1>1, <1>2, <1>3, <1>4
<1>6. file \in Record
  BY <1>2, <1>3, <1>4, <1>5 DEF Record, size, m
<1>7. IsFull(file) <=> full
  BY <1>1, <1>3 DEF IsFull, m
<1> QED BY <1>3, <1>6, <1>7 DEF file, size

LEMMA AddNodeType ==
  ASSUME NEW list \in Seq(Node), IsInjective(list), NEW n \in Node
  PROVE  /\ AddNode(list, n) \in Seq(Node)
         /\ IsInjective(AddNode(list, n))
         /\ Contains(AddNode(list, n), n)
         /\ ToSet(AddNode(list, n)) = ToSet(list) \cup {n}
<1>1. CASE Contains(list, n)
  BY <1>1 DEF AddNode, Contains, ToSet
<1>2. CASE ~Contains(list, n)
  <2> DEFINE longer == Append(list, n)
  <2>1. /\ longer \in Seq(Node) /\ Len(longer) = Len(list) + 1
        /\ \A i \in 1 .. Len(list) : longer[i] = list[i]
        /\ longer[Len(list) + 1] = n
        /\ AddNode(list, n) = longer
    BY <1>2 DEF AddNode
  <2> HIDE DEF longer
  <2>2. DOMAIN longer = 1 .. Len(list) + 1 /\ DOMAIN list = 1 .. Len(list)
        /\ Len(list) \in Nat
    BY <2>1
  <2>3. \A i \in 1 .. Len(list) : list[i] # n
    BY <1>2 DEF Contains
  <2>4. IsInjective(longer)
    BY <2>1, <2>2, <2>3 DEF IsInjective
  <2>5. ToSet(longer) = ToSet(list) \cup {n}
    BY <2>1, <2>2 DEF ToSet
  <2> QED BY <2>1, <2>2, <2>4, <2>5 DEF Contains
<1> QED BY <1>1, <1>2

LEMMA AddHolderType ==
  ASSUME NEW file \in Record, NEW n \in Node
  PROVE  /\ AddHolder(file, n) \in Record
         /\ AddHolder(file, n) = [file EXCEPT !.holders = AddNode(file.holders, n)]
         /\ HoldersOf(AddHolder(file, n)) = HoldersOf(file) \cup {n}
<1>1. file.holders \in Seq(Node) /\ IsInjective(file.holders)
  BY DEF Record
<1>2. AddHolder(file, n) = [file EXCEPT !.holders = AddNode(file.holders, n)]
  BY DEF AddHolder
<1>3. AddHolder(file, n) \in Record
  BY <1>1, <1>2, AddNodeType DEF Record
<1>4. AddHolder(file, n).holders = AddNode(file.holders, n)
  BY <1>2 DEF Record
<1> QED BY <1>1, <1>2, <1>3, <1>4, AddNodeType DEF HoldersOf

LEMMA AddChunkType ==
  ASSUME NEW file \in Record, NEW n \in Node,
         NEW c \in 0 .. SizeInChunks(file.size) - 1
  PROVE  /\ AddChunk(file, c, n) \in Record
         /\ AddChunk(file, c, n).id = file.id
         /\ AddChunk(file, c, n).received = file.received + 1
         /\ HoldersOf(AddChunk(file, c, n)) = HoldersOf(file) \cup {n}
         /\ ChunksOf(AddChunk(file, c, n)) = ChunksOf(file) \cup {c}
<1> DEFINE held == AddHolder(file, n)
           map == [file.chunks EXCEPT ![c + 1] = TRUE]
           new == AddChunk(file, c, n)
<1>1. /\ file.chunks \in Seq(BOOLEAN) /\ file.received \in Nat
      /\ Len(file.chunks) = SizeInChunks(file.size)
      /\ file.size = FileSize[file.id] /\ file.id \in File
  BY DEF Record
<1>2. /\ held \in Record
      /\ held = [file EXCEPT !.holders = AddNode(file.holders, n)]
      /\ HoldersOf(held) = HoldersOf(file) \cup {n}
  BY AddHolderType
<1>3. held.chunks = file.chunks /\ held.received = file.received /\ held.id = file.id
  BY <1>2 DEF Record
<1>4. new = [held EXCEPT !.chunks = map, !.received = file.received + 1]
  BY <1>2, <1>3 DEF AddChunk, Record
<1>5. map \in Seq(BOOLEAN) /\ Len(map) = Len(file.chunks) /\ c + 1 \in DOMAIN map
      /\ c + 1 \in DOMAIN file.chunks
  <2>1. SizeInChunks(file.size) \in Nat
    BY <1>1, FilesHaveSizes
  <2>2. c + 1 \in 1 .. Len(file.chunks) /\ Len(file.chunks) \in Nat
    BY <1>1, <2>1
  <2>3. map \in [1 .. Len(file.chunks) -> BOOLEAN]
    <3>1. file.chunks \in [1 .. Len(file.chunks) -> BOOLEAN]
      BY <1>1
    <3> QED BY <3>1, Zenon
  <2> HIDE DEF map
  <2>4. map \in Seq(BOOLEAN) /\ Len(map) = Len(file.chunks)
    BY <2>2, <2>3
  <2> QED BY <1>1, <2>2, <2>4
<1>6. ASSUME NEW d \in DOMAIN file.chunks
      PROVE  map[d] = IF d = c + 1 THEN TRUE ELSE file.chunks[d]
  BY <1>6
<1> HIDE DEF map, held, new
<1>7. new.chunks = map /\ new.received = file.received + 1 /\ new.id = file.id
      /\ new.holders = held.holders /\ new.size = held.size
  BY <1>2, <1>3, <1>4 DEF Record
<1>8. new \in Record
  <2>1. new.received \in Nat
    BY <1>1, <1>7
  <2> QED BY <1>1, <1>2, <1>3, <1>4, <1>5, <1>7, <2>1 DEF Record
<1>9. ChunksOf(new) = ChunksOf(file) \cup {c}
  <2>1. DOMAIN map = DOMAIN file.chunks
    BY <1>1, <1>5
  <2>2. {d \in DOMAIN map : map[d]} =
           {d \in DOMAIN file.chunks : file.chunks[d]} \cup {c + 1}
    BY <1>5, <1>6, <2>1
  <2>3. (c + 1) - 1 = c
    OBVIOUS
  <2>4. ChunksOf(new) = {i - 1 : i \in {d \in DOMAIN map : map[d]}}
    BY <1>7 DEF ChunksOf
  <2> QED BY <2>2, <2>3, <2>4 DEF ChunksOf
<1>10. HoldersOf(new) = HoldersOf(held)
  BY <1>7 DEF HoldersOf
<1> QED BY <1>2, <1>7, <1>8, <1>9, <1>10 DEF new

-----------------------------------------------------------------------------
(* Vectors.                                                                *)

LEMMA VectorType ==
  ASSUME NEW v \in Vector
  PROVE  /\ Len(v) \in Nat /\ DOMAIN v = 1 .. Len(v)
         /\ \A i \in DOMAIN v : v[i] \in Record /\ v[i].id \in File
BY DEF Vector, Record

\* getFileById finds the record of f, if there is one.
LEMMA FindsTheRecord ==
  ASSUME NEW v \in Vector, NEW f
  PROVE  \/ GetFileById(v, f) = 0 /\ f \notin Ids(v)
         \/ /\ GetFileById(v, f) \in DOMAIN v
            /\ v[GetFileById(v, f)].id = f
            /\ f \in Ids(v)
<1> DEFINE I == {i \in 1 .. Len(v) : v[i].id = f}
<1>1. GetFileById(v, f) = IF I # {} THEN Min(I) ELSE 0
  BY DEF GetFileById, SelectInSeq
<1>2. DOMAIN v = 1 .. Len(v)
  BY VectorType
<1>3. CASE I = {}
  BY <1>1, <1>2, <1>3 DEF Ids
<1>4. CASE I # {}
  <2>1. \E m \in I : \A k \in I : m <= k
    <3>1. I \in SUBSET Nat
      OBVIOUS
    <3> HIDE DEF I
    <3> QED BY <1>4, <3>1, LeastElement
  <2>2. Min(I) \in I
    <3> HIDE DEF I
    <3> QED BY <2>1 DEF Min
  <2> QED BY <1>1, <1>2, <1>4, <2>2 DEF Ids
<1> QED BY <1>3, <1>4

LEMMA FindsAt ==
  ASSUME NEW v \in Vector, NEW i \in DOMAIN v
  PROVE  GetFileById(v, v[i].id) = i
<1>1. v[i].id \in Ids(v)
  BY DEF Ids
<1>2. /\ GetFileById(v, v[i].id) \in DOMAIN v
      /\ v[GetFileById(v, v[i].id)].id = v[i].id
  BY <1>1, FindsTheRecord
<1> QED BY <1>2 DEF Vector, DistinctIds

LEMMA KnownAt ==
  ASSUME NEW v \in Vector, NEW i \in DOMAIN v
  PROVE  Known(v, v[i].id) = v[i]
<1>1. i # 0
  BY VectorType
<1> QED BY <1>1, FindsAt DEF Known

LEMMA KnownType ==
  ASSUME NEW v \in Vector, NEW f \in File
  PROVE  /\ Known(v, f) \in Record /\ Known(v, f).id = f
         /\ f \in Ids(v) => \E i \in DOMAIN v : v[i].id = f /\ Known(v, f) = v[i]
         /\ f \notin Ids(v) => Known(v, f) = NewFile(f, FileSize[f], FALSE)
<1>1. CASE GetFileById(v, f) = 0
  <2>1. f \notin Ids(v)
    BY <1>1, FindsTheRecord, VectorType
  <2> QED BY <1>1, <2>1, NewFileType DEF Known
<1>2. CASE GetFileById(v, f) # 0
  <2>1. /\ GetFileById(v, f) \in DOMAIN v /\ v[GetFileById(v, f)].id = f
        /\ f \in Ids(v)
    BY <1>2, FindsTheRecord
  <2>2. Known(v, f) = v[GetFileById(v, f)]
    BY <1>2 DEF Known
  <2> QED BY <2>1, <2>2, VectorType
<1> QED BY <1>1, <1>2

\* The record of f in v becomes file, or file is appended if there is none.
Put(v, f, file) ==
  LET i == GetFileById(v, f)
  IN  IF i = 0 THEN Append(v, file) ELSE [v EXCEPT ![i] = file]

LEMMA PutType ==
  ASSUME NEW v \in Vector, NEW f \in File, NEW file \in Record, file.id = f
  PROVE  /\ Put(v, f, file) \in Vector
         /\ Ids(Put(v, f, file)) = Ids(v) \cup {f}
         /\ \A g \in File :
              Known(Put(v, f, file), g) = IF g = f THEN file ELSE Known(v, g)
<1> DEFINE w == Put(v, f, file)
<1>1. /\ Len(v) \in Nat /\ DOMAIN v = 1 .. Len(v) /\ v \in Seq(Record)
      /\ DistinctIds(v)
  BY VectorType DEF Vector
<1>2. /\ w \in Vector
      /\ Ids(w) = Ids(v) \cup {f}
      /\ \E i \in DOMAIN w : w[i] = file
      /\ \A j \in DOMAIN v : v[j].id # f => j \in DOMAIN w /\ w[j] = v[j]
  <2>1. CASE GetFileById(v, f) = 0
    <3>1. /\ w = Append(v, file) /\ f \notin Ids(v)
      BY <2>1, FindsTheRecord, <1>1 DEF Put
    <3>2. /\ w \in Seq(Record) /\ Len(w) = Len(v) + 1
          /\ DOMAIN w = 1 .. Len(v) + 1
          /\ \A i \in 1 .. Len(v) : w[i] = v[i]
          /\ w[Len(v) + 1] = file
      BY <1>1, <3>1
    <3> HIDE DEF w
    <3>3. \A i \in 1 .. Len(v) : w[i].id # f
      BY <1>1, <3>1, <3>2 DEF Ids
    <3>4. DistinctIds(w)
      BY <1>1, <3>2, <3>3 DEF DistinctIds
    <3>5. Ids(w) = Ids(v) \cup {f}
      BY <1>1, <3>2 DEF Ids
    <3> QED BY <1>1, <3>2, <3>4, <3>5 DEF Vector
  <2>2. CASE GetFileById(v, f) # 0
    <3> DEFINE i == GetFileById(v, f)
    <3>1. /\ w = [v EXCEPT ![i] = file]
          /\ i \in DOMAIN v /\ v[i].id = f
      BY <2>2, FindsTheRecord DEF Put
    <3> HIDE DEF w, i
    <3>2. w \in Seq(Record) /\ Len(w) = Len(v) /\ DOMAIN w = DOMAIN v
      BY <1>1, <3>1
    <3>3. \A j \in DOMAIN v : w[j] = IF j = i THEN file ELSE v[j]
      BY <1>1, <3>1
    <3>4. \A j \in DOMAIN v : w[j].id = v[j].id
      BY <3>1, <3>3
    <3>5. DistinctIds(w)
      BY <1>1, <3>2, <3>4 DEF DistinctIds
    <3>6. Ids(w) = Ids(v) \cup {f}
      BY <3>1, <3>2, <3>4 DEF Ids
    <3> QED BY <3>1, <3>2, <3>3, <3>5, <3>6 DEF Vector
  <2> QED BY <2>1, <2>2
<1> HIDE DEF w
<1>3. Known(w, f) = file
  BY <1>2, KnownAt
<1>4. ASSUME NEW g \in File, g # f
      PROVE  Known(w, g) = Known(v, g)
  <2>1. CASE g \in Ids(v)
    <3>1. PICK j \in DOMAIN v : v[j].id = g
      BY <2>1 DEF Ids
    <3>2. j \in DOMAIN w /\ w[j] = v[j]
      BY <1>2, <1>4, <3>1
    <3>3. Known(v, g) = v[j] /\ Known(w, g) = w[j]
      BY <1>2, <3>1, <3>2, KnownAt
    <3> QED BY <3>2, <3>3
  <2>2. CASE g \notin Ids(v)
    BY <1>2, <1>4, <2>2, KnownType
  <2> QED BY <2>1, <2>2
<1> QED BY <1>2, <1>3, <1>4 DEF w

\* As many ids as records, and as many members as entries of a list.
LEMMA InjectiveCount ==
  ASSUME NEW S, NEW list \in Seq(S), IsInjective(list)
  PROVE  IsFiniteSet(ToSet(list)) /\ Cardinality(ToSet(list)) = Len(list)
<1>1. Len(list) \in Nat /\ DOMAIN list = 1 .. Len(list)
      /\ list = [i \in DOMAIN list |-> list[i]]
  OBVIOUS
<1>2. list \in [1 .. Len(list) -> ToSet(list)]
  BY <1>1 DEF ToSet
<1>3. list \in Bijection(1 .. Len(list), ToSet(list))
  BY <1>1, <1>2 DEF Bijection, Injection, Surjection, IsInjective, ToSet
<1>4. ExistsBijection(1 .. Len(list), ToSet(list))
  BY <1>3 DEF ExistsBijection
<1>5. IsFiniteSet(1 .. Len(list)) /\ Cardinality(1 .. Len(list)) = Len(list)
  <2>1. 1 \in Int /\ Len(list) \in Int
    BY <1>1
  <2>2. /\ IsFiniteSet(1 .. Len(list))
        /\ Cardinality(1 .. Len(list)) = IF 1 > Len(list) THEN 0 ELSE Len(list) - 1 + 1
    BY <2>1, FS_Interval
  <2> QED BY <1>1, <2>2
<1> QED BY <1>4, <1>5, FS_Bijection

LEMMA VectorCount ==
  ASSUME NEW v \in Vector
  PROVE  IsFiniteSet(Ids(v)) /\ Cardinality(Ids(v)) = Len(v)
<1> DEFINE list == [i \in 1 .. Len(v) |-> v[i].id]
<1>1. Len(v) \in Nat /\ DOMAIN v = 1 .. Len(v) /\ DistinctIds(v)
  BY VectorType DEF Vector
<1>2. list \in Seq(Ids(v)) /\ Len(list) = Len(v)
  BY <1>1 DEF Ids
<1>3. IsInjective(list) /\ ToSet(list) = Ids(v)
  BY <1>1 DEF IsInjective, DistinctIds, ToSet, Ids
<1> HIDE DEF list
<1> QED BY <1>2, <1>3, InjectiveCount

-----------------------------------------------------------------------------
(* The loop over an advertisement.                                         *)

LEMMA AddHolderTwice ==
  ASSUME NEW file \in Record, NEW n \in Node
  PROVE  AddHolder(AddHolder(file, n), n) = AddHolder(file, n)
<1> DEFINE once == AddHolder(file, n)
<1>1. /\ once \in Record
      /\ once = [file EXCEPT !.holders = AddNode(file.holders, n)]
  BY AddHolderType
<1>2. file.holders \in Seq(Node) /\ IsInjective(file.holders)
  BY DEF Record
<1>3. once.holders = AddNode(file.holders, n)
  BY <1>1 DEF Record
<1>4. Contains(once.holders, n)
  BY <1>2, <1>3, AddNodeType
<1> HIDE DEF once
<1>5. AddNode(once.holders, n) = once.holders
  BY <1>4 DEF AddNode
<1>6. [once EXCEPT !.holders = once.holders] = once
  BY <1>1 DEF Record
<1>7. AddHolder(once, n) = [once EXCEPT !.holders = AddNode(once.holders, n)]
  BY <1>1, AddHolderType
<1> QED BY <1>5, <1>6, <1>7 DEF once

\* One field of an advertisement notes the sender as a holder of the file.
LEMMA DecodeFileEffect ==
  ASSUME NEW v \in Vector, NEW s \in Node, NEW field, field.id \in File,
         field.size = FileSize[field.id]
  PROVE  LET f == field.id
             w == DecodeFile(v, s, field)
         IN  /\ w \in Vector
             /\ Ids(w) = Ids(v) \cup {f}
             /\ \A g \in File : Known(w, g) =
                  IF g = f THEN AddHolder(Known(v, f), s) ELSE Known(v, g)
<1> DEFINE f == field.id
           i == GetFileById(v, f)
           file == AddHolder(Known(v, f), s)
<1>1. file \in Record /\ file.id = f
  <2>1. Known(v, f) \in Record /\ Known(v, f).id = f
    BY KnownType
  <2> HIDE DEF f
  <2>2. file = [Known(v, f) EXCEPT !.holders = AddNode(Known(v, f).holders, s)]
        /\ file \in Record
    BY <2>1, AddHolderType
  <2> QED BY <2>1, <2>2 DEF Record
<1>2. DecodeFile(v, s, field) = Put(v, f, file)
  <2>1. CASE i = 0
    <3>1. Known(v, f) = NewFile(field.id, field.size, FALSE)
      BY <2>1 DEF Known
    <3> QED BY <2>1, <3>1 DEF DecodeFile, Put
  <2>2. CASE i # 0
    <3>1. Known(v, f) = v[i]
      BY <2>2 DEF Known
    <3>2. i \in DOMAIN v
      BY <2>2, FindsTheRecord
    <3>3. DecodeFile(v, s, field) = [v EXCEPT ![i] = AddHolder(v[i], s)]
      BY <2>2, <3>2 DEF DecodeFile
    <3> QED BY <2>2, <3>1, <3>3 DEF Put
  <2> QED BY <2>1, <2>2
<1> HIDE DEF file, i
<1> QED BY <1>1, <1>2, PutType DEF file

\* The ids in an advertisement.
Advertised(packet) == {packet.fields[k].id : k \in 1 .. packet.count}

\* An advertisement whose fields are right.
RightPacket(packet) ==
  /\ packet.count \in Nat
  /\ \A k \in 1 .. packet.count :
       packet.fields[k].id \in File
       /\ packet.fields[k].size = FileSize[packet.fields[k].id]

LEMMA DecodeFilesEffect ==
  ASSUME NEW v \in Vector, NEW s \in Node, NEW packet, RightPacket(packet)
  PROVE  LET w == DecodeFilesForAdv(v, s, packet)
         IN  /\ w \in Vector
             /\ Ids(w) = Ids(v) \cup Advertised(packet)
             /\ \A g \in File : Known(w, g) =
                  IF g \in Advertised(packet) THEN AddHolder(Known(v, g), s)
                                              ELSE Known(v, g)
<1> DEFINE n == packet.count
           fields == packet.fields
           F == [k \in 1 .. n |-> [x \in Vector |-> DecodeFile(x, s, fields[k])]]
           after == CHOOSE g : g = [k \in 0 .. n |->
                      IF k = 0 THEN v ELSE DecodeFile(g[k - 1], s, fields[k])]
           Ahead(k) == {fields[j].id : j \in 1 .. k}
           Right == {k \in 0 .. n :
             /\ after[k] \in Vector
             /\ Ids(after[k]) = Ids(v) \cup Ahead(k)
             /\ \A g \in File : Known(after[k], g) =
                  IF g \in Ahead(k) THEN AddHolder(Known(v, g), s) ELSE Known(v, g)}
<1>1. /\ n \in Nat
      /\ \A k \in 1 .. n : fields[k].id \in File
                           /\ fields[k].size = FileSize[fields[k].id]
  BY DEF RightPacket
<1>2. DecodeFilesForAdv(v, s, packet) = after[n]
  BY DEF DecodeFilesForAdv
<1> HIDE DEF n, fields
<1>3. after = [k \in 0 .. n |->
                 IF k = 0 THEN v ELSE DecodeFile(after[k - 1], s, fields[k])]
  <2>1. \A x \in Vector : \A k \in 1 .. n : F[k][x] \in Vector
    BY <1>1, DecodeFileEffect
  <2>2. PICK g \in [0 .. n -> Vector] :
          g[0] = v /\ \A k \in 1 .. n : g[k] = F[k][g[k - 1]]
    <3>1. n \in Nat /\ v \in Vector
      BY <1>1
    <3> HIDE DEF F, after
    <3>2. LoopStates(n, Vector, v, F) # {}
      BY <2>1, <3>1, LoopHasStates
    <3> QED BY <3>2 DEF LoopStates
  <2>3. ASSUME NEW k \in 0 .. n
        PROVE  g[k] = IF k = 0 THEN v ELSE DecodeFile(g[k - 1], s, fields[k])
    <3>1. CASE k # 0
      <4>1. k \in 1 .. n /\ k - 1 \in 0 .. n
        BY <1>1, <3>1
      <4>2. g[k - 1] \in Vector
        BY <4>1
      <4> QED BY <2>2, <3>1, <4>1, <4>2
    <3> QED BY <2>2, <3>1
  <2>4. g = [k \in 0 .. n |->
               IF k = 0 THEN v ELSE DecodeFile(g[k - 1], s, fields[k])]
    <3> HIDE DEF F
    <3> QED BY <2>3
  <2> HIDE DEF F
  <2> QED BY <2>4
<1> HIDE DEF after, F
<1>4. 0 \in Right
  <2>1. after[0] = v /\ Ahead(0) = {}
    BY <1>1, <1>3
  <2> HIDE DEF Ahead
  <2> QED BY <1>1, <2>1
<1>5. \A k \in 0 .. n - 1 : k \in Right => k + 1 \in Right
  <2> SUFFICES ASSUME NEW k \in 0 .. n - 1, k \in Right
               PROVE  k + 1 \in Right
    OBVIOUS
  <2> DEFINE f == fields[k + 1].id
             w == after[k]
             z == after[k + 1]
  <2>1. k + 1 \in 1 .. n /\ k + 1 \in 0 .. n /\ (k + 1) - 1 = k
    BY <1>1
  <2>2. z = DecodeFile(w, s, fields[k + 1])
    BY <1>3, <2>1
  <2>3. Ahead(k + 1) = Ahead(k) \cup {f}
    <3>1. 1 .. k + 1 = (1 .. k) \cup {k + 1}
      BY <1>1
    <3> QED BY <3>1
  <2> HIDE DEF Ahead
  <2>4. /\ w \in Vector /\ Ids(w) = Ids(v) \cup Ahead(k)
        /\ \A g \in File : Known(w, g) =
             IF g \in Ahead(k) THEN AddHolder(Known(v, g), s) ELSE Known(v, g)
    OBVIOUS
  <2> HIDE DEF Right
  <2>5. /\ z \in Vector
        /\ Ids(z) = Ids(w) \cup {f}
        /\ \A g \in File : Known(z, g) =
             IF g = f THEN AddHolder(Known(w, f), s) ELSE Known(w, g)
    BY <1>1, <2>1, <2>2, <2>4, DecodeFileEffect
  <2>6. f \in File
    BY <1>1, <2>1
  <2> HIDE DEF f, w, z
  <2>7. ASSUME NEW g \in File
        PROVE  Known(z, g) =
                 IF g \in Ahead(k + 1) THEN AddHolder(Known(v, g), s) ELSE Known(v, g)
    <3>1. CASE g = f /\ f \in Ahead(k)
      <4>1. Known(v, f) \in Record
        BY <2>6, KnownType
      <4>2. AddHolder(AddHolder(Known(v, f), s), s) = AddHolder(Known(v, f), s)
        BY <4>1, AddHolderTwice
      <4> QED BY <2>3, <2>4, <2>5, <2>6, <3>1, <4>2
    <3>2. CASE g = f /\ f \notin Ahead(k)
      BY <2>3, <2>4, <2>5, <2>6, <3>2
    <3>3. CASE g # f
      BY <2>3, <2>4, <2>5, <3>3
    <3> QED BY <3>1, <3>2, <3>3
  <2>8. Ids(z) = Ids(v) \cup Ahead(k + 1)
    BY <2>3, <2>4, <2>5
  <2> QED BY <2>1, <2>5, <2>7, <2>8 DEF Right, z
<1>6. n \in Right
  <2> HIDE DEF Right
  <2>1. 0 .. n \subseteq Right
    BY <1>1, <1>4, <1>5, LoopInduction
  <2> QED BY <1>1, <2>1
<1>7. Ahead(n) = Advertised(packet)
  BY DEF Advertised, n, fields
<1> HIDE DEF Ahead
<1> QED BY <1>2, <1>6, <1>7

-----------------------------------------------------------------------------
(* The full records, and the advertisement of them.                        *)

LEMMA FullAmongRounds ==
  ASSUME NEW v \in Vector
  PROVE  /\ FullAmong(v)[0] = <<>>
         /\ \A k \in 1 .. Len(v) : FullAmong(v)[k] =
              IF IsFull(v[k]) THEN Append(FullAmong(v)[k - 1], v[k])
                              ELSE FullAmong(v)[k - 1]
<1> DEFINE n == Len(v)
           X == Seq(Record)
           F == [k \in 1 .. n |-> [x \in X |->
                   IF IsFull(v[k]) THEN Append(x, v[k]) ELSE x]]
           after == CHOOSE g : g = [k \in 0 .. n |->
                      IF k = 0 THEN <<>>
                      ELSE IF IsFull(v[k]) THEN Append(g[k - 1], v[k]) ELSE g[k - 1]]
<1>1. n \in Nat /\ \A k \in 1 .. n : v[k] \in Record
  BY VectorType
<1>2. FullAmong(v) = after
  BY DEF FullAmong
<1> HIDE DEF n
<1>3. PICK g \in [0 .. n -> X] :
        g[0] = <<>> /\ \A k \in 1 .. n : g[k] = F[k][g[k - 1]]
  <2>1. \A x \in X : \A k \in 1 .. n : F[k][x] \in X
    BY <1>1
  <2>2. n \in Nat /\ <<>> \in X
    BY <1>1
  <2> HIDE DEF F, X, after
  <2>3. LoopStates(n, X, <<>>, F) # {}
    BY <2>1, <2>2, LoopHasStates
  <2> QED BY <2>3 DEF LoopStates
<1>4. ASSUME NEW k \in 0 .. n
      PROVE  g[k] = IF k = 0 THEN <<>>
                    ELSE IF IsFull(v[k]) THEN Append(g[k - 1], v[k]) ELSE g[k - 1]
  <2>1. CASE k # 0
    <3>1. k \in 1 .. n /\ g[k - 1] \in X
      BY <1>1, <2>1
    <3> HIDE DEF X, after
    <3> QED BY <1>3, <2>1, <3>1
  <2> QED BY <1>3, <2>1
<1> HIDE DEF F
<1>5. g = [k \in 0 .. n |->
             IF k = 0 THEN <<>>
             ELSE IF IsFull(v[k]) THEN Append(g[k - 1], v[k]) ELSE g[k - 1]]
  BY <1>4
<1>6. after = [k \in 0 .. n |->
                 IF k = 0 THEN <<>>
                 ELSE IF IsFull(v[k]) THEN Append(after[k - 1], v[k])
                                      ELSE after[k - 1]]
  BY <1>5
<1> HIDE DEF after
<1>7. after[0] = <<>>
  BY <1>1, <1>6
<1>8. ASSUME NEW k \in 1 .. n
      PROVE  after[k] = IF IsFull(v[k]) THEN Append(after[k - 1], v[k])
                                        ELSE after[k - 1]
  <2>1. k \in 0 .. n /\ k # 0
    BY <1>1
  <2> QED BY <1>6, <2>1
<1> QED BY <1>2, <1>7, <1>8 DEF n

\* The records that are full, each once.
LEMMA FullRecordsAreThose ==
  ASSUME NEW v \in Vector
  PROVE  /\ FullRecords(v) \in Vector
         /\ \A file : file \in ToSet(FullRecords(v)) <=>
                        \E i \in DOMAIN v : IsFull(v[i]) /\ file = v[i]
<1> DEFINE n == Len(v)
           after == FullAmong(v)
           Among(k, file) == \E i \in 1 .. k : IsFull(v[i]) /\ file = v[i]
           Right == {k \in 0 .. n :
             /\ after[k] \in Vector
             /\ \A file : file \in ToSet(after[k]) <=> Among(k, file)}
<1>1. n \in Nat /\ DOMAIN v = 1 .. n /\ DistinctIds(v)
      /\ \A i \in 1 .. n : v[i] \in Record
  BY VectorType DEF Vector
<1> HIDE DEF n, after
<1>2. 0 \in Right
  <2>1. after[0] = <<>>
    BY FullAmongRounds DEF after
  <2>2. <<>> \in Vector /\ ToSet(<<>>) = {} /\ 1 .. 0 = {}
    BY DEF Vector, DistinctIds, ToSet
  <2> QED BY <1>1, <2>1, <2>2
<1>3. \A k \in 0 .. n - 1 : k \in Right => k + 1 \in Right
  <2> SUFFICES ASSUME NEW k \in 0 .. n - 1, k \in Right
               PROVE  k + 1 \in Right
    OBVIOUS
  <2> DEFINE w == after[k]
             z == after[k + 1]
             file == v[k + 1]
  <2>1. k + 1 \in 1 .. n /\ k + 1 \in 0 .. n /\ (k + 1) - 1 = k
        /\ 1 .. k + 1 = (1 .. k) \cup {k + 1} /\ 1 .. k \subseteq 1 .. n
        /\ k + 1 \notin 1 .. k
    BY <1>1
  <2>2. z = IF IsFull(file) THEN Append(w, file) ELSE w
    <3>1. after[k + 1] = IF IsFull(v[k + 1]) THEN Append(after[(k + 1) - 1], v[k + 1])
                                             ELSE after[(k + 1) - 1]
      BY <2>1, FullAmongRounds DEF after, n
    <3> QED BY <2>1, <3>1
  <2>3. w \in Vector /\ \A x : x \in ToSet(w) <=> Among(k, x)
    OBVIOUS
  <2>4. \A x : Among(k + 1, x) <=> Among(k, x) \/ (IsFull(file) /\ x = file)
    BY <2>1
  <2> HIDE DEF Right
  <2>5. \A i \in DOMAIN w : w[i].id # file.id
    <3> SUFFICES ASSUME NEW i \in DOMAIN w, w[i].id = file.id
                 PROVE  FALSE
      OBVIOUS
    <3>1. w[i] \in ToSet(w)
      BY DEF ToSet
    <3>2. PICK j \in 1 .. k : w[i] = v[j]
      BY <2>3, <3>1
    <3>3. j = k + 1
      BY <1>1, <2>1, <3>2 DEF DistinctIds
    <3> QED BY <2>1, <3>3
  <2> HIDE DEF Among, w, z, file
  <2>6. z \in Vector /\ \A x : x \in ToSet(z) <=> Among(k + 1, x)
    <3>1. CASE IsFull(file)
      <4>1. file \in Record
        BY <1>1, <2>1 DEF file
      <4>2. w \in Seq(Record) /\ DistinctIds(w)
        BY <2>3 DEF Vector
      <4>3. /\ z = Append(w, file)
            /\ z \in Seq(Record) /\ Len(w) \in Nat
            /\ DOMAIN w = 1 .. Len(w) /\ DOMAIN z = 1 .. Len(w) + 1
            /\ \A i \in 1 .. Len(w) : z[i] = w[i]
            /\ z[Len(w) + 1] = file
        BY <2>2, <3>1, <4>1, <4>2
      <4>4. DistinctIds(z)
        BY <2>5, <4>2, <4>3 DEF DistinctIds
      <4>5. ToSet(z) = ToSet(w) \cup {file}
        BY <4>3 DEF ToSet
      <4> QED BY <2>3, <2>4, <3>1, <4>3, <4>4, <4>5 DEF Vector
    <3>2. CASE ~IsFull(file)
      BY <2>2, <2>3, <2>4, <3>2
    <3> QED BY <3>1, <3>2
  <2> QED BY <2>1, <2>6 DEF Right, z
<1>4. n \in Right
  <2> HIDE DEF Right
  <2>1. 0 .. n \subseteq Right
    BY <1>1, <1>2, <1>3, LoopInduction
  <2> QED BY <1>1, <2>1
<1>5. FullRecords(v) = after[n]
  BY DEF FullRecords, after, n
<1> QED BY <1>1, <1>4, <1>5

\* The ids of the full records.
FullIds(v) == {f \in Ids(v) : Known(v, f).received = SizeInChunks(FileSize[f])}

LEMMA FullRecordsHaveFullIds ==
  ASSUME NEW v \in Vector
  PROVE  Ids(FullRecords(v)) = FullIds(v)
<1> DEFINE w == FullRecords(v)
<1>1. w \in Vector /\ \A file : file \in ToSet(w) <=>
                        \E i \in DOMAIN v : IsFull(v[i]) /\ file = v[i]
  BY FullRecordsAreThose
<1> HIDE DEF w
<1>2. Ids(w) = {file.id : file \in ToSet(w)}
  BY DEF Ids, ToSet
<1>3. ASSUME NEW i \in DOMAIN v
      PROVE  /\ v[i].id \in Ids(v) /\ Known(v, v[i].id) = v[i]
             /\ v[i].size = FileSize[v[i].id]
  BY KnownAt, VectorType DEF Ids, Record
<1>4. ASSUME NEW f \in Ids(w) PROVE f \in FullIds(v)
  <2>1. PICK i \in DOMAIN v : IsFull(v[i]) /\ f = v[i].id
    BY <1>1, <1>2
  <2> QED BY <1>3, <2>1 DEF IsFull, FullIds
<1>5. ASSUME NEW f \in FullIds(v) PROVE f \in Ids(w)
  <2>1. PICK i \in DOMAIN v : f = v[i].id
    BY DEF FullIds, Ids
  <2>2. IsFull(v[i])
    BY <1>3, <2>1 DEF IsFull, FullIds
  <2>3. v[i] \in ToSet(w)
    BY <1>1, <2>2
  <2> QED BY <1>2, <2>1, <2>3
<1> QED BY <1>4, <1>5 DEF w

LEMMA NumOfFullFilesCounts ==
  ASSUME NEW v \in Vector
  PROVE  /\ NumOfFullFiles(v) = Cardinality(FullIds(v))
         /\ NumOfFullFiles(v) \in Nat /\ NumOfFullFiles(v) < CountWidth
<1> DEFINE w == FullRecords(v)
<1>1. w \in Vector /\ Ids(w) = FullIds(v)
  BY FullRecordsAreThose, FullRecordsHaveFullIds
<1>2. NumOfFullFiles(v) = Len(w)
  BY DEF NumOfFullFiles
<1> HIDE DEF w
<1>3. Len(w) \in Nat /\ Cardinality(Ids(w)) = Len(w)
  BY <1>1, VectorCount, VectorType
<1>4. Ids(w) \subseteq File
  BY <1>1, VectorType DEF Ids
<1>5. Cardinality(Ids(w)) <= Cardinality(File) /\ Cardinality(File) \in Nat
  BY <1>4, CountAssumption, FS_Subset, FS_CardinalityType
<1> QED BY <1>1, <1>2, <1>3, <1>5, CountAssumption, WidthAssumption

\* Neither the ids, nor the sizes, nor their number are cut.
LEMMA EncodeFilesEffect ==
  ASSUME NEW v \in Vector
  PROVE  LET packet == EncodeFilesForAdv(v)
         IN  /\ RightPacket(packet)
             /\ Advertised(packet) = FullIds(v)
             /\ packet.count = Cardinality(FullIds(v))
<1> DEFINE packet == EncodeFilesForAdv(v)
           w == FullRecords(v)
           fields == [i \in DOMAIN w |-> [id |-> w[i].id % FieldWidth,
                                          size |-> w[i].size % FieldWidth]]
<1>1. w \in Vector /\ Ids(w) = FullIds(v) /\ Len(w) = Cardinality(FullIds(v))
      /\ Len(w) \in Nat /\ Len(w) < CountWidth
  BY FullRecordsAreThose, FullRecordsHaveFullIds, NumOfFullFilesCounts DEF NumOfFullFiles
<1>2. packet.count = Len(w) % CountWidth /\ packet.fields = fields
  BY DEF EncodeFilesForAdv
<1> HIDE DEF w
<1>3. Len(w) % CountWidth = Len(w)
  BY <1>1, WidthAssumption
<1>4. ASSUME NEW i \in 1 .. Len(w)
      PROVE  fields[i].id = w[i].id /\ fields[i].size = w[i].size
             /\ w[i].id \in File /\ w[i].size = FileSize[w[i].id]
  <2>1. i \in DOMAIN w /\ w[i].id \in File /\ w[i].size = FileSize[w[i].id]
    BY <1>1, VectorType DEF Record
  <2>2. ASSUME NEW x \in Nat, x < FieldWidth PROVE x % FieldWidth = x
    BY <2>2, WidthAssumption
  <2>3. w[i].id % FieldWidth = w[i].id /\ w[i].size % FieldWidth = w[i].size
    BY <2>1, <2>2, FilesHaveSizes
  <2> QED BY <2>1, <2>3
<1> HIDE DEF fields, packet
<1>5. RightPacket(packet)
  BY <1>1, <1>2, <1>3, <1>4 DEF RightPacket
<1>6. Advertised(packet) = Ids(w)
  <2>1. DOMAIN w = 1 .. Len(w)
    BY <1>1, VectorType
  <2>2. Advertised(packet) = {fields[i].id : i \in 1 .. Len(w)}
    BY <1>2, <1>3 DEF Advertised
  <2> QED BY <1>4, <2>1, <2>2 DEF Ids
<1> QED BY <1>1, <1>2, <1>3, <1>5, <1>6 DEF packet

-----------------------------------------------------------------------------
(* A chunk that is heard.                                                  *)

LEMMA AddNewChunkEffect ==
  ASSUME NEW v \in Vector, NEW s \in Node, NEW reply, reply.file \in File,
         reply.size = FileSize[reply.file],
         reply.chunk \in 0 .. SizeInChunks(FileSize[reply.file]) - 1
  PROVE  LET f == reply.file
             w == AddNewChunk(v, s, reply)
         IN  IF reply.chunk \in ChunksOf(Known(v, f))
               THEN w = v
               ELSE /\ w \in Vector /\ w # v
                    /\ Ids(w) = Ids(v) \cup {f}
                    /\ \A g \in File : Known(w, g) =
                         IF g = f THEN AddChunk(Known(v, f), reply.chunk, s)
                                  ELSE Known(v, g)
<1> DEFINE f == reply.file
           c == reply.chunk
           i == GetFileById(v, f)
           file == AddChunk(Known(v, f), c, s)
           w == AddNewChunk(v, s, reply)
<1>1. Known(v, f) \in Record /\ Known(v, f).id = f /\ Known(v, f).size = FileSize[f]
  <2>1. Known(v, f) \in Record /\ Known(v, f).id = f
    BY KnownType
  <2>2. Known(v, f).size = FileSize[Known(v, f).id]
    BY <2>1 DEF Record
  <2> QED BY <2>1, <2>2
<1>2. file \in Record /\ file.id = f /\ file.received = Known(v, f).received + 1
  <2> HIDE DEF f
  <2>1. c \in 0 .. SizeInChunks(Known(v, f).size) - 1
    BY <1>1 DEF f
  <2> QED BY <1>1, <2>1, AddChunkType
<1>3. file # Known(v, f)
  <2>1. Known(v, f).received \in Nat
    BY <1>1 DEF Record
  <2> HIDE DEF f, file
  <2> QED BY <1>2, <2>1
<1>4. c + 1 \in DOMAIN Known(v, f).chunks
      /\ (c \in ChunksOf(Known(v, f)) <=> Known(v, f).chunks[c + 1])
  <2> DEFINE map == Known(v, f).chunks
  <2>1. map \in Seq(BOOLEAN) /\ Len(map) = SizeInChunks(FileSize[f])
    BY <1>1 DEF Record
  <2>2. SizeInChunks(FileSize[f]) \in Nat /\ c \in 0 .. SizeInChunks(FileSize[f]) - 1
    BY FilesHaveSizes
  <2>3. ChunksOf(Known(v, f)) = {j - 1 : j \in {k \in DOMAIN map : map[k]}}
    BY DEF ChunksOf
  <2> HIDE DEF map, f, c
  <2>4. DOMAIN map = 1 .. Len(map)
    BY <2>1
  <2>5. c + 1 \in DOMAIN map /\ (c + 1) - 1 = c
    BY <2>1, <2>2, <2>4
  <2>6. \A j \in DOMAIN map : j - 1 = c => j = c + 1
    BY <2>1, <2>2, <2>4
  <2>7. c \in ChunksOf(Known(v, f)) <=> map[c + 1]
    <3>1. ASSUME map[c + 1] PROVE c \in ChunksOf(Known(v, f))
      BY <2>3, <2>5, <3>1
    <3>2. ASSUME c \in ChunksOf(Known(v, f)) PROVE map[c + 1]
      <4>1. PICK j \in {k \in DOMAIN map : map[k]} : c = j - 1
        BY <2>3, <3>2
      <4> QED BY <2>6, <4>1
    <3> QED BY <3>1, <3>2
  <2> QED BY <2>5, <2>7 DEF map
<1>5. CASE i = 0
  <2>1. f \notin Ids(v) /\ Known(v, f) = NewFile(reply.file, reply.size, FALSE)
    BY <1>5, FindsTheRecord, VectorType DEF Known
  <2>2. ~Known(v, f).chunks[c + 1]
    <3>1. Known(v, f).chunks = [k \in 1 .. SizeInChunks(reply.size) |-> FALSE]
      BY <2>1 DEF NewFile
    <3> HIDE DEF f, c
    <3> QED BY <1>4, <3>1
  <2>3. w = Put(v, f, file)
    BY <1>5, <2>1 DEF AddNewChunk, Put
  <2>4. /\ w \in Vector /\ Ids(w) = Ids(v) \cup {f}
        /\ \A g \in File : Known(w, g) = IF g = f THEN file ELSE Known(v, g)
    BY <1>2, <2>3, PutType
  <2>5. c \notin ChunksOf(Known(v, f)) /\ w # v
    BY <1>4, <2>1, <2>2, <2>4
  <2> QED BY <2>4, <2>5
<1>6. CASE i # 0
  <2>1. Known(v, f) = v[i] /\ i \in DOMAIN v
    BY <1>6, FindsTheRecord DEF Known
  <2>2. CASE ~v[i].chunks[c + 1]
    <3>1. w = Put(v, f, file)
      <4>1. w = [v EXCEPT ![i] = AddChunk(v[i], c, s)]
        BY <1>6, <2>1, <2>2 DEF AddNewChunk
      <4>2. Put(v, f, file) = [v EXCEPT ![i] = file]
        BY <1>6 DEF Put
      <4> QED BY <2>1, <4>1, <4>2
    <3>2. Known(Put(v, f, file), f) = file
      BY <1>1, <1>2, PutType
    <3>3. w # v
      BY <1>3, <3>1, <3>2
    <3> QED BY <1>2, <1>4, <2>1, <2>2, <3>1, <3>3, PutType
  <2>3. CASE v[i].chunks[c + 1]
    <3>1. w = v
      BY <1>6, <2>3 DEF AddNewChunk
    <3> QED BY <1>4, <2>1, <2>3, <3>1
  <2> QED BY <2>2, <2>3
<1> QED BY <1>5, <1>6

-----------------------------------------------------------------------------
(* The inductive invariant.                                                *)

\* An advertisement also raises the maximum of its sender, but that covers the
\* sender's own files already.
MaximumCoversFullFiles ==
  \A n \in Node : NumOfFullFiles(files[n]) <= maximum_full_files_seen[n]

VecInv ==
  /\ files \in [Node -> Vector]
  /\ seen_nodes \in [Node -> Seq(Node)]
  /\ \A n \in Node : IsInjective(seen_nodes[n])
  /\ maximum_full_files_seen \in [Node -> Nat]
  /\ MaximumCoversFullFiles

LEMMA LargerBounds ==
  ASSUME NEW a \in Nat, NEW b \in Nat
  PROVE  /\ Larger(a, b) \in Nat /\ Larger(a, b) >= a /\ Larger(a, b) >= b
         /\ b <= a => Larger(a, b) = a
BY DEF Larger

\* Records made or noted by an advertisement do not become full by it.
LEMMA DecodingCompletesNothing ==
  ASSUME NEW v \in Vector, NEW w \in Vector, NEW s \in Node, NEW new \in SUBSET File,
         Ids(w) = Ids(v) \cup new,
         \A g \in File : Known(w, g) =
            IF g \in new THEN AddHolder(Known(v, g), s) ELSE Known(v, g)
  PROVE  FullIds(w) = FullIds(v)
<1>1. Ids(v) \subseteq File
  BY VectorType DEF Ids
<1>2. ASSUME NEW g \in File
      PROVE  Known(w, g).received = Known(v, g).received
  <2>1. Known(v, g) \in Record
    BY KnownType
  <2>2. AddHolder(Known(v, g), s).received = Known(v, g).received
    <3>1. AddHolder(Known(v, g), s) =
            [Known(v, g) EXCEPT !.holders = AddNode(Known(v, g).holders, s)]
      BY <2>1, AddHolderType
    <3> QED BY <2>1, <3>1 DEF Record
  <2> QED BY <2>2
<1>3. ASSUME NEW g \in File, g \notin Ids(v)
      PROVE  Known(v, g).received # SizeInChunks(FileSize[g])
  <2>1. Known(v, g) = NewFile(g, FileSize[g], FALSE)
    BY <1>3, KnownType
  <2>2. Known(v, g).received = 0
    BY <2>1 DEF NewFile
  <2> QED BY <2>2, FilesHaveSizes
<1> QED BY <1>1, <1>2, <1>3 DEF FullIds

\* What an advertisement of s changes at n.
AdvertisementNoted(n, s, w) ==
  /\ w \in Vector
  /\ Ids(w) = Ids(files[n]) \cup FullIds(files[s])
  /\ \A g \in File : Known(w, g) =
       IF g \in FullIds(files[s]) THEN AddHolder(Known(files[n], g), s)
                                  ELSE Known(files[n], g)
  /\ FullIds(w) = FullIds(files[n])
  /\ files' = [files EXCEPT ![n] = w]
  /\ seen_nodes' = [seen_nodes EXCEPT ![n] = AddNode(seen_nodes[n], s)]
  /\ maximum_full_files_seen' = [maximum_full_files_seen EXCEPT
       ![n] = Larger(maximum_full_files_seen[n], Cardinality(FullIds(files[s])))]

LEMMA HearAdvertisementEffect ==
  ASSUME VecInv, NEW n \in Node, NEW s \in Node \ {n}, HearAdvertisement(n, s)
  PROVE  \E w : AdvertisementNoted(n, s, w)
<1> DEFINE v == files[n]
           packet == EncodeFilesForAdv(files[s])
           w == DecodeFilesForAdv(v, s, packet)
           full == FullIds(files[s])
<1>1. /\ v \in Vector /\ files[s] \in Vector
      /\ maximum_full_files_seen \in [Node -> Nat]
      /\ NumOfFullFiles(files[s]) <= maximum_full_files_seen[s]
  BY DEF VecInv, MaximumCoversFullFiles
<1>2. /\ files' = [files EXCEPT ![n] = w]
      /\ seen_nodes' = [seen_nodes EXCEPT ![n] = AddNode(seen_nodes[n], s)]
      /\ maximum_full_files_seen' = [maximum_full_files_seen EXCEPT
           ![s] = Larger(maximum_full_files_seen[s], NumOfFullFiles(files[s])),
           ![n] = Larger(maximum_full_files_seen[n], packet.count)]
  BY DEF HearAdvertisement, VecInv
<1>3. RightPacket(packet) /\ Advertised(packet) = full
      /\ packet.count = Cardinality(full)
  BY <1>1, EncodeFilesEffect
<1>4. NumOfFullFiles(files[s]) \in Nat
  BY <1>1, NumOfFullFilesCounts
<1>5. Larger(maximum_full_files_seen[s], NumOfFullFiles(files[s]))
        = maximum_full_files_seen[s]
  BY <1>1, <1>4, LargerBounds
<1>6. maximum_full_files_seen' = [maximum_full_files_seen EXCEPT
        ![n] = Larger(maximum_full_files_seen[n], Cardinality(full))]
  <2> DEFINE most == Larger(maximum_full_files_seen[n], Cardinality(full))
  <2> HIDE DEF most, packet
  <2>1. maximum_full_files_seen' = [maximum_full_files_seen EXCEPT
           ![s] = maximum_full_files_seen[s], ![n] = most]
    BY <1>2, <1>3, <1>5 DEF most
  <2> QED BY <1>1, <2>1 DEF most
<1> HIDE DEF packet, v
<1>7. /\ w \in Vector
      /\ Ids(w) = Ids(v) \cup full
      /\ \A g \in File : Known(w, g) =
           IF g \in full THEN AddHolder(Known(v, g), s) ELSE Known(v, g)
  BY <1>1, <1>3, DecodeFilesEffect
<1>8. full \in SUBSET File
  BY <1>1, VectorType DEF FullIds, Ids
<1> HIDE DEF w, full
<1>9. FullIds(w) = FullIds(v)
  BY <1>1, <1>7, <1>8, DecodingCompletesNothing
<1>10. AdvertisementNoted(n, s, w)
  BY <1>2, <1>6, <1>7, <1>9 DEF AdvertisementNoted, v, full
<1> QED BY <1>10

\* What chunk c of f, heard from s, changes at n.
ChunkNoted(n, s, f, c, w) ==
  /\ w \in Vector
  /\ Ids(w) = Ids(files[n]) \cup {f}
  /\ \A g \in File : Known(w, g) =
       IF g = f THEN AddChunk(Known(files[n], f), c, s) ELSE Known(files[n], g)
  /\ files' = [files EXCEPT ![n] = w]
  /\ maximum_full_files_seen' = [maximum_full_files_seen EXCEPT
       ![n] = Larger(maximum_full_files_seen[n], NumOfFullFiles(w))]

LEMMA HearReplyEffect ==
  ASSUME VecInv, NEW n \in Node, NEW s \in Node \ {n}, HearReply(n, s)
  PROVE  /\ seen_nodes' = seen_nodes
         /\ \E f \in FullIds(files[s]) : \E c \in 0 .. SizeInChunks(FileSize[f]) - 1 :
              IF c \in ChunksOf(Known(files[n], f))
                THEN UNCHANGED <<files, maximum_full_files_seen>>
                ELSE \E w : ChunkNoted(n, s, f, c, w)
<1>1. /\ files \in [Node -> Vector] /\ files[n] \in Vector /\ files[s] \in Vector
      /\ maximum_full_files_seen \in [Node -> Nat]
  BY DEF VecInv
<1>2. PICK i \in DOMAIN files[s] : \E c \in 0 .. SizeInChunks(files[s][i].size) - 1 :
        /\ IsFull(files[s][i])
        /\ files' = [files EXCEPT ![n] = AddNewChunk(@, s,
             [file |-> files[s][i].id, size |-> files[s][i].size, chunk |-> c])]
        /\ maximum_full_files_seen' = [maximum_full_files_seen EXCEPT ![n] =
             IF files'[n] = files[n] THEN @ ELSE Larger(@, NumOfFullFiles(files'[n]))]
        /\ seen_nodes' = seen_nodes
  BY DEF HearReply
<1> DEFINE f == files[s][i].id
<1>3. files[s][i].size = FileSize[f] /\ f \in File
  BY <1>1, VectorType DEF Record
<1>4. PICK c \in 0 .. SizeInChunks(FileSize[f]) - 1 :
        /\ IsFull(files[s][i])
        /\ files' = [files EXCEPT ![n] = AddNewChunk(files[n], s,
             [file |-> f, size |-> FileSize[f], chunk |-> c])]
        /\ maximum_full_files_seen' = [maximum_full_files_seen EXCEPT ![n] =
             IF files'[n] = files[n] THEN maximum_full_files_seen[n]
             ELSE Larger(maximum_full_files_seen[n], NumOfFullFiles(files'[n]))]
        /\ seen_nodes' = seen_nodes
  BY <1>1, <1>2, <1>3
<1>5. f \in FullIds(files[s])
  <2>1. f \in Ids(files[s]) /\ Known(files[s], f) = files[s][i]
    BY <1>1, KnownAt DEF Ids
  <2> QED BY <1>3, <1>4, <2>1 DEF FullIds, IsFull
<1> DEFINE v == files[n]
           reply == [file |-> f, size |-> FileSize[f], chunk |-> c]
           w == AddNewChunk(v, s, reply)
<1>6. files' = [files EXCEPT ![n] = w] /\ files'[n] = w
  BY <1>1, <1>4
<1>7. reply.file = f /\ reply.size = FileSize[f] /\ reply.chunk = c
  OBVIOUS
<1> HIDE DEF f, reply
<1>8. IF c \in ChunksOf(Known(v, f))
        THEN w = v
        ELSE /\ w \in Vector /\ w # v
             /\ Ids(w) = Ids(v) \cup {f}
             /\ \A g \in File : Known(w, g) =
                  IF g = f THEN AddChunk(Known(v, f), c, s) ELSE Known(v, g)
  <2> HIDE DEF v
  <2>1. v \in Vector
    BY <1>1 DEF v
  <2> QED BY <1>3, <1>7, <2>1, AddNewChunkEffect
<1>9. CASE c \in ChunksOf(Known(v, f))
  <2>1. files'[n] = files[n] /\ files' = [files EXCEPT ![n] = files[n]]
    BY <1>6, <1>8, <1>9
  <2>2. files' = files
    BY <1>1, <2>1
  <2>3. maximum_full_files_seen' =
          [maximum_full_files_seen EXCEPT ![n] = maximum_full_files_seen[n]]
    BY <1>4, <2>1
  <2>4. maximum_full_files_seen' = maximum_full_files_seen
    BY <1>1, <2>3
  <2> QED BY <1>4, <1>5, <1>9, <2>2, <2>4
<1>10. CASE c \notin ChunksOf(Known(v, f))
  <2>1. files'[n] # files[n]
    BY <1>6, <1>8, <1>10
  <2>2. maximum_full_files_seen' = [maximum_full_files_seen EXCEPT
          ![n] = Larger(maximum_full_files_seen[n], NumOfFullFiles(w))]
    BY <1>4, <1>6, <2>1
  <2>3. ChunkNoted(n, s, f, c, w)
    BY <1>6, <1>8, <1>10, <2>2 DEF ChunkNoted
  <2> QED BY <1>4, <1>5, <1>10, <2>3
<1> QED BY <1>9, <1>10

LEMMA InitVecInv == Init => VecInv
<1> SUFFICES ASSUME Init PROVE VecInv
  OBVIOUS
<1>1. PICK lists \in InitialLists :
        /\ files = [n \in Node |-> [i \in DOMAIN lists[n] |->
                      NewFile(lists[n][i], FileSize[lists[n][i]], TRUE)]]
        /\ maximum_full_files_seen = [n \in Node |-> Len(lists[n])]
        /\ seen_nodes = [n \in Node |-> <<>>]
  BY DEF Init
<1>2. ASSUME NEW n \in Node
      PROVE  /\ files[n] \in Vector
             /\ NumOfFullFiles(files[n]) <= maximum_full_files_seen[n]
             /\ maximum_full_files_seen[n] \in Nat
  <2> DEFINE list == lists[n]
             v == files[n]
  <2>1. list \in Seq(File) /\ IsInjective(list)
    BY ListsAssumption
  <2>2. v = [i \in DOMAIN list |-> NewFile(list[i], FileSize[list[i]], TRUE)]
        /\ maximum_full_files_seen[n] = Len(list)
    BY <1>1
  <2> HIDE DEF list, v
  <2>3. DOMAIN list = 1 .. Len(list) /\ Len(list) \in Nat
        /\ \A i \in DOMAIN list : list[i] \in File
    BY <2>1
  <2>4. ASSUME NEW i \in 1 .. Len(list)
        PROVE  v[i] \in Record /\ v[i].id = list[i]
    BY <2>2, <2>3, NewFileType
  <2>5. v \in Seq(Record) /\ Len(v) = Len(list) /\ DOMAIN v = 1 .. Len(list)
    <3>1. v \in [1 .. Len(list) -> Record]
      BY <2>2, <2>3, <2>4
    <3> QED BY <2>3, <3>1
  <2>6. DistinctIds(v)
    BY <2>1, <2>3, <2>4, <2>5 DEF DistinctIds, IsInjective
  <2>7. v \in Vector
    BY <2>5, <2>6 DEF Vector
  <2>8. IsFiniteSet(Ids(v)) /\ Cardinality(Ids(v)) = Len(list)
    BY <2>5, <2>7, VectorCount
  <2>9. FullIds(v) \in SUBSET Ids(v)
    BY DEF FullIds
  <2>10. Cardinality(FullIds(v)) <= Len(list)
    BY <2>8, <2>9, FS_Subset
  <2>11. NumOfFullFiles(v) = Cardinality(FullIds(v))
    BY <2>7, NumOfFullFilesCounts
  <2> QED BY <2>2, <2>3, <2>7, <2>10, <2>11 DEF v
<1>3. files \in [Node -> Vector] /\ maximum_full_files_seen \in [Node -> Nat]
  BY <1>1, <1>2
<1>4. \A n \in Node : seen_nodes[n] \in Seq(Node) /\ IsInjective(seen_nodes[n])
  BY <1>1 DEF IsInjective
<1>5. seen_nodes \in [Node -> Seq(Node)]
  BY <1>1, <1>4
<1> QED BY <1>2, <1>3, <1>4, <1>5 DEF VecInv, MaximumCoversFullFiles

LEMMA VecInvIsInductive == VecInv /\ [Next]_vars => VecInv'
<1> SUFFICES ASSUME VecInv, [Next]_vars PROVE VecInv'
  OBVIOUS
<1>1. CASE UNCHANGED vars
  BY <1>1 DEF vars, VecInv, MaximumCoversFullFiles
<1>2. ASSUME NEW n \in Node, NEW s \in Node \ {n}, HearAdvertisement(n, s)
      PROVE  VecInv'
  <2>1. PICK w : AdvertisementNoted(n, s, w)
    BY <1>2, HearAdvertisementEffect
  <2>2. /\ files \in [Node -> Vector] /\ seen_nodes \in [Node -> Seq(Node)]
        /\ maximum_full_files_seen \in [Node -> Nat]
        /\ \A m \in Node : IsInjective(seen_nodes[m])
    BY DEF VecInv
  <2>3. NumOfFullFiles(w) = NumOfFullFiles(files[n])
    <3>1. w \in Vector /\ files[n] \in Vector /\ FullIds(w) = FullIds(files[n])
      BY <2>1, <2>2 DEF AdvertisementNoted
    <3> QED BY <3>1, NumOfFullFilesCounts
  <2>4. /\ NumOfFullFiles(files[n]) \in Nat
        /\ Cardinality(FullIds(files[s])) \in Nat
    BY <2>2, NumOfFullFilesCounts
  <2>5. files' \in [Node -> Vector]
    BY <2>1, <2>2 DEF AdvertisementNoted
  <2>6. /\ seen_nodes' \in [Node -> Seq(Node)]
        /\ \A m \in Node : IsInjective(seen_nodes'[m])
    <3>1. AddNode(seen_nodes[n], s) \in Seq(Node)
          /\ IsInjective(AddNode(seen_nodes[n], s))
      BY <2>2, AddNodeType
    <3> QED BY <2>1, <2>2, <3>1 DEF AdvertisementNoted
  <2> DEFINE most == Larger(maximum_full_files_seen[n], Cardinality(FullIds(files[s])))
  <2>7. most \in Nat /\ most >= maximum_full_files_seen[n]
    BY <2>2, <2>4, LargerBounds
  <2>8. maximum_full_files_seen' = [maximum_full_files_seen EXCEPT ![n] = most]
    BY <2>1 DEF AdvertisementNoted
  <2> HIDE DEF most
  <2>9. maximum_full_files_seen' \in [Node -> Nat]
    BY <2>2, <2>7, <2>8
  <2>10. ASSUME NEW m \in Node
         PROVE  NumOfFullFiles(files'[m]) <= maximum_full_files_seen'[m]
    <3>1. NumOfFullFiles(files[m]) <= maximum_full_files_seen[m]
      BY DEF VecInv, MaximumCoversFullFiles
    <3>2. CASE m = n
      <4>1. files'[m] = w /\ maximum_full_files_seen'[m] = most
        BY <2>1, <2>2, <2>8, <3>2 DEF AdvertisementNoted
      <4>2. maximum_full_files_seen[n] \in Nat
        BY <2>2
      <4> QED BY <2>3, <2>4, <2>7, <3>1, <3>2, <4>1, <4>2
    <3>3. CASE m # n
      <4>1. files'[m] = files[m] /\ maximum_full_files_seen'[m] = maximum_full_files_seen[m]
        BY <2>1, <2>2, <2>8, <3>3 DEF AdvertisementNoted
      <4> QED BY <3>1, <4>1
    <3> QED BY <3>2, <3>3
  <2> QED BY <2>5, <2>6, <2>9, <2>10 DEF VecInv, MaximumCoversFullFiles
<1>3. ASSUME NEW n \in Node, NEW s \in Node \ {n}, HearReply(n, s)
      PROVE  VecInv'
  <2>1. /\ seen_nodes' = seen_nodes
        /\ \/ UNCHANGED <<files, maximum_full_files_seen>>
           \/ \E f, c, w : ChunkNoted(n, s, f, c, w)
    BY <1>3, HearReplyEffect
  <2>2. CASE UNCHANGED <<files, maximum_full_files_seen>>
    BY <2>1, <2>2 DEF VecInv, MaximumCoversFullFiles
  <2>3. CASE \E f, c, w : ChunkNoted(n, s, f, c, w)
    <3>1. PICK f, c, w : ChunkNoted(n, s, f, c, w)
      BY <2>3
    <3>2. files \in [Node -> Vector] /\ maximum_full_files_seen \in [Node -> Nat]
      BY DEF VecInv
    <3>3. w \in Vector /\ files' = [files EXCEPT ![n] = w]
      BY <3>1 DEF ChunkNoted
    <3> DEFINE most == Larger(maximum_full_files_seen[n], NumOfFullFiles(w))
    <3>4. most \in Nat /\ most >= NumOfFullFiles(w)
      BY <3>2, <3>3, NumOfFullFilesCounts, LargerBounds
    <3>5. maximum_full_files_seen' = [maximum_full_files_seen EXCEPT ![n] = most]
      BY <3>1 DEF ChunkNoted
    <3> HIDE DEF most
    <3>6. \A m \in Node : NumOfFullFiles(files'[m]) <= maximum_full_files_seen'[m]
      BY <3>2, <3>3, <3>4, <3>5 DEF VecInv, MaximumCoversFullFiles
    <3> QED BY <2>1, <3>2, <3>3, <3>4, <3>5, <3>6 DEF VecInv, MaximumCoversFullFiles
  <2> QED BY <2>1, <2>2, <2>3
<1> QED BY <1>1, <1>2, <1>3 DEF Next

LEMMA VecInvHolds == Spec => []VecInv
<1>1. Init => VecInv
  BY InitVecInv
<1>2. VecInv /\ [Next]_vars => VecInv'
  BY VecInvIsInductive
<1> QED BY <1>1, <1>2, PTL DEF Spec

-----------------------------------------------------------------------------
(* The invariants.                                                         *)

\* In whatever order advertisements and overheard replies make and change
\* records, a node has one record per file and lists every node once, in its
\* own list and in those of its records (sms-echo-client.cc:103-133, 247-263).
THEOREM ListsHaveNoDuplicates == Spec => []NothingIsListedTwice
<1>1. VecInv => NothingIsListedTwice
  <2> SUFFICES ASSUME VecInv, NEW n \in Node
               PROVE  /\ Cardinality(Ids(files[n])) = Len(files[n])
                      /\ IsInjective(seen_nodes[n])
                      /\ \A i \in DOMAIN files[n] : IsInjective(files[n][i].holders)
    BY DEF NothingIsListedTwice
  <2>1. files[n] \in Vector /\ IsInjective(seen_nodes[n])
    BY DEF VecInv
  <2> QED BY <2>1, VectorCount, VectorType DEF Record
<1> QED BY <1>1, VecInvHolds, PTL

\* A record has the id, the size and the bitmap of a file of the catalogue,
\* whether an advertisement with its 16 bits or a reply with its 32 announced
\* it (sms-echo-client.cc:144-157, 231-232, 239-246).
THEOREM RecordsAreRight == Spec => []RecordsFitTheirFile
<1>1. VecInv => RecordsFitTheirFile
  <2> SUFFICES ASSUME VecInv, NEW n \in Node, NEW i \in DOMAIN files[n]
               PROVE  /\ files[n][i].id \in File
                      /\ files[n][i].size = FileSize[files[n][i].id]
                      /\ DOMAIN files[n][i].chunks = 1 .. SizeInChunks(files[n][i].size)
    BY DEF RecordsFitTheirFile
  <2>1. files[n][i] \in Record
    BY VectorType DEF VecInv
  <2> QED BY <2>1 DEF Record
<1> QED BY <1>1, VecInvHolds, PTL

-----------------------------------------------------------------------------
(* The first loop of getFileToRequest.                                     *)

LEMMA CollectType ==
  ASSUME NEW best \in Seq(Record), NEW file \in Record, NEW s
  PROVE  Collect(best, file, s) \in Seq(Record)
<1>1. <<file>> \in Seq(Record) /\ Append(best, file) \in Seq(Record)
  OBVIOUS
<1> QED BY <1>1 DEF Collect

LEMMA CollectedRounds ==
  ASSUME NEW v \in Vector, NEW s
  PROVE  /\ CollectedAfter(v, s)[0] = <<>>
         /\ \A k \in 1 .. Len(v) :
              CollectedAfter(v, s)[k] = Collect(CollectedAfter(v, s)[k - 1], v[k], s)
<1> DEFINE n == Len(v)
           X == Seq(Record)
           F == [k \in 1 .. n |-> [x \in X |-> Collect(x, v[k], s)]]
           after == CHOOSE g : g = [k \in 0 .. n |->
                      IF k = 0 THEN <<>> ELSE Collect(g[k - 1], v[k], s)]
<1>1. n \in Nat /\ \A k \in 1 .. n : v[k] \in Record
  BY VectorType
<1>2. CollectedAfter(v, s) = after
  BY DEF CollectedAfter
<1> HIDE DEF n
<1>3. PICK g \in [0 .. n -> X] :
        g[0] = <<>> /\ \A k \in 1 .. n : g[k] = F[k][g[k - 1]]
  <2>1. \A x \in X : \A k \in 1 .. n : F[k][x] \in X
    BY <1>1, CollectType
  <2>2. n \in Nat /\ <<>> \in X
    BY <1>1
  <2> HIDE DEF F, X, after
  <2>3. LoopStates(n, X, <<>>, F) # {}
    BY <2>1, <2>2, LoopHasStates
  <2> QED BY <2>3 DEF LoopStates
<1>4. ASSUME NEW k \in 0 .. n
      PROVE  g[k] = IF k = 0 THEN <<>> ELSE Collect(g[k - 1], v[k], s)
  <2>1. CASE k # 0
    <3>1. k \in 1 .. n /\ g[k - 1] \in X
      BY <1>1, <2>1
    <3> HIDE DEF X, after
    <3> QED BY <1>3, <2>1, <3>1
  <2> QED BY <1>3, <2>1
<1> HIDE DEF F
<1>5. g = [k \in 0 .. n |-> IF k = 0 THEN <<>> ELSE Collect(g[k - 1], v[k], s)]
  BY <1>4
<1>6. after = [k \in 0 .. n |->
                 IF k = 0 THEN <<>> ELSE Collect(after[k - 1], v[k], s)]
  BY <1>5
<1> HIDE DEF after
<1>7. after[0] = <<>>
  BY <1>1, <1>6
<1>8. ASSUME NEW k \in 1 .. n
      PROVE  after[k] = Collect(after[k - 1], v[k], s)
  <2>1. k \in 0 .. n /\ k # 0
    BY <1>1
  <2> QED BY <1>6, <2>1
<1> QED BY <1>2, <1>7, <1>8 DEF n

\* Files that s is asked for, and those of a set that miss the fewest chunks.
MayAsk(file, s) == ~IsFull(file) /\ Contains(file.holders, s)

Fewest(S) ==
  {file \in S : \A other \in S : NumOfMissingChunks(file) <= NumOfMissingChunks(other)}

\* The list holds the files of S that miss the fewest chunks.
HoldsFewest(best, S) ==
  /\ best \in Seq(Record)
  /\ ToSet(best) = Fewest(S)
  /\ best = <<>> <=> S = {}

\* S, and file if s may be asked for it.
WithFile(S, file, s) == IF MayAsk(file, s) THEN S \cup {file} ELSE S

\* One round keeps the list equal to the files with the fewest chunks missing.
LEMMA CollectKeepsFewest ==
  ASSUME NEW S \in SUBSET Record, NEW file \in Record, NEW s, NEW best,
         HoldsFewest(best, S)
  PROVE  HoldsFewest(Collect(best, file, s), WithFile(S, file, s))
<1>0. /\ best \in Seq(Record) /\ ToSet(best) = Fewest(S)
      /\ best = <<>> <=> S = {}
  BY DEF HoldsFewest
<1> DEFINE new == Collect(best, file, s)
<1>1. new \in Seq(Record)
  BY <1>0, CollectType
<1>2. ASSUME NEW x \in Record PROVE NumOfMissingChunks(x) \in Int
  <2>1. x.id \in File /\ x.size = FileSize[x.id] /\ x.received \in Nat
    BY DEF Record
  <2>2. SizeInChunks(x.size) \in Nat
    BY <2>1, FilesHaveSizes
  <2> QED BY <2>1, <2>2 DEF NumOfMissingChunks
<1>3. CASE ~MayAsk(file, s)
  <2>1. new = best
    BY <1>3 DEF Collect, MayAsk
  <2> QED BY <1>0, <1>3, <2>1 DEF HoldsFewest, WithFile
<1>4. CASE MayAsk(file, s)
  <2> DEFINE T == S \cup {file}
  <2>1. CASE best = <<>>
    <3>1. new = <<file>>
      BY <1>4, <2>1 DEF Collect, MayAsk
    <3>2. T = {file}
      BY <1>0, <2>1
    <3>3. ToSet(<<file>>) = {file}
      BY DEF ToSet
    <3>4. Fewest({file}) = {file}
      BY <1>2 DEF Fewest
    <3>5. <<file>> # <<>>
      OBVIOUS
    <3> HIDE DEF new, T
    <3>6. ToSet(new) = Fewest(T)
      BY <3>1, <3>2, <3>3, <3>4
    <3>7. new # <<>> /\ T # {}
      BY <3>1, <3>2, <3>5
    <3>8. HoldsFewest(new, T)
      BY <1>1, <3>6, <3>7 DEF HoldsFewest
    <3> QED BY <1>4, <3>8 DEF new, T, WithFile
  <2>2. CASE best # <<>>
    <3> DEFINE last == Last(best)
               a == NumOfMissingChunks(file)
               b == NumOfMissingChunks(last)
    <3>1. last \in ToSet(best)
      <4>1. Len(best) \in DOMAIN best
        BY <1>0, <2>2
      <4> QED BY <4>1 DEF Last, ToSet
    <3>2. last \in Fewest(S) /\ last \in S
      BY <1>0, <3>1 DEF Fewest
    <3>3. a \in Int /\ b \in Int /\ \A x \in S : NumOfMissingChunks(x) \in Int
      BY <1>2, <3>2
    <3>4. new = IF a < b THEN <<file>>
                ELSE IF a = b THEN Append(best, file) ELSE best
      BY <1>4, <2>2 DEF Collect, MayAsk
    <3>5. \A x \in S : b <= NumOfMissingChunks(x)
      BY <3>2 DEF Fewest
    <3>6. \A x \in S : x \in Fewest(S) <=> NumOfMissingChunks(x) = b
      BY <3>2, <3>3, <3>5 DEF Fewest
    <3>7. new # <<>> /\ T # {}
      BY <1>0, <1>1, <2>2, <3>4
    <3> HIDE DEF last, new
    <3>8. ToSet(new) = Fewest(T)
      <4>1. CASE a < b
        <5>1. ToSet(new) = {file}
          BY <3>4, <4>1 DEF ToSet
        <5>2. \A x \in S : a < NumOfMissingChunks(x)
          BY <3>3, <3>5, <4>1
        <5>3. Fewest(T) = {file}
          <6> HIDE DEF b
          <6>1. \A x \in S : ~(NumOfMissingChunks(x) <= a)
            BY <3>3, <5>2
          <6>2. \A x \in S : a <= NumOfMissingChunks(x)
            BY <3>3, <5>2
          <6>3. a <= a
            BY <3>3
          <6> QED BY <6>1, <6>2, <6>3 DEF Fewest
        <5> QED BY <5>1, <5>3
      <4>2. CASE a = b
        <5>1. ToSet(new) = ToSet(best) \cup {file}
          <6>1. new = Append(best, file)
            BY <3>3, <3>4, <4>2
          <6>2. /\ DOMAIN new = 1 .. Len(best) + 1 /\ DOMAIN best = 1 .. Len(best)
                /\ \A i \in 1 .. Len(best) : new[i] = best[i]
                /\ new[Len(best) + 1] = file /\ Len(best) \in Nat
            BY <1>0, <6>1
          <6> QED BY <6>2 DEF ToSet
        <5>2. \A x \in T : a <= NumOfMissingChunks(x)
          BY <3>3, <3>5, <4>2
        <5>3. \A x \in T : x \in Fewest(T) <=> NumOfMissingChunks(x) = a
          <6> HIDE DEF b
          <6>1. \A x \in T : NumOfMissingChunks(x) \in Int
            BY <3>3
          <6>2. ASSUME NEW x \in T, x \in Fewest(T) PROVE NumOfMissingChunks(x) = a
            <7>1. NumOfMissingChunks(x) <= a
              BY <6>2 DEF Fewest
            <7> QED BY <3>3, <5>2, <6>1, <7>1
          <6>3. ASSUME NEW x \in T, NumOfMissingChunks(x) = a PROVE x \in Fewest(T)
            BY <5>2, <6>3 DEF Fewest
          <6> QED BY <6>2, <6>3
        <5>4. ASSUME NEW x \in S \cup {file}
              PROVE  x \in Fewest(T) <=> x \in Fewest(S) \cup {file}
          BY <3>6, <4>2, <5>3
        <5>5. Fewest(T) \subseteq T /\ Fewest(S) \subseteq S
          BY DEF Fewest
        <5> QED BY <1>0, <5>1, <5>4, <5>5
      <4>3. CASE ~(a < b) /\ a # b
        <5>1. new = best
          BY <3>4, <4>3
        <5>2. b < a
          BY <3>3, <4>3
        <5>3. file \notin Fewest(T) /\ file \notin Fewest(S)
          <6>1. last \in T /\ last \in S /\ ~(a <= b)
            BY <3>2, <3>3, <5>2
          <6> QED BY <6>1 DEF Fewest
        <5>4. ASSUME NEW x \in S PROVE x \in Fewest(T) <=> x \in Fewest(S)
          <6>1. x \in Fewest(S) => NumOfMissingChunks(x) <= a
            BY <3>3, <3>6, <5>2
          <6> QED BY <6>1 DEF Fewest
        <5>5. Fewest(T) \subseteq T /\ Fewest(S) \subseteq S
          BY DEF Fewest
        <5>6. Fewest(T) = Fewest(S)
          <6> HIDE DEF a, b
          <6> QED BY <5>3, <5>4, <5>5
        <5> QED BY <1>0, <5>1, <5>6
      <4> QED BY <4>1, <4>2, <4>3
    <3> HIDE DEF T
    <3>9. HoldsFewest(new, T)
      BY <1>1, <3>7, <3>8 DEF HoldsFewest
    <3> QED BY <1>4, <3>9 DEF new, T, WithFile
  <2> QED BY <2>1, <2>2
<1> QED BY <1>3, <1>4

\* The files n may ask s for, in its vector v.
Candidates(v, s, k) == {v[i] : i \in {j \in 1 .. k : MayAsk(v[j], s)}}

LEMMA CollectedAreFewest ==
  ASSUME NEW v \in Vector, NEW s
  PROVE  HoldsFewest(CollectedAfter(v, s)[Len(v)], Candidates(v, s, Len(v)))
<1> DEFINE n == Len(v)
           after == CollectedAfter(v, s)
           Right == {k \in 0 .. n : HoldsFewest(after[k], Candidates(v, s, k))}
<1>1. n \in Nat /\ \A i \in 1 .. n : v[i] \in Record
  BY VectorType
<1> HIDE DEF n, after
<1>2. 0 \in Right
  <2>1. after[0] = <<>>
    BY CollectedRounds DEF after
  <2>2. Candidates(v, s, 0) = {} /\ Fewest({}) = {} /\ ToSet(<<>>) = {}
    <3>1. 1 .. 0 = {}
      OBVIOUS
    <3> QED BY <3>1 DEF Candidates, Fewest, ToSet
  <2>3. <<>> \in Seq(Record)
    OBVIOUS
  <2>4. HoldsFewest(after[0], Candidates(v, s, 0))
    BY <2>1, <2>2, <2>3 DEF HoldsFewest
  <2> QED BY <1>1, <2>4
<1>3. \A k \in 0 .. n - 1 : k \in Right => k + 1 \in Right
  <2> SUFFICES ASSUME NEW k \in 0 .. n - 1, k \in Right
               PROVE  k + 1 \in Right
    OBVIOUS
  <2> DEFINE S == Candidates(v, s, k)
             file == v[k + 1]
             best == after[k]
  <2>1. k + 1 \in 1 .. n /\ k + 1 \in 0 .. n /\ (k + 1) - 1 = k
        /\ 1 .. k + 1 = (1 .. k) \cup {k + 1} /\ 1 .. k \subseteq 1 .. n
    BY <1>1
  <2>2. after[k + 1] = Collect(best, file, s)
    <3>1. after[k + 1] = Collect(after[(k + 1) - 1], v[k + 1], s)
      BY <2>1, CollectedRounds DEF after, n
    <3> QED BY <2>1, <3>1
  <2>3. HoldsFewest(best, S)
    OBVIOUS
  <2>4. Candidates(v, s, k + 1) = WithFile(S, file, s)
    BY <2>1 DEF Candidates, WithFile
  <2>5. S \in SUBSET Record /\ file \in Record
    BY <1>1, <2>1 DEF Candidates
  <2> HIDE DEF Right, S, best, file
  <2>6. HoldsFewest(Collect(best, file, s), WithFile(S, file, s))
    BY <2>3, <2>5, CollectKeepsFewest
  <2>7. HoldsFewest(after[k + 1], Candidates(v, s, k + 1))
    BY <2>2, <2>4, <2>6
  <2> QED BY <2>1, <2>7 DEF Right
<1>4. n \in Right
  <2> HIDE DEF Right
  <2>1. 0 .. n \subseteq Right
    BY <1>1, <1>2, <1>3, LoopInduction
  <2> QED BY <1>1, <2>1
<1> QED BY <1>4 DEF n, after

-----------------------------------------------------------------------------
(* The second loop.                                                        *)

LEMMA LowestRounds ==
  ASSUME NEW best \in Seq(Record), NEW seen
  PROVE  /\ LowestAfter(best, seen)[0] = NoFile
         /\ \A k \in 1 .. Len(best) :
              LowestAfter(best, seen)[k] =
                LessPopular(LowestAfter(best, seen)[k - 1], best[k], seen)
<1> DEFINE n == Len(best)
           X == Record \cup {NoFile}
           F == [k \in 1 .. n |-> [x \in X |-> LessPopular(x, best[k], seen)]]
           after == CHOOSE g : g = [k \in 0 .. n |->
                      IF k = 0 THEN NoFile ELSE LessPopular(g[k - 1], best[k], seen)]
<1>1. n \in Nat /\ \A k \in 1 .. n : best[k] \in Record
  OBVIOUS
<1>2. LowestAfter(best, seen) = after
  BY DEF LowestAfter
<1> HIDE DEF n
<1>3. PICK g \in [0 .. n -> X] :
        g[0] = NoFile /\ \A k \in 1 .. n : g[k] = F[k][g[k - 1]]
  <2>1. \A x \in X : \A k \in 1 .. n : F[k][x] \in X
    BY <1>1 DEF LessPopular
  <2>2. n \in Nat /\ NoFile \in X
    BY <1>1
  <2> HIDE DEF F, X, after
  <2>3. LoopStates(n, X, NoFile, F) # {}
    BY <2>1, <2>2, LoopHasStates
  <2> QED BY <2>3 DEF LoopStates
<1>4. ASSUME NEW k \in 0 .. n
      PROVE  g[k] = IF k = 0 THEN NoFile ELSE LessPopular(g[k - 1], best[k], seen)
  <2>1. CASE k # 0
    <3>1. k \in 1 .. n /\ g[k - 1] \in X
      BY <1>1, <2>1
    <3> HIDE DEF X, after
    <3> QED BY <1>3, <2>1, <3>1
  <2> QED BY <1>3, <2>1
<1> HIDE DEF F
<1>5. g = [k \in 0 .. n |->
             IF k = 0 THEN NoFile ELSE LessPopular(g[k - 1], best[k], seen)]
  BY <1>4
<1>6. after = [k \in 0 .. n |->
                 IF k = 0 THEN NoFile ELSE LessPopular(after[k - 1], best[k], seen)]
  BY <1>5
<1> HIDE DEF after
<1>7. after[0] = NoFile
  BY <1>1, <1>6
<1>8. ASSUME NEW k \in 1 .. n
      PROVE  after[k] = LessPopular(after[k - 1], best[k], seen)
  <2>1. k \in 0 .. n /\ k # 0
    BY <1>1
  <2> QED BY <1>6, <2>1
<1> QED BY <1>2, <1>7, <1>8 DEF n

\* The file the loop ends with is one of the least popular.
LEMMA LowestIsLeastPopular ==
  ASSUME NEW best \in Seq(Record), best # <<>>, NEW seen, seen # <<>>
  PROVE  LET lowest == LowestAfter(best, seen)[Len(best)]
         IN  /\ lowest \in ToSet(best)
             /\ \A file \in ToSet(best) : Len(lowest.holders) <= Len(file.holders)
<1> DEFINE n == Len(best)
           after == LowestAfter(best, seen)
           Right == {k \in 0 .. n : k # 0 =>
             /\ \E i \in 1 .. k : after[k] = best[i]
             /\ \A i \in 1 .. k : Len(after[k].holders) <= Len(best[i].holders)}
<1>1. n \in Nat \ {0} /\ \A i \in 1 .. n : best[i] \in Record
  OBVIOUS
<1>2. DOMAIN best = 1 .. n
  OBVIOUS
<1> HIDE DEF n, after
<1>3. 0 \in Right
  BY <1>1
<1>4. \A k \in 0 .. n - 1 : k \in Right => k + 1 \in Right
  <2> SUFFICES ASSUME NEW k \in 0 .. n - 1, k \in Right
               PROVE  k + 1 \in Right
    OBVIOUS
  <2> DEFINE file == best[k + 1]
             l == after[k]
             z == after[k + 1]
  <2>1. k + 1 \in 1 .. n /\ k + 1 \in 0 .. n /\ (k + 1) - 1 = k
        /\ 1 .. k + 1 = (1 .. k) \cup {k + 1} /\ 1 .. k \subseteq 1 .. n
        /\ k + 1 # 0
    BY <1>1
  <2>2. z = LessPopular(l, file, seen)
    <3>1. after[k + 1] = LessPopular(after[(k + 1) - 1], best[k + 1], seen)
      BY <2>1, LowestRounds DEF after, n
    <3> QED BY <2>1, <3>1
  <2>3. \A i \in 1 .. n : Len(best[i].holders) \in Nat
    BY <1>1 DEF Record
  <2>4. CASE k = 0
    <3>1. l = NoFile
      BY <2>4, LowestRounds DEF after
    <3>2. z = file
      BY <2>2, <3>1 DEF LessPopular
    <3>3. 1 .. k + 1 = {k + 1}
      BY <2>4
    <3>4. Len(file.holders) \in Nat
      BY <2>1, <2>3
    <3> HIDE DEF Right, z, file, l
    <3>5. \E i \in 1 .. k + 1 : z = best[i]
      BY <3>2, <3>3 DEF file
    <3>6. ASSUME NEW i \in 1 .. k + 1
          PROVE  Len(z.holders) <= Len(best[i].holders)
      <4>1. i = k + 1
        BY <3>3
      <4>2. best[i] = z
        BY <3>2, <4>1 DEF file
      <4> QED BY <3>2, <3>4, <4>2
    <3> QED BY <2>1, <3>5, <3>6 DEF Right, z
  <2>5. CASE k # 0
    <3>1. PICK j \in 1 .. k : l = best[j]
      BY <2>5
    <3>2. \A i \in 1 .. k : Len(l.holders) <= Len(best[i].holders)
      BY <2>5
    <3>3. l # NoFile
      <4>1. l.id \in File
        BY <1>1, <2>1, <3>1 DEF Record
      <4>2. NoFile.id = 0
        BY DEF NoFile, NewFile
      <4> QED BY <4>1, <4>2, FilesHaveSizes
    <3>4. z = IF Len(file.holders) < Len(l.holders) THEN file ELSE l
      BY <2>2, <3>3 DEF LessPopular
    <3>5. Len(file.holders) \in Nat /\ Len(l.holders) \in Nat
      BY <2>1, <2>3, <3>1
    <3> HIDE DEF Right, z, file, l
    <3>6. \E i \in 1 .. k + 1 : z = best[i]
      BY <2>1, <3>1, <3>4 DEF file
    <3>7. ASSUME NEW i \in 1 .. k + 1
          PROVE  Len(z.holders) <= Len(best[i].holders)
      <4>1. Len(best[i].holders) \in Nat
        BY <2>1, <2>3
      <4>2. CASE i = k + 1
        BY <3>4, <3>5, <4>2 DEF file
      <4>3. CASE i \in 1 .. k
        <5>1. Len(l.holders) <= Len(best[i].holders)
          BY <3>2, <4>3
        <5> QED BY <3>4, <3>5, <4>1, <5>1
      <4> QED BY <2>1, <4>2, <4>3
    <3> QED BY <2>1, <3>6, <3>7 DEF Right, z
  <2> QED BY <2>4, <2>5
<1>5. n \in Right /\ n # 0
  <2> HIDE DEF Right
  <2>1. 0 .. n \subseteq Right
    BY <1>1, <1>3, <1>4, LoopInduction
  <2> QED BY <1>1, <2>1
<1> QED BY <1>2, <1>5 DEF n, after, ToSet

-----------------------------------------------------------------------------
(* What getFileToRequest returns.                                          *)

LEMMA ContainsIsMembership ==
  ASSUME NEW S, NEW list \in Seq(S), NEW x
  PROVE  Contains(list, x) <=> x \in ToSet(list)
<1>1. DOMAIN list = 1 .. Len(list)
  OBVIOUS
<1> QED BY <1>1 DEF Contains, ToSet

\* The queries of SmsEchoClient about a file are those about its record.
LEMMA QueriesAgree ==
  ASSUME NEW n \in Node, files[n] \in Vector, NEW f \in File
  PROVE  /\ E!IsFull(n, f) <=> IsFull(Known(files[n], f))
         /\ E!NumOfMissingChunks(n, f) = NumOfMissingChunks(Known(files[n], f))
<1>1. Known(files[n], f) \in Record /\ Known(files[n], f).id = f
  BY KnownType
<1>2. Known(files[n], f).size = FileSize[f]
  BY <1>1 DEF Record
<1> QED BY <1>2 DEF E!IsFull, E!NumOfMissingChunks, IsFull, NumOfMissingChunks

LEMMA FullFilesAgree ==
  ASSUME NEW n \in Node, files[n] \in Vector
  PROVE  E!FullFiles(n) = FullIds(files[n])
<1>1. Ids(files[n]) \subseteq File
  BY VectorType DEF Ids
<1>2. ASSUME NEW f \in File
      PROVE  IsFull(Known(files[n], f)) <=>
               Known(files[n], f).received = SizeInChunks(FileSize[f])
  <2>1. Known(files[n], f) \in Record /\ Known(files[n], f).id = f
    BY KnownType
  <2>2. Known(files[n], f).size = FileSize[f]
    BY <2>1 DEF Record
  <2> QED BY <2>2 DEF IsFull
<1>3. E!FullFiles(n) = {f \in Ids(files[n]) : E!IsFull(n, f)}
  BY DEF E!FullFiles
<1> QED BY <1>1, <1>2, <1>3, QueriesAgree DEF FullIds

\* The candidates are the records of the files SmsEchoClient may request.
LEMMA CandidatesAgree ==
  ASSUME NEW n \in Node, files[n] \in Vector, NEW s \in Node
  PROVE  LET v == files[n]
             C == Candidates(v, s, Len(v))
         IN  /\ C \in SUBSET Record
             /\ \A file \in C : file.id \in E!Requestable(n, s)
                                /\ Known(v, file.id) = file
             /\ \A f \in E!Requestable(n, s) : f \in File /\ Known(v, f) \in C
<1> DEFINE v == files[n]
           C == Candidates(v, s, Len(v))
<1>1. Len(v) \in Nat /\ DOMAIN v = 1 .. Len(v)
      /\ \A i \in DOMAIN v : v[i] \in Record /\ v[i].id \in File
  BY VectorType
<1>2. ASSUME NEW f
      PROVE  f \in E!Requestable(n, s) <=>
               f \in Ids(v) /\ MayAsk(Known(v, f), s)
  <2>1. E!Requestable(n, s) =
          {g \in Ids(v) : ~E!IsFull(n, g)
                          /\ s \in [h \in File |-> HoldersOf(Known(v, h))][g]}
    BY DEF E!Requestable
  <2>2. ASSUME f \in Ids(v)
        PROVE  (s \in [h \in File |-> HoldersOf(Known(v, h))][f])
                 <=> Contains(Known(v, f).holders, s)
    <3>1. f \in File
      BY <1>1, <2>2 DEF Ids
    <3>2. Known(v, f).holders \in Seq(Node)
      BY <3>1, KnownType DEF Record
    <3> QED BY <3>1, <3>2, ContainsIsMembership DEF HoldersOf
  <2>3. f \in Ids(v) => f \in File
    BY <1>1 DEF Ids
  <2>4. f \in Ids(v) => (E!IsFull(n, f) <=> IsFull(Known(v, f)))
    BY <2>3, QueriesAgree
  <2> HIDE DEF v
  <2> QED BY <2>1, <2>2, <2>4 DEF MayAsk
<1>3. ASSUME NEW file \in C
      PROVE  file.id \in E!Requestable(n, s) /\ Known(v, file.id) = file
             /\ file \in Record
  <2>1. PICK i \in 1 .. Len(v) : MayAsk(v[i], s) /\ file = v[i]
    BY DEF Candidates
  <2>2. file.id \in Ids(v) /\ Known(v, file.id) = file /\ file \in Record
    BY <1>1, <2>1, KnownAt DEF Ids
  <2> QED BY <1>2, <2>1, <2>2
<1>4. ASSUME NEW f \in E!Requestable(n, s)
      PROVE  f \in File /\ Known(v, f) \in C
  <2>1. f \in Ids(v) /\ MayAsk(Known(v, f), s)
    BY <1>2
  <2>2. PICK i \in DOMAIN v : v[i].id = f
    BY <2>1 DEF Ids
  <2>3. Known(v, f) = v[i] /\ f \in File
    BY <1>1, <2>2, KnownAt
  <2>4. MayAsk(v[i], s) /\ i \in 1 .. Len(v)
    BY <1>1, <2>1, <2>3
  <2> HIDE DEF v
  <2> QED BY <2>3, <2>4 DEF Candidates
<1> QED BY <1>3, <1>4

\* Of these, those that miss the fewest chunks.
LEMMA FewestAgree ==
  ASSUME NEW n \in Node, files[n] \in Vector, NEW s \in Node
  PROVE  LET v == files[n]
             C == Candidates(v, s, Len(v))
         IN  /\ \A file \in Fewest(C) : file.id \in E!FilesWithMinimumChunks(n, s)
             /\ \A f \in E!FilesWithMinimumChunks(n, s) :
                  f \in File /\ Known(v, f) \in Fewest(C)
<1> DEFINE v == files[n]
           C == Candidates(v, s, Len(v))
           R == E!Requestable(n, s)
<1>1. /\ \A file \in C : file.id \in R /\ Known(v, file.id) = file
      /\ \A f \in R : f \in File /\ Known(v, f) \in C
  BY CandidatesAgree
<1>2. \A f \in R : E!NumOfMissingChunks(n, f) = NumOfMissingChunks(Known(v, f))
  BY <1>1, QueriesAgree
<1>3. E!FilesWithMinimumChunks(n, s) =
        {f \in R : \A g \in R : E!NumOfMissingChunks(n, f) <= E!NumOfMissingChunks(n, g)}
  BY DEF E!FilesWithMinimumChunks
<1> HIDE DEF v, C, R
<1>4. ASSUME NEW file \in Fewest(C)
      PROVE  file.id \in E!FilesWithMinimumChunks(n, s)
  <2>1. file \in C
        /\ \A other \in C : NumOfMissingChunks(file) <= NumOfMissingChunks(other)
    BY DEF Fewest
  <2>2. file.id \in R /\ Known(v, file.id) = file
    BY <1>1, <2>1
  <2>3. \A g \in R : NumOfMissingChunks(file) <= E!NumOfMissingChunks(n, g)
    BY <1>1, <1>2, <2>1
  <2>4. E!NumOfMissingChunks(n, file.id) = NumOfMissingChunks(file)
    BY <1>2, <2>2
  <2> QED BY <1>3, <2>2, <2>3, <2>4
<1>5. ASSUME NEW f \in E!FilesWithMinimumChunks(n, s)
      PROVE  f \in File /\ Known(v, f) \in Fewest(C)
  <2>1. f \in R
        /\ \A g \in R : E!NumOfMissingChunks(n, f) <= E!NumOfMissingChunks(n, g)
    BY <1>3
  <2>2. ASSUME NEW other \in C
        PROVE  NumOfMissingChunks(Known(v, f)) <= NumOfMissingChunks(other)
    <3>1. other.id \in R /\ Known(v, other.id) = other
      BY <1>1
    <3>2. E!NumOfMissingChunks(n, f) <= E!NumOfMissingChunks(n, other.id)
      BY <2>1, <3>1
    <3> QED BY <1>2, <2>1, <3>1, <3>2
  <2> QED BY <1>1, <2>1, <2>2 DEF Fewest
<1> QED BY <1>4, <1>5 DEF v, C

LEMMA SameCardinality ==
  ASSUME NEW S
  PROVE  E!Cardinality(S) = Cardinality(S)
BY DEF E!Cardinality, Cardinality

\* The popularity of a file, times the number of nodes seen.
LEMMA HoldersCount ==
  ASSUME NEW file \in Record
  PROVE  Cardinality(HoldersOf(file)) = Len(file.holders) /\ Len(file.holders) \in Nat
<1>1. file.holders \in Seq(Node) /\ IsInjective(file.holders)
  BY DEF Record
<1> QED BY <1>1, InjectiveCount DEF HoldersOf

\* With nothing to choose from, the empty file is returned, which is full.
LEMMA NothingToChoose ==
  ASSUME NEW n \in Node, files[n] \in Vector, NEW s \in Node,
         Candidates(files[n], s, Len(files[n])) = {}
  PROVE  IsFull(GetFileToRequest(n, s)) /\ E!FileToRequest(n, s) = {}
<1> DEFINE v == files[n]
           C == Candidates(v, s, Len(v))
           best == CollectedAfter(v, s)[Len(v)]
           seen == seen_nodes[n]
<1>1. best = <<>>
  BY CollectedAreFewest DEF HoldsFewest
<1>2. GetFileToRequest(n, s) = LowestAfter(best, seen)[Len(best)]
  BY DEF GetFileToRequest
<1>3. GetFileToRequest(n, s) = NoFile
  <2>1. best \in Seq(Record) /\ Len(best) = 0
    BY <1>1
  <2> HIDE DEF best, seen
  <2>2. LowestAfter(best, seen)[0] = NoFile
    BY <2>1, LowestRounds
  <2> QED BY <1>2, <2>1, <2>2
<1>4. IsFull(NoFile)
  <2>1. NoFile.size = 0 /\ NoFile.received = SizeInChunks(0)
    BY DEF NoFile, NewFile
  <2> QED BY <2>1 DEF IsFull
<1>5. E!FilesWithMinimumChunks(n, s) = {}
  <2>1. Fewest(C) = {}
    BY DEF Fewest
  <2> HIDE DEF C
  <2>2. \A f \in E!FilesWithMinimumChunks(n, s) : Known(files[n], f) \in Fewest(C)
    BY FewestAgree DEF C
  <2> QED BY <2>1, <2>2
<1> QED BY <1>3, <1>4, <1>5 DEF E!FileToRequest

\* Else, the file is not full, and SmsEchoClient allows it.
LEMMA BestIsChosen ==
  ASSUME NEW n \in Node, files[n] \in Vector, NEW s \in Node,
         seen_nodes[n] \in Seq(Node), seen_nodes[n] # <<>>,
         Candidates(files[n], s, Len(files[n])) # {}
  PROVE  /\ ~IsFull(GetFileToRequest(n, s))
         /\ GetFileToRequest(n, s).id \in E!FileToRequest(n, s)
<1> DEFINE v == files[n]
           C == Candidates(v, s, Len(v))
           best == CollectedAfter(v, s)[Len(v)]
           seen == seen_nodes[n]
           chosen == GetFileToRequest(n, s)
           F == E!FilesWithMinimumChunks(n, s)
<1>1. best \in Seq(Record) /\ ToSet(best) = Fewest(C) /\ best # <<>>
  BY CollectedAreFewest DEF HoldsFewest
<1>2. chosen = LowestAfter(best, seen)[Len(best)]
  BY DEF GetFileToRequest
<1>3. /\ chosen \in Fewest(C)
      /\ \A file \in Fewest(C) : Len(chosen.holders) <= Len(file.holders)
  <2> HIDE DEF best, C, chosen
  <2> QED BY <1>1, <1>2, LowestIsLeastPopular
<1>4. /\ C \in SUBSET Record
      /\ \A file \in C : Known(v, file.id) = file
      /\ \A file \in Fewest(C) : file.id \in F
      /\ \A f \in F : f \in File /\ Known(v, f) \in Fewest(C)
  BY CandidatesAgree, FewestAgree
<1>5. chosen \in C
  BY <1>3 DEF Fewest
<1>6. ~IsFull(chosen)
  <2>1. \A file \in C : ~IsFull(file)
    BY DEF Candidates, MayAsk
  <2> QED BY <1>5, <2>1
<1>7. E!FileToRequest(n, s) =
        {g \in F : ToSet(seen) # {} /\ \A h \in F :
           Cardinality([x \in File |-> HoldersOf(Known(v, x))][g])
             <= Cardinality([x \in File |-> HoldersOf(Known(v, x))][h])}
  BY SameCardinality DEF E!FileToRequest
<1>8. ToSet(seen) # {}
  <2>1. 1 \in DOMAIN seen
    OBVIOUS
  <2> QED BY <2>1 DEF ToSet
<1> HIDE DEF C, best, seen, chosen, F, v
<1>9. ASSUME NEW f \in F
      PROVE  Cardinality([x \in File |-> HoldersOf(Known(v, x))][f])
               = Len(Known(v, f).holders)
             /\ Known(v, f) \in Fewest(C)
  <2>1. f \in File /\ Known(v, f) \in Record /\ Known(v, f) \in Fewest(C)
    BY <1>4 DEF Fewest
  <2> QED BY <2>1, HoldersCount
<1>10. chosen.id \in F /\ Known(v, chosen.id) = chosen
  BY <1>3, <1>4, <1>5
<1>11. ASSUME NEW h \in F
       PROVE  Cardinality([x \in File |-> HoldersOf(Known(v, x))][chosen.id])
                <= Cardinality([x \in File |-> HoldersOf(Known(v, x))][h])
  <2>1. Cardinality([x \in File |-> HoldersOf(Known(v, x))][chosen.id])
          = Len(chosen.holders)
    BY <1>9, <1>10
  <2>2. Cardinality([x \in File |-> HoldersOf(Known(v, x))][h])
          = Len(Known(v, h).holders)
    BY <1>9
  <2>3. Len(chosen.holders) <= Len(Known(v, h).holders)
    BY <1>3, <1>9
  <2> QED BY <2>1, <2>2, <2>3
<1>12. chosen.id \in E!FileToRequest(n, s)
  BY <1>7, <1>8, <1>10, <1>11
<1> QED BY <1>6, <1>12 DEF chosen

\* Whatever a node has heard, in whatever order, getFileToRequest returns a
\* file of the advertiser that misses the fewest chunks and of these one that
\* is least popular, and the empty file only if there is nothing to ask for
\* (sms-echo-client.cc:171-210).
THEOREM ChoiceIsRight == Spec => []ChoiceIsAllowed
<1>1. VecInv => ChoiceIsAllowed
  <2> SUFFICES ASSUME VecInv, NEW n \in Node, NEW s \in Node,
                      Contains(seen_nodes[n], s)
               PROVE  IF IsFull(GetFileToRequest(n, s))
                        THEN E!FileToRequest(n, s) = {}
                        ELSE GetFileToRequest(n, s).id \in E!FileToRequest(n, s)
    BY DEF ChoiceIsAllowed
  <2>1. files[n] \in Vector /\ seen_nodes[n] \in Seq(Node)
    BY DEF VecInv
  <2>2. seen_nodes[n] # <<>>
    <3>1. PICK i \in 1 .. Len(seen_nodes[n]) : seen_nodes[n][i] = s
      BY DEF Contains
    <3> QED BY <2>1, <3>1
  <2>3. CASE Candidates(files[n], s, Len(files[n])) = {}
    BY <2>1, <2>3, NothingToChoose
  <2>4. CASE Candidates(files[n], s, Len(files[n])) # {}
    BY <2>1, <2>2, <2>4, BestIsChosen
  <2> QED BY <2>3, <2>4
<1> QED BY <1>1, VecInvHolds, PTL

-----------------------------------------------------------------------------
(* The handlers of SmsEchoClient.                                          *)

\* What a node knows of a file, as SmsEchoClient keeps it.
LEMMA AdvertisementAgrees ==
  ASSUME VecInv, NEW n \in Node, NEW s \in Node \ {n}, NEW w,
         AdvertisementNoted(n, s, w)
  PROVE  /\ Contains(seen_nodes'[n], s)
         /\ E!AddNodeToSeenList(n, s)
         /\ E!DecodeFilesForAdv(n, s, E!FullFiles(s))
<1> DEFINE full == FullIds(files[s])
<1>1. /\ files \in [Node -> Vector] /\ seen_nodes \in [Node -> Seq(Node)]
      /\ \A m \in Node : IsInjective(seen_nodes[m])
      /\ maximum_full_files_seen \in [Node -> Nat]
  BY DEF VecInv
<1>2. /\ w \in Vector
      /\ Ids(w) = Ids(files[n]) \cup full
      /\ \A g \in File : Known(w, g) =
           IF g \in full THEN AddHolder(Known(files[n], g), s) ELSE Known(files[n], g)
      /\ files' = [files EXCEPT ![n] = w]
      /\ seen_nodes' = [seen_nodes EXCEPT ![n] = AddNode(seen_nodes[n], s)]
      /\ maximum_full_files_seen' = [maximum_full_files_seen EXCEPT
           ![n] = Larger(maximum_full_files_seen[n], Cardinality(full))]
  BY DEF AdvertisementNoted
<1>3. E!FullFiles(s) = full
  BY <1>1, FullFilesAgree
<1> HIDE DEF full
<1>4. ASSUME NEW m \in Node
      PROVE  files'[m] = IF m = n THEN w ELSE files[m]
  BY <1>1, <1>2
<1>5. ASSUME NEW g \in File
      PROVE  /\ HoldersOf(Known(w, g)) = IF g \in full
                  THEN HoldersOf(Known(files[n], g)) \cup {s}
                  ELSE HoldersOf(Known(files[n], g))
             /\ ChunksOf(Known(w, g)) = ChunksOf(Known(files[n], g))
             /\ Known(w, g).received = Known(files[n], g).received
  <2> DEFINE file == Known(files[n], g)
  <2>1. file \in Record
    BY <1>1, KnownType
  <2> HIDE DEF file
  <2>2. /\ AddHolder(file, s) = [file EXCEPT !.holders = AddNode(file.holders, s)]
        /\ HoldersOf(AddHolder(file, s)) = HoldersOf(file) \cup {s}
    BY <2>1, AddHolderType
  <2>3. AddHolder(file, s).chunks = file.chunks
        /\ AddHolder(file, s).received = file.received
    BY <2>1, <2>2 DEF Record
  <2>4. ChunksOf(AddHolder(file, s)) = ChunksOf(file)
    BY <2>3 DEF ChunksOf
  <2>5. Known(w, g) = IF g \in full THEN AddHolder(file, s) ELSE file
    BY <1>2 DEF file
  <2> QED BY <2>2, <2>3, <2>4, <2>5 DEF file
<1>6. Contains(seen_nodes'[n], s) /\ E!AddNodeToSeenList(n, s)
  <2> DEFINE list == AddNode(seen_nodes[n], s)
  <2>1. Contains(list, s) /\ ToSet(list) = ToSet(seen_nodes[n]) \cup {s}
    BY <1>1, AddNodeType
  <2> HIDE DEF list
  <2>2. \A m \in Node : seen_nodes'[m] = IF m = n THEN list ELSE seen_nodes[m]
    BY <1>1, <1>2 DEF list
  <2>3. \A m \in Node : ToSet(seen_nodes'[m]) =
          IF m = n THEN ToSet(seen_nodes[n]) \cup {s} ELSE ToSet(seen_nodes[m])
    BY <2>1, <2>2
  <2>4. [m \in Node |-> ToSet(seen_nodes'[m])] =
          [[m \in Node |-> ToSet(seen_nodes[m])] EXCEPT ![n] = @ \cup {s}]
    BY <2>3
  <2>5. E!AddNodeToSeenList(n, s)
    BY <2>4 DEF E!AddNodeToSeenList
  <2> QED BY <2>1, <2>2, <2>5
<1>7. [m \in Node |-> Ids(files'[m])] =
        [[m \in Node |-> Ids(files[m])] EXCEPT ![n] = @ \cup full]
  <2>1. \A m \in Node : Ids(files'[m]) =
          IF m = n THEN Ids(files[n]) \cup full ELSE Ids(files[m])
    BY <1>2, <1>4
  <2> QED BY <2>1
<1>8. [m \in Node |-> [f \in File |-> HoldersOf(Known(files'[m], f))]] =
        [[m \in Node |-> [f \in File |-> HoldersOf(Known(files[m], f))]]
           EXCEPT ![n] = [f \in File |-> IF f \in full THEN @[f] \cup {s} ELSE @[f]]]
  <2>1. ASSUME NEW m \in Node
        PROVE  [f \in File |-> HoldersOf(Known(files'[m], f))] =
                 IF m = n
                   THEN [f \in File |-> IF f \in full
                           THEN HoldersOf(Known(files[n], f)) \cup {s}
                           ELSE HoldersOf(Known(files[n], f))]
                   ELSE [f \in File |-> HoldersOf(Known(files[m], f))]
    BY <1>4, <1>5
  <2> QED BY <2>1
<1>9. [m \in Node |-> [f \in File |-> ChunksOf(Known(files'[m], f))]] =
        [m \in Node |-> [f \in File |-> ChunksOf(Known(files[m], f))]]
  BY <1>4, <1>5
<1>10. [m \in Node |-> [f \in File |-> Known(files'[m], f).received]] =
         [m \in Node |-> [f \in File |-> Known(files[m], f).received]]
  BY <1>4, <1>5
<1>11. maximum_full_files_seen' = [maximum_full_files_seen EXCEPT ![n] =
         E!Larger(@, E!Cardinality(full))]
  BY <1>1, <1>2, SameCardinality DEF Larger, E!Larger
<1>12. E!DecodeFilesForAdv(n, s, full)
  BY <1>7, <1>8, <1>9, <1>10, <1>11 DEF E!DecodeFilesForAdv
<1> QED BY <1>3, <1>6, <1>12

LEMMA ChunkAgrees ==
  ASSUME VecInv, NEW n \in Node, NEW s \in Node \ {n}, NEW w, NEW f \in File,
         NEW c \in 0 .. SizeInChunks(FileSize[f]) - 1,
         c \notin ChunksOf(Known(files[n], f)), ChunkNoted(n, s, f, c, w)
  PROVE  E!AddNewChunk(n, f, c, s)
<1>1. files \in [Node -> Vector] /\ maximum_full_files_seen \in [Node -> Nat]
  BY DEF VecInv
<1>2. /\ w \in Vector
      /\ Ids(w) = Ids(files[n]) \cup {f}
      /\ \A g \in File : Known(w, g) =
           IF g = f THEN AddChunk(Known(files[n], f), c, s) ELSE Known(files[n], g)
      /\ files' = [files EXCEPT ![n] = w]
      /\ maximum_full_files_seen' = [maximum_full_files_seen EXCEPT
           ![n] = Larger(maximum_full_files_seen[n], NumOfFullFiles(w))]
  BY DEF ChunkNoted
<1>3. ASSUME NEW m \in Node
      PROVE  files'[m] = IF m = n THEN w ELSE files[m]
  BY <1>1, <1>2
<1> DEFINE file == Known(files[n], f)
           new == AddChunk(file, c, s)
<1>4. /\ new.received = file.received + 1
      /\ HoldersOf(new) = HoldersOf(file) \cup {s}
      /\ ChunksOf(new) = ChunksOf(file) \cup {c}
  <2>1. file \in Record /\ file.id = f
    BY <1>1, KnownType
  <2>2. file.size = FileSize[f]
    BY <2>1 DEF Record
  <2> HIDE DEF file
  <2>3. c \in 0 .. SizeInChunks(file.size) - 1
    BY <2>2
  <2> QED BY <2>1, <2>3, AddChunkType
<1> HIDE DEF file, new
<1>5. ASSUME NEW m \in Node, NEW g \in File
      PROVE  Known(files'[m], g) = IF m = n /\ g = f THEN new ELSE Known(files[m], g)
  BY <1>2, <1>3 DEF new, file
<1>6. [m \in Node |-> Ids(files'[m])] =
        [[m \in Node |-> Ids(files[m])] EXCEPT ![n] = @ \cup {f}]
  <2>1. ASSUME NEW m \in Node
        PROVE  Ids(files'[m]) = IF m = n THEN Ids(files[n]) \cup {f} ELSE Ids(files[m])
    <3>1. CASE m = n
      BY <1>2, <1>3, <3>1
    <3>2. CASE m # n
      BY <1>3, <3>2
    <3> QED BY <3>1, <3>2
  <2> QED BY <2>1
<1>7. [m \in Node |-> [g \in File |-> HoldersOf(Known(files'[m], g))]] =
        [[m \in Node |-> [g \in File |-> HoldersOf(Known(files[m], g))]]
           EXCEPT ![n][f] = @ \cup {s}]
  <2>1. ASSUME NEW m \in Node, NEW g \in File
        PROVE  HoldersOf(Known(files'[m], g)) =
                 IF m = n /\ g = f THEN HoldersOf(Known(files[n], f)) \cup {s}
                                   ELSE HoldersOf(Known(files[m], g))
    BY <1>4, <1>5 DEF file
  <2> QED BY <2>1
<1>8. [m \in Node |-> [g \in File |-> ChunksOf(Known(files'[m], g))]] =
        [[m \in Node |-> [g \in File |-> ChunksOf(Known(files[m], g))]]
           EXCEPT ![n][f] = @ \cup {c}]
  <2>1. ASSUME NEW m \in Node, NEW g \in File
        PROVE  ChunksOf(Known(files'[m], g)) =
                 IF m = n /\ g = f THEN ChunksOf(Known(files[n], f)) \cup {c}
                                   ELSE ChunksOf(Known(files[m], g))
    BY <1>4, <1>5 DEF file
  <2>2. ASSUME NEW m \in Node
        PROVE  [g \in File |-> ChunksOf(Known(files'[m], g))] =
                 IF m = n
                   THEN [[g \in File |-> ChunksOf(Known(files[n], g))]
                           EXCEPT ![f] = ChunksOf(Known(files[n], f)) \cup {c}]
                   ELSE [g \in File |-> ChunksOf(Known(files[m], g))]
    BY <2>1
  <2> QED BY <2>2
<1>9. [m \in Node |-> [g \in File |-> Known(files'[m], g).received]] =
        [[m \in Node |-> [g \in File |-> Known(files[m], g).received]]
           EXCEPT ![n][f] = @ + 1]
  <2>1. ASSUME NEW m \in Node, NEW g \in File
        PROVE  Known(files'[m], g).received =
                 IF m = n /\ g = f THEN Known(files[n], f).received + 1
                                   ELSE Known(files[m], g).received
    BY <1>4, <1>5 DEF file
  <2>2. ASSUME NEW m \in Node
        PROVE  [g \in File |-> Known(files'[m], g).received] =
                 IF m = n
                   THEN [[g \in File |-> Known(files[n], g).received]
                           EXCEPT ![f] = Known(files[n], f).received + 1]
                   ELSE [g \in File |-> Known(files[m], g).received]
    BY <2>1
  <2> QED BY <2>2
<1>10. E!RecordChunk(n, f, c, s)
  BY <1>6, <1>7, <1>8, <1>9 DEF E!RecordChunk
<1>11. E!FullFiles(n)' = FullIds(w)
  <2>1. files'[n] = w
    BY <1>3
  <2>2. Ids(w) \subseteq File
    BY <1>2, VectorType DEF Ids
  <2>3. E!FullFiles(n)' = {g \in Ids(w) :
          [x \in File |-> Known(w, x).received][g]
            = [x \in File |-> SizeInChunks(FileSize[x])][g]}
    BY <2>1 DEF E!FullFiles, E!IsFull
  <2> QED BY <2>2, <2>3 DEF FullIds
<1>12. E!UpdateMaximum(n)
  <2>1. E!Cardinality(E!FullFiles(n)') = NumOfFullFiles(w)
    BY <1>2, <1>11, NumOfFullFilesCounts, SameCardinality
  <2>2. maximum_full_files_seen' = [maximum_full_files_seen EXCEPT ![n] =
          E!Larger(@, E!Cardinality(E!FullFiles(n)'))]
    BY <1>1, <1>2, <2>1 DEF Larger, E!Larger
  <2> QED BY <2>2 DEF E!UpdateMaximum
<1> QED BY <1>10, <1>12 DEF E!AddNewChunk

\* A step of the vectors is what a handler of SmsEchoClient does to its sets.
Agreement ==
  \E n \in Node : \E s \in Node \ {n} :
    \/ /\ seen_nodes' = seen_nodes
       /\ \E f \in E!FullFiles(s) : \E c \in E!ChunkIds(f) : E!AddNewChunk(n, f, c, s)
    \/ /\ Contains(seen_nodes'[n], s)
       /\ E!AddNodeToSeenList(n, s)
       /\ E!DecodeFilesForAdv(n, s, E!FullFiles(s))

LEMMA StepsAgree == VecInv /\ Next => Agreement
<1> SUFFICES ASSUME VecInv, NEW n \in Node, NEW s \in Node \ {n},
                    HearAdvertisement(n, s) \/ HearReply(n, s)
             PROVE  Agreement
  BY DEF Next
<1>1. CASE HearAdvertisement(n, s)
  <2>1. PICK w : AdvertisementNoted(n, s, w)
    BY <1>1, HearAdvertisementEffect
  <2>2. /\ Contains(seen_nodes'[n], s)
        /\ E!AddNodeToSeenList(n, s)
        /\ E!DecodeFilesForAdv(n, s, E!FullFiles(s))
    BY <2>1, AdvertisementAgrees
  <2> QED BY <2>2 DEF Agreement
<1>2. CASE HearReply(n, s)
  <2>1. files[s] \in Vector /\ files[n] \in Vector
    BY DEF VecInv
  <2>2. seen_nodes' = seen_nodes
    BY <1>2, HearReplyEffect
  <2>3. PICK f \in FullIds(files[s]) : \E c \in 0 .. SizeInChunks(FileSize[f]) - 1 :
          IF c \in ChunksOf(Known(files[n], f))
            THEN UNCHANGED <<files, maximum_full_files_seen>>
            ELSE \E w : ChunkNoted(n, s, f, c, w)
    BY <1>2, HearReplyEffect
  <2>4. PICK c \in 0 .. SizeInChunks(FileSize[f]) - 1 :
          IF c \in ChunksOf(Known(files[n], f))
            THEN UNCHANGED <<files, maximum_full_files_seen>>
            ELSE \E w : ChunkNoted(n, s, f, c, w)
    BY <2>3
  <2>5. f \in File /\ f \in E!FullFiles(s)
    BY <2>1, FullFilesAgree, VectorType DEF FullIds, Ids
  <2>6. c \in E!ChunkIds(f)
    BY <2>5 DEF E!ChunkIds
  <2>7. E!AddNewChunk(n, f, c, s)
    <3>1. CASE c \in ChunksOf(Known(files[n], f))
      <4>1. UNCHANGED <<files, maximum_full_files_seen>>
        BY <2>4, <3>1
      <4>2. c \in [m \in Node |-> [g \in File |-> ChunksOf(Known(files[m], g))]][n][f]
        BY <2>5, <3>1
      <4> QED BY <4>1, <4>2 DEF E!AddNewChunk, E!contents
    <3>2. CASE c \notin ChunksOf(Known(files[n], f))
      <4>1. PICK w : ChunkNoted(n, s, f, c, w)
        BY <2>4, <3>2
      <4> QED BY <2>5, <3>2, <4>1, ChunkAgrees
    <3> QED BY <3>1, <3>2
  <2> QED BY <2>2, <2>5, <2>6, <2>7 DEF Agreement
<1> QED BY <1>1, <1>2

\* Searching the vectors, packing ids and sizes into 16 bits and their number
\* into 8, and looping over them changes what a node knows exactly as the
\* handlers of SmsEchoClient, which work on sets: its abstraction of files,
\* bitmaps, counters and node lists loses nothing
\* (sms-echo-client.cc:103-176, 214-263).
THEOREM VectorsImplementSets == Spec => HandlersAgree
<1>1. VecInv /\ [Next]_vars => [vars' # vars => Agreement]_vars
  BY StepsAgree DEF vars
<1> QED BY <1>1, VecInvHolds, PTL DEF Spec, HandlersAgree, Agreement

\* What SmsEchoClient keeps of a new record.
LEMMA NewFileFields ==
  ASSUME NEW f \in File, NEW full \in BOOLEAN
  PROVE  LET file == NewFile(f, FileSize[f], full)
             n == SizeInChunks(FileSize[f])
         IN  /\ ChunksOf(file) = IF full THEN 0 .. n - 1 ELSE {}
             /\ HoldersOf(file) = {}
             /\ file.received = IF full THEN n ELSE 0
<1> DEFINE file == NewFile(f, FileSize[f], full)
           n == SizeInChunks(FileSize[f])
           map == [i \in 1 .. n |-> full]
<1>1. n \in Nat
  BY FilesHaveSizes
<1>2. /\ file.chunks = map /\ file.holders = <<>>
      /\ file.received = IF full THEN n ELSE 0
  BY DEF NewFile
<1> HIDE DEF file, n
<1>3. HoldersOf(file) = {}
  BY <1>2 DEF HoldersOf, ToSet
<1>4. ChunksOf(file) = {i - 1 : i \in {j \in 1 .. n : full}}
  <2>1. DOMAIN map = 1 .. n /\ \A j \in 1 .. n : map[j] = full
    OBVIOUS
  <2> HIDE DEF map
  <2>2. {j \in DOMAIN map : map[j]} = {j \in 1 .. n : full}
    BY <2>1
  <2> QED BY <1>2, <2>2 DEF ChunksOf
<1>5. CASE full
  <2>1. {j \in 1 .. n : full} = 1 .. n
    BY <1>5
  <2>2. \A k \in 0 .. n - 1 : k + 1 \in 1 .. n /\ (k + 1) - 1 = k
    BY <1>1
  <2>3. \A i \in 1 .. n : i - 1 \in 0 .. n - 1
    BY <1>1
  <2>4. {i - 1 : i \in 1 .. n} = 0 .. n - 1
    BY <2>2, <2>3
  <2> QED BY <1>2, <1>3, <1>4, <1>5, <2>1, <2>4 DEF file, n
<1>6. CASE ~full
  BY <1>2, <1>3, <1>4, <1>6 DEF file, n
<1> QED BY <1>5, <1>6

\* SetFiles of every node makes the vectors of an initial state of the
\* exchange protocol, whose files are those getInitialFileList gave the nodes
\* (sms-echo-client.cc:89-101).
THEOREM InitialVectorsAgree ==
  Init => \E lists \in InitialLists :
            /\ E!SetFiles([n \in Node |-> ToSet(lists[n])], [n \in Node |-> 0])
            /\ \A n \in Node : ToSet(seen_nodes[n]) = {}
<1> SUFFICES ASSUME NEW lists \in InitialLists,
                    files = [n \in Node |-> [i \in DOMAIN lists[n] |->
                              NewFile(lists[n][i], FileSize[lists[n][i]], TRUE)]],
                    maximum_full_files_seen = [n \in Node |-> Len(lists[n])],
                    seen_nodes = [n \in Node |-> <<>>],
                    VecInv
             PROVE  /\ E!SetFiles([n \in Node |-> ToSet(lists[n])], [n \in Node |-> 0])
                    /\ \A n \in Node : ToSet(seen_nodes[n]) = {}
  BY InitVecInv DEF Init
<1>1. \A n \in Node : lists[n] \in Seq(File) /\ IsInjective(lists[n])
  BY ListsAssumption
<1>2. ASSUME NEW n \in Node
      PROVE  Ids(files[n]) = ToSet(lists[n])
  <2> DEFINE list == lists[n]
             v == files[n]
  <2>1. v = [i \in DOMAIN list |-> NewFile(list[i], FileSize[list[i]], TRUE)]
        /\ \A i \in DOMAIN list : list[i] \in File
    BY <1>1
  <2> HIDE DEF list, v
  <2>2. DOMAIN v = DOMAIN list /\ \A i \in DOMAIN list : v[i].id = list[i]
    BY <2>1, NewFileType
  <2>3. Ids(v) = ToSet(list)
    BY <2>2 DEF Ids, ToSet
  <2> QED BY <2>3 DEF list, v
<1>3. ASSUME NEW n \in Node, NEW f \in File
      PROVE  Known(files[n], f) = NewFile(f, FileSize[f], f \in ToSet(lists[n]))
  <2>1. files[n] \in Vector
    BY DEF VecInv
  <2>2. CASE f \in ToSet(lists[n])
    <3>1. PICK i \in DOMAIN files[n] : files[n][i].id = f /\ Known(files[n], f) = files[n][i]
      BY <1>2, <2>1, <2>2, KnownType
    <3>2. i \in DOMAIN lists[n] /\ lists[n][i] \in File
          /\ files[n][i] = NewFile(lists[n][i], FileSize[lists[n][i]], TRUE)
      <4> DEFINE list == lists[n]
      <4>1. list \in Seq(File)
            /\ files[n] = [j \in DOMAIN list |-> NewFile(list[j], FileSize[list[j]], TRUE)]
        BY <1>1
      <4> HIDE DEF list
      <4>2. DOMAIN files[n] = DOMAIN list /\ \A j \in DOMAIN list : list[j] \in File
        BY <4>1
      <4>3. files[n][i] = NewFile(list[i], FileSize[list[i]], TRUE)
        BY <4>1, <4>2
      <4> QED BY <4>2, <4>3 DEF list
    <3>3. lists[n][i] = f
      BY <3>1, <3>2, NewFileType
    <3>4. (f \in ToSet(lists[n])) = TRUE
      BY <2>2
    <3> QED BY <3>1, <3>2, <3>3, <3>4
  <2>3. CASE f \notin ToSet(lists[n])
    <3>1. Known(files[n], f) = NewFile(f, FileSize[f], FALSE)
      BY <1>2, <2>1, <2>3, KnownType
    <3>2. (f \in ToSet(lists[n])) = FALSE
      BY <2>3
    <3> QED BY <3>1, <3>2
  <2> QED BY <2>2, <2>3
<1>4. ASSUME NEW n \in Node, NEW f \in File
      PROVE  /\ ChunksOf(Known(files[n], f)) =
                  IF f \in ToSet(lists[n]) THEN 0 .. SizeInChunks(FileSize[f]) - 1 ELSE {}
             /\ HoldersOf(Known(files[n], f)) = {}
             /\ Known(files[n], f).received =
                  IF f \in ToSet(lists[n]) THEN SizeInChunks(FileSize[f]) ELSE 0
  <2> DEFINE full == f \in ToSet(lists[n])
  <2>1. full \in BOOLEAN
    OBVIOUS
  <2> HIDE DEF full
  <2>2. Known(files[n], f) = NewFile(f, FileSize[f], full)
    BY <1>3 DEF full
  <2> QED BY <2>1, <2>2, NewFileFields DEF full
<1>5. [n \in Node |-> Ids(files[n])] = [n \in Node |-> ToSet(lists[n])]
  BY <1>2
<1>6. [n \in Node |-> [f \in File |-> ChunksOf(Known(files[n], f))]] =
        [n \in Node |-> [f \in File |->
           IF f \in [m \in Node |-> ToSet(lists[m])][n] THEN E!ChunkIds(f) ELSE {}]]
  BY <1>4 DEF E!ChunkIds
<1>7. [n \in Node |-> [f \in File |-> Known(files[n], f).received]] =
        [n \in Node |-> [f \in File |->
           IF f \in [m \in Node |-> ToSet(lists[m])][n]
             THEN [g \in File |-> SizeInChunks(FileSize[g])][f] ELSE 0]]
  BY <1>4
<1>8. [n \in Node |-> [f \in File |-> HoldersOf(Known(files[n], f))]] =
        [n \in Node |-> [f \in File |-> {}]]
  BY <1>4
<1>9. maximum_full_files_seen = [n \in Node |->
        E!Larger([m \in Node |-> 0][n], E!Cardinality([m \in Node |-> ToSet(lists[m])][n]))]
  <2>1. ASSUME NEW n \in Node
        PROVE  Len(lists[n]) = E!Larger(0, E!Cardinality(ToSet(lists[n])))
    <3>1. E!Cardinality(ToSet(lists[n])) = Len(lists[n]) /\ Len(lists[n]) \in Nat
      BY <1>1, InjectiveCount, SameCardinality
    <3> QED BY <3>1 DEF E!Larger
  <2> QED BY <2>1
<1>10. E!SetFiles([n \in Node |-> ToSet(lists[n])], [n \in Node |-> 0])
  BY <1>5, <1>6, <1>7, <1>8, <1>9 DEF E!SetFiles
<1>11. \A n \in Node : ToSet(seen_nodes[n]) = {}
  BY DEF ToSet
<1> QED BY <1>10, <1>11
=============================================================================
