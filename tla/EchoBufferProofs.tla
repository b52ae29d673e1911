-------------------------- MODULE EchoBufferProofs --------------------------
(***************************************************************************)
(* What the loops of SetFill leave in the packet buffer, for every length  *)
(* of the pattern and of the buffer.                                       *)
(***************************************************************************)
EXTENDS EchoBuffer, Loops

LEMMA RemainderIsUnique ==
  ASSUME NEW d \in Nat \ {0}, NEW q \in Nat, NEW r \in 0 .. d - 1
  PROVE  (q * d + r) % d = r
BY SMTT(60)

\* Position i of the pattern's copy number k + 1.
LEMMA PositionInPattern ==
  ASSUME NEW d \in Nat \ {0}, NEW k \in Nat, NEW i \in Nat,
         i > k * d, i <= k * d + d
  PROVE  ((i - 1) % d) + 1 = i - k * d
<1> DEFINE r == i - k * d - 1
<1>0. k * d \in Nat
  OBVIOUS
<1>1. r \in 0 .. d - 1 /\ i - 1 = k * d + r
  BY <1>0
<1>2. (k * d + r) % d = r
  <2> HIDE DEF r
  <2> QED BY <1>1, RemainderIsUnique
<1> QED BY <1>0, <1>1, <1>2

LEMMA RoundsExceed ==
  ASSUME NEW d \in Nat \ {0}, NEW k \in Nat
  PROVE  k * d \in Nat /\ (k + 1) * d = k * d + d
OBVIOUS

\* The buffer after n rounds of the loop.
LEMMA AfterRoundsIsRepeated ==
  ASSUME NEW dataSize \in Nat, NEW X, NEW data \in [1 .. dataSize -> X],
         NEW fill \in Seq(X), fill # <<>>,
         NEW n \in Nat, n * Len(fill) <= dataSize
  PROVE  AfterRounds(data, fill, n) =
           [i \in 1 .. dataSize |->
              IF i <= n * Len(fill) THEN fill[((i - 1) % Len(fill)) + 1] ELSE data[i]]
<1> DEFINE d == Len(fill)
           Done(k) == [i \in 1 .. dataSize |->
              IF i <= k * d THEN fill[((i - 1) % d) + 1] ELSE data[i]]
           g == [k \in 0 .. n |-> Done(k)]
<1>1. d \in Nat \ {0}
  OBVIOUS
<1>2. ASSUME NEW k \in 1 .. n
      PROVE  /\ (k - 1) * d \in Nat
             /\ (k - 1) * d + d = k * d
             /\ k * d <= dataSize
  <2>1. k - 1 \in Nat /\ (k - 1) + 1 = k
    OBVIOUS
  <2>2. (k - 1) * d \in Nat /\ ((k - 1) + 1) * d = (k - 1) * d + d
    BY <1>1, <2>1, RoundsExceed
  <2>3. k * d <= n * d
    <3> HIDE DEF d
    <3> QED BY <1>1
  <2> HIDE DEF d
  <2> QED BY <2>1, <2>2, <2>3 DEF d
<1>3. Done(0) = data
  <2>1. 0 * d = 0
    BY <1>1
  <2> HIDE DEF d
  <2> QED BY <2>1
<1>4. ASSUME NEW k \in 1 .. n
      PROVE  Copy(Done(k - 1), (k - 1) * d, fill, d) = Done(k)
  <2> DEFINE at == (k - 1) * d
  <2>1. at \in Nat /\ at + d = k * d /\ at + d <= dataSize
    BY <1>1, <1>2
  <2>2. DOMAIN Done(k - 1) \cup (at + 1 .. at + d) = 1 .. dataSize
    <3> HIDE DEF at, d
    <3> QED BY <1>1, <2>1
  <2>3. ASSUME NEW i \in 1 .. dataSize
        PROVE  (IF i > at /\ i <= at + d THEN fill[i - at] ELSE Done(k - 1)[i])
                 = Done(k)[i]
    <3>1. CASE i > at /\ i <= at + d
      <4>1. k - 1 \in Nat
        OBVIOUS
      <4>2. ((i - 1) % d) + 1 = i - at
        <5>1. i \in Nat
          OBVIOUS
        <5> HIDE DEF d
        <5> QED BY <1>1, <3>1, <4>1, <5>1, PositionInPattern
      <4> HIDE DEF at, d
      <4> QED BY <2>1, <3>1, <4>2
    <3>2. CASE i <= at
      <4>1. Done(k - 1)[i] = fill[((i - 1) % d) + 1]
        BY <3>2
      <4>2. i <= k * d
        <5> HIDE DEF at, d
        <5> QED BY <1>1, <2>1, <3>2
      <4>3. Done(k)[i] = fill[((i - 1) % d) + 1]
        BY <4>2
      <4> HIDE DEF Done, d, at
      <4> QED BY <2>1, <3>2, <4>1, <4>3
    <3>3. CASE i > at + d
      <4>1. ~(i <= at) /\ ~(i <= k * d)
        <5> HIDE DEF at, d
        <5> QED BY <1>1, <2>1, <3>3
      <4>2. Done(k - 1)[i] = data[i] /\ Done(k)[i] = data[i]
        BY <4>1
      <4> HIDE DEF Done, d, at
      <4> QED BY <1>1, <2>1, <3>3, <4>1, <4>2
    <3> HIDE DEF Done
    <3> QED BY <1>1, <2>1, <3>1, <3>2, <3>3
  <2>4. Copy(Done(k - 1), at, fill, d) =
          [i \in 1 .. dataSize |->
             IF i > at /\ i <= at + d THEN fill[i - at] ELSE Done(k - 1)[i]]
    <3> HIDE DEF Done, at, d
    <3> QED BY <1>1, <2>2 DEF Copy
  <2>5. Done(k) = [i \in 1 .. dataSize |-> Done(k)[i]]
    OBVIOUS
  <2> HIDE DEF Done
  <2> QED BY <2>3, <2>4, <2>5
<1>5. g = [k \in 0 .. n |-> IF k = 0 THEN data ELSE Copy(g[k - 1], (k - 1) * d, fill, d)]
  <2>1. \A k \in 0 .. n : g[k] =
          IF k = 0 THEN data ELSE Copy(g[k - 1], (k - 1) * d, fill, d)
    <3> SUFFICES ASSUME NEW k \in 0 .. n
                 PROVE  g[k] = IF k = 0 THEN data ELSE Copy(g[k - 1], (k - 1) * d, fill, d)
      OBVIOUS
    <3>1. CASE k = 0
      <4> HIDE DEF Done
      <4> QED BY <1>3, <3>1
    <3>2. CASE k \in 1 .. n
      <4>1. g[k] = Done(k) /\ g[k - 1] = Done(k - 1)
        <5> HIDE DEF Done
        <5> QED BY <3>2
      <4> HIDE DEF Done, g, d
      <4> QED BY <1>4, <3>2, <4>1
    <3> QED BY <3>1, <3>2
  <2>2. g = [k \in 0 .. n |-> g[k]]
    <3> HIDE DEF Done
    <3> QED OBVIOUS
  <2> HIDE DEF g
  <2> QED BY <2>1, <2>2
<1> DEFINE after == CHOOSE f : f = [k \in 0 .. n |->
              IF k = 0 THEN data ELSE Copy(f[k - 1], (k - 1) * d, fill, d)]
<1>6. after = [k \in 0 .. n |->
              IF k = 0 THEN data ELSE Copy(after[k - 1], (k - 1) * d, fill, d)]
  <2> HIDE DEF g
  <2> QED BY <1>5
<1>7. AfterRounds(data, fill, n) = after[n]
  BY DEF AfterRounds
<1> HIDE DEF after
<1> DEFINE Right == {k \in 0 .. n : after[k] = Done(k)}
<1>8. 0 \in Right
  <2>1. after[0] = data
    BY <1>6
  <2> HIDE DEF Done
  <2> QED BY <1>3, <2>1
<1>9. \A k \in 0 .. n - 1 : k \in Right => k + 1 \in Right
  <2> SUFFICES ASSUME NEW k \in 0 .. n - 1, after[k] = Done(k)
               PROVE  after[k + 1] = Done(k + 1)
    <3>1. \A k \in 0 .. n - 1 : k + 1 \in 0 .. n
      OBVIOUS
    <3> HIDE DEF Done
    <3> QED BY <3>1
  <2>1. k + 1 \in 1 .. n /\ (k + 1) - 1 = k
    OBVIOUS
  <2>2. after[k + 1] = Copy(after[k], k * d, fill, d)
    <3> HIDE DEF d
    <3>1. after[k + 1] = Copy(after[(k + 1) - 1], ((k + 1) - 1) * d, fill, d)
      BY <1>6, <2>1
    <3> QED BY <2>1, <3>1
  <2>3. Copy(Done((k + 1) - 1), ((k + 1) - 1) * d, fill, d) = Done(k + 1)
    BY <1>4, <2>1
  <2> HIDE DEF Done, d
  <2> QED BY <2>1, <2>2, <2>3
<1>10. n \in Right
  <2> HIDE DEF Right
  <2>1. 0 .. n \subseteq Right
    BY <1>8, <1>9, LoopInduction
  <2> QED BY <2>1
<1> QED BY <1>7, <1>10

LEMMA RoundsExist ==
  ASSUME NEW d \in Nat \ {0}, NEW dataSize \in Nat, d < dataSize
  PROVE  \E k \in 0 .. dataSize : (k + 1) * d >= dataSize /\ k * d < dataSize
<1> DEFINE Enough == {k \in 0 .. dataSize : (k + 1) * d >= dataSize}
<1>1. dataSize \in Enough
  <2>1. (dataSize + 1) * d >= dataSize
    OBVIOUS
  <2> QED BY <2>1
<1>2. PICK m \in Enough : \A k \in Enough : m <= k
  <2>1. Enough \in SUBSET Nat
    OBVIOUS
  <2> HIDE DEF Enough
  <2> QED BY <1>1, <2>1, LeastElement
<1>3. m * d < dataSize
  <2>1. CASE m = 0
    BY <2>1
  <2>2. CASE m # 0
    <3>1. m - 1 \in 0 .. dataSize /\ (m - 1) + 1 = m /\ ~(m <= m - 1)
      BY <2>2
    <3>2. ~(((m - 1) + 1) * d >= dataSize)
      BY <1>2, <3>1
    <3>3. m * d \in Nat
      OBVIOUS
    <3> QED BY <3>1, <3>2, <3>3
  <2> QED BY <2>1, <2>2
<1> QED BY <1>3

\* A copy over the whole buffer.
Prefix(bytes, dataSize) == [i \in 1 .. dataSize |-> bytes[i]]

LEMMA WholeCopy ==
  ASSUME NEW dataSize \in Nat \ {0}, NEW X, NEW data \in [1 .. dataSize -> X], NEW bytes
  PROVE  Copy(data, 0, bytes, dataSize) = Prefix(bytes, dataSize)
<1>1. Copy(data, 0, bytes, dataSize) =
        [i \in DOMAIN data \cup (0 + 1 .. 0 + dataSize) |->
           IF i > 0 /\ i <= 0 + dataSize THEN bytes[i - 0] ELSE data[i]]
  BY DEF Copy
<1>2. DOMAIN data \cup (0 + 1 .. 0 + dataSize) = 1 .. dataSize
  OBVIOUS
<1>3. \A i \in 1 .. dataSize : i > 0 /\ i <= 0 + dataSize /\ i - 0 = i
  OBVIOUS
<1> QED BY <1>1, <1>2, <1>3 DEF Prefix

LEMMA RepeatedType ==
  ASSUME NEW X, NEW fill \in Seq(X), fill # <<>>, NEW dataSize \in Nat
  PROVE  Repeated(fill, dataSize) \in [1 .. dataSize -> X]
<1>1. Len(fill) \in Nat \ {0}
  OBVIOUS
<1>2. ASSUME NEW i \in 1 .. dataSize
      PROVE  ((i - 1) % Len(fill)) + 1 \in 1 .. Len(fill)
  <2>1. i - 1 \in Int
    OBVIOUS
  <2>2. (i - 1) % Len(fill) \in 0 .. Len(fill) - 1
    BY <1>1, <2>1
  <2> QED BY <1>1, <2>2
<1> QED BY <1>2 DEF Repeated

\* The loop and the two special copies all leave the pattern repeated.
LEMMA FillIsRepeated ==
  ASSUME NEW dataSize \in Nat \ {0}, NEW X, NEW data \in [1 .. dataSize -> X],
         NEW fill \in Seq(X), fill # <<>>
  PROVE  Fill(data, fill, dataSize) = Repeated(fill, dataSize)
<1> DEFINE d == Len(fill)
<1>1. d \in Nat \ {0}
  OBVIOUS
<1>2. CASE d >= dataSize
  <2>1. Fill(data, fill, dataSize) = [i \in 1 .. dataSize |-> fill[i]]
    <3>1. Copy(data, 0, fill, dataSize) = Prefix(fill, dataSize)
      BY WholeCopy
    <3> QED BY <1>2, <3>1 DEF Fill, Prefix
  <2>2. ASSUME NEW i \in 1 .. dataSize PROVE ((i - 1) % d) + 1 = i
    <3>1. i \in Nat /\ 0 \in Nat /\ 0 * d = 0
      BY <1>1
    <3>2. i > 0 * d /\ i <= 0 * d + d
      BY <1>1, <1>2, <3>1
    <3>3. ((i - 1) % d) + 1 = i - 0 * d
      <4> HIDE DEF d
      <4> QED BY <1>1, <3>1, <3>2, PositionInPattern
    <3> HIDE DEF d
    <3> QED BY <3>1, <3>3
  <2> QED BY <2>1, <2>2 DEF Repeated
<1>3. CASE d < dataSize
  <2> DEFINE rounds == CHOOSE k \in 0 .. dataSize :
               (k + 1) * d >= dataSize /\ k * d < dataSize
             filled == rounds * d
             data2 == AfterRounds(data, fill, rounds)
  <2>1. /\ rounds \in 0 .. dataSize
        /\ (rounds + 1) * d >= dataSize /\ filled < dataSize
    <3>1. \E k \in 0 .. dataSize : (k + 1) * d >= dataSize /\ k * d < dataSize
      BY <1>1, <1>3, RoundsExist
    <3> HIDE DEF d
    <3> QED BY <3>1
  <2>2. Fill(data, fill, dataSize) = Copy(data2, filled, fill, dataSize - filled)
    <3>1. ~(d >= dataSize)
      BY <1>1, <1>3
    <3> QED BY <3>1 DEF Fill
  <2> HIDE DEF rounds
  <2>3. filled \in Nat /\ filled + d >= dataSize /\ rounds \in Nat
    <3> HIDE DEF d
    <3>1. rounds \in Nat
      BY <2>1
    <3> QED BY <1>1, <2>1, <3>1, RoundsExceed
  <2>4. data2 = [i \in 1 .. dataSize |->
                   IF i <= filled THEN fill[((i - 1) % d) + 1] ELSE data[i]]
    BY <2>1, <2>3, AfterRoundsIsRepeated
  <2> HIDE DEF data2
  <2>5. ASSUME NEW i \in 1 .. dataSize, i > filled
        PROVE  ((i - 1) % d) + 1 = i - filled
    <3>1. i \in Nat /\ i <= filled + d
      BY <1>1, <2>3
    <3> HIDE DEF d
    <3> QED BY <1>1, <2>3, <2>5, <3>1, PositionInPattern
  <2> HIDE DEF filled, d
  <2>6. DOMAIN data2 \cup (filled + 1 .. filled + (dataSize - filled)) = 1 .. dataSize
    BY <2>1, <2>3, <2>4
  <2>7. Copy(data2, filled, fill, dataSize - filled) =
          [i \in 1 .. dataSize |->
             IF i > filled /\ i <= filled + (dataSize - filled)
               THEN fill[i - filled] ELSE data2[i]]
    <3>1. dataSize - filled # 0
      BY <2>1, <2>3
    <3> QED BY <2>6, <3>1 DEF Copy
  <2>8. ASSUME NEW i \in 1 .. dataSize
        PROVE  (IF i > filled /\ i <= filled + (dataSize - filled)
                  THEN fill[i - filled] ELSE data2[i]) = fill[((i - 1) % d) + 1]
    <3>1. CASE i > filled
      <4>1. i <= filled + (dataSize - filled)
        BY <2>3
      <4> QED BY <2>5, <3>1, <4>1
    <3>2. CASE i <= filled
      <4>1. ~(i > filled)
        BY <2>3, <3>2
      <4> QED BY <2>4, <3>2, <4>1
    <3> QED BY <2>3, <3>1, <3>2
  <2>9. Repeated(fill, dataSize) = [i \in 1 .. dataSize |-> fill[((i - 1) % d) + 1]]
    BY DEF Repeated, d
  <2> QED BY <2>2, <2>7, <2>8, <2>9
<1> QED BY <1>1, <1>2, <1>3

-----------------------------------------------------------------------------
(* The buffer.                                                             *)

Cell == Byte \cup {Junk}

BufferInv == BufferTypeOK /\ BufferIsExact

\* A buffer of the size that is asked for, or what there is if it has that size.
LEMMA AllocatedType ==
  ASSUME BufferInv, NEW dataSize \in Nat
  PROVE  /\ dataSize # 0 => Allocated(dataSize) \in [1 .. dataSize -> Cell]
         /\ dataSize = 0 => Allocated(dataSize) \in {<<>>, NoData}
<1>1. m_dataSize \in Nat /\ m_data \in Seq(Cell) \cup {NoData}
  BY DEF BufferInv, BufferTypeOK, Cell
<1>2. m_data # NoData => Len(m_data) = m_dataSize
  BY DEF BufferInv, BufferIsExact
<1>3. m_data = NoData => m_dataSize = 0
  BY DEF BufferInv, BufferIsExact
<1>4. CASE dataSize # m_dataSize
  <2>1. Allocated(dataSize) = [k \in 1 .. dataSize |-> Junk]
    BY <1>4 DEF Allocated
  <2>2. dataSize = 0 => Allocated(dataSize) = <<>>
    BY <2>1
  <2> QED BY <2>1, <2>2 DEF Cell
<1>5. CASE dataSize = m_dataSize
  <2>1. Allocated(dataSize) = m_data
    BY <1>5 DEF Allocated
  <2>2. m_data # NoData => m_data \in [1 .. dataSize -> Cell]
    BY <1>1, <1>2, <1>5
  <2>3. m_data # NoData /\ dataSize = 0 => m_data = <<>>
    BY <1>1, <1>2, <1>5
  <2> QED BY <1>3, <1>5, <2>1, <2>2, <2>3
<1> QED BY <1>4, <1>5

\* After any write of the whole buffer it has its size.
LEMMA WrittenBufferIsExact ==
  ASSUME NEW dataSize \in Nat, m_dataSize' = dataSize, m_size' = dataSize,
         IF dataSize = 0 THEN m_data' \in {<<>>, NoData}
                         ELSE m_data' \in [1 .. dataSize -> Cell]
  PROVE  BufferInv'
<1>1. CASE dataSize = 0
  <2>1. <<>> \in Seq(Cell) /\ Len(<<>>) = 0
    OBVIOUS
  <2> QED BY <1>1, <2>1 DEF BufferInv, BufferTypeOK, BufferIsExact, Cell
<1>2. CASE dataSize # 0
  <2>1. m_data' \in Seq(Cell) /\ Len(m_data') = dataSize
    BY <1>2
  <2> QED BY <2>1, NoDataAssumption DEF BufferInv, BufferTypeOK, BufferIsExact, Cell
<1> QED BY <1>1, <1>2

LEMMA SetFillPatternWrites ==
  ASSUME BufferInv, NEW fill \in Seq(Cell), NEW dataSize \in Nat,
         SetFillPattern(fill, dataSize)
  PROVE  /\ BufferInv'
         /\ dataSize # 0 => m_data' = Repeated(fill, dataSize)
         /\ dataSize = 0 => m_data' \in {<<>>, NoData}
<1>1. /\ fill # <<>>
      /\ m_data' = Fill(Allocated(dataSize), fill, dataSize)
      /\ m_dataSize' = dataSize /\ m_size' = dataSize
  BY DEF SetFillPattern
<1>2. dataSize # 0 => m_data' = Repeated(fill, dataSize)
  BY <1>1, AllocatedType, FillIsRepeated
<1>3. dataSize = 0 => m_data' \in {<<>>, NoData}
  <2> SUFFICES ASSUME dataSize = 0 PROVE m_data' \in {<<>>, NoData}
    OBVIOUS
  <2>1. Len(fill) >= dataSize
    OBVIOUS
  <2>2. m_data' = Allocated(dataSize)
    BY <1>1, <2>1 DEF Fill, Copy
  <2> QED BY <2>2, AllocatedType
<1>4. dataSize # 0 => m_data' \in [1 .. dataSize -> Cell]
  BY <1>1, <1>2, RepeatedType
<1> QED BY <1>1, <1>2, <1>3, <1>4, WrittenBufferIsExact

LEMMA SetFillByteWrites ==
  ASSUME BufferInv, NEW byte \in Byte, NEW dataSize \in Nat,
         SetFillByte(byte, dataSize)
  PROVE  /\ BufferInv'
         /\ dataSize # 0 => m_data' = [k \in 1 .. dataSize |-> byte]
         /\ dataSize = 0 => m_data' \in {<<>>, NoData}
<1> DEFINE bytes == [k \in 1 .. dataSize |-> byte]
<1>1. /\ m_data' = Copy(Allocated(dataSize), 0, bytes, dataSize)
      /\ m_dataSize' = dataSize /\ m_size' = dataSize
  BY DEF SetFillByte
<1>2. dataSize # 0 => m_data' = bytes
  <2> SUFFICES ASSUME dataSize # 0 PROVE m_data' = bytes
    OBVIOUS
  <2>1. m_data' = [k \in 1 .. dataSize |-> bytes[k]]
    <3> HIDE DEF bytes
    <3>1. dataSize \in Nat \ {0} /\ Allocated(dataSize) \in [1 .. dataSize -> Cell]
      BY AllocatedType
    <3>2. Copy(Allocated(dataSize), 0, bytes, dataSize) = Prefix(bytes, dataSize)
      BY <3>1, WholeCopy
    <3> QED BY <1>1, <3>2 DEF Prefix
  <2> QED BY <2>1
<1>3. dataSize = 0 => m_data' \in {<<>>, NoData}
  BY <1>1, AllocatedType DEF Copy
<1>4. dataSize # 0 => m_data' \in [1 .. dataSize -> Cell]
  BY <1>2 DEF Cell
<1> QED BY <1>1, <1>2, <1>3, <1>4, WrittenBufferIsExact

LEMMA SetFillStringWrites ==
  ASSUME BufferInv, NEW fill \in Seq(Byte), SetFillString(fill)
  PROVE  BufferInv' /\ m_data' \in Seq(Byte)
<1> DEFINE bytes == Append(fill, 0)
           dataSize == Len(fill) + 1
<1>1. /\ m_data' = Copy(Allocated(dataSize), 0, bytes, dataSize)
      /\ m_dataSize' = dataSize /\ m_size' = dataSize
  BY DEF SetFillString
<1>2. dataSize \in Nat \ {0} /\ bytes \in [1 .. dataSize -> Byte]
  <2>1. 0 \in Byte
    BY DEF Byte
  <2>2. bytes \in Seq(Byte) /\ Len(bytes) = dataSize /\ dataSize \in Nat \ {0}
    BY <2>1
  <2> HIDE DEF bytes, dataSize
  <2> QED BY <2>2
<1>3. m_data' = [k \in 1 .. dataSize |-> bytes[k]]
  <2> HIDE DEF bytes, dataSize
  <2>1. Allocated(dataSize) \in [1 .. dataSize -> Cell]
    BY <1>2, AllocatedType
  <2>2. Copy(Allocated(dataSize), 0, bytes, dataSize) = Prefix(bytes, dataSize)
    BY <1>2, <2>1, WholeCopy
  <2> QED BY <1>1, <2>2 DEF Prefix
<1>4. m_data' \in [1 .. dataSize -> Byte]
  <2> HIDE DEF bytes, dataSize
  <2> QED BY <1>2, <1>3
<1> HIDE DEF bytes, dataSize
<1>5. m_data' \in Seq(Byte) /\ m_data' \in [1 .. dataSize -> Cell]
  BY <1>2, <1>4 DEF Cell
<1> QED BY <1>1, <1>2, <1>5, WrittenBufferIsExact

LEMMA SetDataSizeForgets ==
  ASSUME NEW dataSize \in Nat, SetDataSize(dataSize)
  PROVE  BufferInv' /\ m_data' = NoData
BY DEF SetDataSize, BufferInv, BufferTypeOK, BufferIsExact
=============================================================================
