----------------------------- MODULE EchoBuffer -----------------------------
(***************************************************************************)
(* The packet buffer an SmsEchoClient inherits from the echo client of     *)
(* ns-3: m_data is allocated anew whenever another size is asked for, and  *)
(* three overloads of SetFill write it.  A write past the end of the       *)
(* buffer makes m_data longer than m_dataSize.                             *)
(***************************************************************************)
EXTENDS Integers, Sequences

CONSTANTS
  Junk,      \* what memory holds that was allocated and not written
  NoData     \* the null pointer

Byte == 0 .. 255

ASSUME JunkAssumption == Junk \notin Byte

\* The null pointer is no buffer.
ASSUME NoDataAssumption == NoData \notin Seq(Byte \cup {Junk})

VARIABLES m_data, m_dataSize, m_size

buffer == <<m_data, m_dataSize, m_size>>

BufferTypeOK ==
  /\ m_data \in Seq(Byte \cup {Junk}) \cup {NoData}
  /\ m_dataSize \in Nat
  /\ m_size \in Nat

\* The constructor, and the attribute PacketSize, which calls SetDataSize.
BufferInit(packetSize) ==
  /\ m_data = NoData
  /\ m_dataSize = 0
  /\ m_size = packetSize

SetDataSize(dataSize) ==
  /\ m_data' = NoData
  /\ m_dataSize' = 0
  /\ m_size' = dataSize

\* Mutant: the buffer is only replaced if it is too small.
GrowBuffer(dataSize) ==
  IF dataSize > m_dataSize THEN [i \in 1 .. dataSize |-> Junk] ELSE m_data

\* The buffer into which dataSize bytes are then written.
Allocated(dataSize) ==
  IF dataSize # m_dataSize THEN [i \in 1 .. dataSize |-> Junk] ELSE m_data

\* memcpy(&data[at], bytes, size); the null pointer is given for no bytes.
Copy(data, at, bytes, size) ==
  IF size = 0 THEN data
  ELSE [i \in DOMAIN data \cup (at + 1 .. at + size) |->
          IF i > at /\ i <= at + size THEN bytes[i - at] ELSE data[i]]

\* The loop of the third overload has copied the whole pattern n times.
AfterRounds(data, fill, n) ==
  LET after[k \in 0 .. n] ==
        IF k = 0 THEN data
                 ELSE Copy(after[k - 1], (k - 1) * Len(fill), fill, Len(fill))
  IN  after[n]

\* Mutant: the last fill copies the whole pattern.
FillOver(data, fill, dataSize) ==
  IF Len(fill) >= dataSize
    THEN Copy(data, 0, fill, dataSize)
    ELSE LET rounds == CHOOSE k \in 1 .. dataSize :
               k * Len(fill) >= dataSize /\ (k - 1) * Len(fill) < dataSize
         IN  AfterRounds(data, fill, rounds)

\* The third overload: one copy if the pattern is as long as the buffer, else
\* whole copies of it while another one is needed, and then a partial one.
Fill(data, fill, dataSize) ==
  IF Len(fill) >= dataSize
    THEN Copy(data, 0, fill, dataSize)
    ELSE LET rounds == CHOOSE k \in 0 .. dataSize :
               (k + 1) * Len(fill) >= dataSize /\ k * Len(fill) < dataSize
             filled == rounds * Len(fill)
         IN  Copy(AfterRounds(data, fill, rounds), filled, fill, dataSize - filled)

\* The three overloads.  A pattern is not empty: the loop would not end.
SetFillPattern(fill, dataSize) ==
  /\ fill # <<>>
  /\ m_data' = Fill(Allocated(dataSize), fill, dataSize)
  /\ m_dataSize' = dataSize
  /\ m_size' = dataSize

SetFillByte(byte, dataSize) ==
  /\ m_data' = Copy(Allocated(dataSize), 0, [i \in 1 .. dataSize |-> byte], dataSize)
  /\ m_dataSize' = dataSize
  /\ m_size' = dataSize

\* A string is sent with its terminating zero.
SetFillString(fill) ==
  LET dataSize == Len(fill) + 1
  IN  /\ m_data' = Copy(Allocated(dataSize), 0, Append(fill, 0), dataSize)
      /\ m_dataSize' = dataSize
      /\ m_size' = dataSize

-----------------------------------------------------------------------------

\* However the buffer was sized and filled before, m_dataSize is the length of
\* the memory that Send() hands to the packet, and GetDataSize() tells it:
\* no fill writes past the end of the buffer or leaves a part of it unwritten.
BufferIsExact ==
  IF m_data = NoData THEN m_dataSize = 0
                     ELSE Len(m_data) = m_dataSize /\ m_size = m_dataSize

\* "the contents of the fill buffer, repeated as many times as is required"
\* (sms-echo-client.h:173): the loop and the two special copies agree with it
\* for every length of the pattern and of the buffer, new or written before.
Repeated(fill, dataSize) == [i \in 1 .. dataSize |-> fill[((i - 1) % Len(fill)) + 1]]

FillRepeatsThePattern(fill, dataSize) ==
  SetFillPattern(fill, dataSize) /\ dataSize > 0 => m_data' = Repeated(fill, dataSize)
=============================================================================
