------------------------- MODULE SmsEchoClientProofs ------------------------
(***************************************************************************)
(* Proofs about SmsEchoClient for every set of nodes, catalogue, number of *)
(* chunks, initial distribution, content of the uninitialised counter,     *)
(* multiplier and bound of the queues: types, safety, and that the exchange *)
(* implements Dissemination.                                               *)
(***************************************************************************)
EXTENDS SmsEchoClient, FiniteSetTheorems, TLAPS

-----------------------------------------------------------------------------
(* Facts about the constants and the operators.                            *)

LEMMA FilesAreCounted ==
  ASSUME NEW F \in SUBSET File
  PROVE  IsFiniteSet(F) /\ Cardinality(F) \in Nat
BY FileAssumption, FS_Subset, FS_CardinalityType

LEMMA LargerIsNat ==
  ASSUME NEW a \in Nat, NEW b \in Nat
  PROVE  Larger(a, b) \in Nat /\ a <= Larger(a, b) /\ b <= Larger(a, b)
BY DEF Larger

\* What a handler that may request something does to the timers.
LEMMA RescheduleRequestTimers ==
  ASSUME Typed,
         files' \in [Node -> SUBSET File],
         NEW n \in Node, NEW s \in Node, NEW delay \in {"zero", "random"},
         RescheduleRequest(n, s, delay)
  PROVE  /\ sendEvent' = [sendEvent EXCEPT ![n] = TRUE]
         /\ replyEvent' = [replyEvent EXCEPT ![n] = NoEvent]
         /\ \/ requestEvent' = [requestEvent EXCEPT ![n] = NoEvent]
            \/ \E f \in File : \E c \in ChunkIds(f) :
                 /\ f \in FileToRequest(n, s)'
                 /\ IsFirstMissingChunk(n, f, c)'
                 /\ requestEvent' = [requestEvent EXCEPT ![n] =
                      [receiver |-> s, file |-> f, chunk |-> c,
                       delay |-> delay]]
<1>1. CASE FileToRequest(n, s)' = {} /\ Reschedule(n, NoEvent, NoEvent)
  BY <1>1 DEF Reschedule, CancelAndSchedule
<1>2. CASE ScheduleRequest(n, s, delay)
  <2>1. PICK f \in FileToRequest(n, s)' : \E c \in ChunkIds(f) :
          /\ IsFirstMissingChunk(n, f, c)'
          /\ Reschedule(n, [receiver |-> s, file |-> f, chunk |-> c,
                            delay |-> delay], NoEvent)
    BY <1>2 DEF ScheduleRequest
  <2>2. f \in File
    BY <2>1 DEF FileToRequest, FilesWithMinimumChunks, Requestable
  <2> QED BY <2>1, <2>2 DEF Reschedule, CancelAndSchedule
<1> QED BY <1>1, <1>2 DEF RescheduleRequest

LEMMA RescheduleRequestType ==
  ASSUME Typed,
         files' \in [Node -> SUBSET File],
         NEW n \in Node, NEW s \in Node, NEW delay \in {"zero", "random"},
         RescheduleRequest(n, s, delay)
  PROVE  /\ sendEvent' \in [Node -> BOOLEAN]
         /\ requestEvent' \in [Node -> RequestEvent \cup {NoEvent}]
         /\ replyEvent' \in [Node -> ReplyEvent \cup {NoEvent}]
<1>1. ASSUME NEW f \in File, NEW c \in ChunkIds(f)
      PROVE  [receiver |-> s, file |-> f, chunk |-> c, delay |-> delay]
               \in RequestEvent
  BY ChunksAssumption DEF RequestEvent, ChunkIds
<1>2. /\ sendEvent' = [sendEvent EXCEPT ![n] = TRUE]
      /\ replyEvent' = [replyEvent EXCEPT ![n] = NoEvent]
  BY RescheduleRequestTimers
<1>3. \E e \in RequestEvent \cup {NoEvent} :
        requestEvent' = [requestEvent EXCEPT ![n] = e]
  BY <1>1, RescheduleRequestTimers
<1> QED BY <1>2, <1>3 DEF Typed

-----------------------------------------------------------------------------
(* Every variable keeps its type.                                          *)

LEMMA InitType == Init => Typed
<1> SUFFICES ASSUME Init PROVE Typed
  OBVIOUS
<1>1. PICK initial \in Distributions, leftover \in [Node -> Leftover] :
        /\ files = initial
        /\ chunks = [n \in Node |-> [f \in File |->
                       IF f \in initial[n] THEN ChunkIds(f) ELSE {}]]
        /\ received = [n \in Node |-> [f \in File |->
                         IF f \in initial[n] THEN NumChunks[f] ELSE 0]]
        /\ maximum_full_files_seen = [n \in Node |->
             Larger(leftover[n], Cardinality(initial[n]))]
  BY DEF Init, SetFiles
<1>2. files \in [Node -> SUBSET File]
  BY <1>1, DistributionsAssumption
<1>3. chunks \in [Node -> [File -> SUBSET Nat]]
  BY <1>1, ChunksAssumption DEF ChunkIds
<1>4. received \in [Node -> [File -> Nat]]
  BY <1>1, ChunksAssumption
<1>5. maximum_full_files_seen \in [Node -> Nat]
  <2>1. ASSUME NEW n \in Node
        PROVE  Larger(leftover[n], Cardinality(initial[n])) \in Nat
    BY <1>1, <1>2, LeftoverAssumption, FilesAreCounted, LargerIsNat
  <2> QED BY <1>1, <2>1
<1>6. queue \in [Node -> Seq(Packet)]
  BY DEF Init
<1>7. holders \in [Node -> [File -> SUBSET Node]]
  BY DEF Init, SetFiles
<1>8. StartApplication /\ radio = NoFrame /\ aborted = FALSE
  BY DEF Init
<1> HIDE DEF Init
<1> QED BY <1>2, <1>3, <1>4, <1>5, <1>6, <1>7, <1>8
        DEF StartApplication, Typed

LEMMA FullFilesType ==
  ASSUME Typed, NEW n \in Node
  PROVE  FullFiles(n) \in SUBSET File
BY DEF Typed, FullFiles

\* A handler takes its node out of the receivers of the frame.
LEMMA HearType ==
  ASSUME Typed, NEW n \in Node, NEW s \in Node, NEW type,
         Hear(n, s, type)
  PROVE  /\ radio \in Frame
         /\ radio' \in Frame \cup {NoFrame}
         /\ queue' \in [Node -> Seq(Packet)]
<1>1. radio \in Frame
  BY DEF Typed, Hear
<1>2. CASE radio.to = {n}
  BY <1>1, <1>2 DEF Hear, Typed
<1>3. CASE radio.to # {n}
  <2>1. radio.to \ {n} \in (SUBSET Node) \ {{}}
    BY <1>1, <1>3 DEF Hear, Frame
  <2> QED BY <1>1, <1>3, <2>1 DEF Hear, Typed, Frame
<1> QED BY <1>1, <1>2, <1>3

LEMMA SendType ==
  ASSUME Typed, NEW n \in Node, Send(n)
  PROVE  Typed'
<1>1. maximum_full_files_seen' \in [Node -> Nat]
  BY FullFilesType, FilesAreCounted, LargerIsNat DEF Typed, Send, Advertise
<1>2. [type |-> "adv", files |-> FullFiles(n)] \in Packet
  BY FullFilesType DEF Packet, AdvPacket
<1>3. queue' \in [Node -> Seq(Packet)]
  BY <1>2 DEF Typed, Send, Advertise, Enqueue
<1> QED BY <1>1, <1>3 DEF Typed, Send, Advertise, contents

LEMMA RequestPacketType ==
  ASSUME Typed, NEW n \in Node, RequestPacket(n)
  PROVE  Typed'
<1>1. requestEvent[n] \in RequestEvent
  BY DEF Typed, RequestPacket
<1>2. [type |-> "req", receiver |-> requestEvent[n].receiver,
       file |-> requestEvent[n].file, chunk |-> requestEvent[n].chunk] \in Packet
  BY <1>1 DEF Packet, ReqPacket, RequestEvent
<1>3. queue' \in [Node -> Seq(Packet)]
  BY <1>2 DEF Typed, RequestPacket, Enqueue
<1> QED BY <1>3 DEF Typed, RequestPacket, contents

LEMMA ReplyType ==
  ASSUME Typed, NEW n \in Node, Reply(n)
  PROVE  Typed'
<1>1. replyEvent[n] \in ReplyEvent
  BY DEF Typed, Reply
<1>2. [type |-> "rep", requester |-> replyEvent[n].requester,
       file |-> replyEvent[n].file, chunk |-> replyEvent[n].chunk] \in Packet
  BY <1>1 DEF Packet, RepPacket, ReplyEvent
<1>3. queue' \in [Node -> Seq(Packet)]
  BY <1>2 DEF Typed, Reply, Enqueue
<1> QED BY <1>3 DEF Typed, Reply, contents

LEMMA TransmitType ==
  ASSUME Typed, NEW s \in Node, NEW R \in SUBSET Node, Transmit(s, R)
  PROVE  Typed'
<1>1. queue[s] \in Seq(Packet) /\ queue[s] # <<>>
  BY DEF Typed, Transmit
<1>2. Head(queue[s]) \in Packet /\ Tail(queue[s]) \in Seq(Packet)
  BY <1>1
<1>3. queue' \in [Node -> Seq(Packet)]
  BY <1>2 DEF Typed, Transmit
<1>4. radio' \in Frame \cup {NoFrame}
  BY <1>2 DEF Transmit, Frame
<1> QED BY <1>3, <1>4 DEF Typed, Transmit, contents, timers

LEMMA HandleAdvertisementType ==
  ASSUME Typed, NEW n \in Node, NEW s \in Node, HandleAdvertisement(n, s)
  PROVE  Typed'
<1>1. Hear(n, s, "adv") /\ radio \in Frame /\ radio.packet \in Packet
  BY HearType DEF HandleAdvertisement, Frame
<1>2. radio.packet.files \in SUBSET File
  BY <1>1 DEF Hear, Packet, AdvPacket, ReqPacket, RepPacket
<1>3. /\ files' \in [Node -> SUBSET File]
      /\ holders' \in [Node -> [File -> SUBSET Node]]
      /\ seen_nodes' \in [Node -> SUBSET Node]
  BY <1>2 DEF Typed, HandleAdvertisement, AddNodeToSeenList,
              DecodeFilesForAdv
<1>4. maximum_full_files_seen' \in [Node -> Nat]
  BY <1>2, FilesAreCounted, LargerIsNat
     DEF Typed, HandleAdvertisement, DecodeFilesForAdv
<1>5. RescheduleRequest(n, s, "random")
  BY DEF HandleAdvertisement
<1> QED BY <1>1, <1>3, <1>4, <1>5, HearType, RescheduleRequestType
        DEF Typed, HandleAdvertisement, DecodeFilesForAdv

LEMMA HandleRequestType ==
  ASSUME Typed, NEW n \in Node, NEW s \in Node, HandleRequest(n, s)
  PROVE  Typed'
<1>1. Hear(n, s, "req") /\ radio \in Frame /\ radio.packet \in Packet
  BY HearType DEF HandleRequest, Frame
<1>2. radio.packet \in ReqPacket
  BY <1>1 DEF Hear, Packet, AdvPacket, ReqPacket, RepPacket
<1>3. [requester |-> s, file |-> radio.packet.file,
       chunk |-> radio.packet.chunk] \in ReplyEvent
  BY <1>2 DEF ReqPacket, ReplyEvent
<1>4. /\ sendEvent' \in [Node -> BOOLEAN]
      /\ requestEvent' \in [Node -> RequestEvent \cup {NoEvent}]
      /\ replyEvent' \in [Node -> ReplyEvent \cup {NoEvent}]
      /\ aborted' \in BOOLEAN
  <2>1. CASE IgnoreRequest(n)
    BY <2>1 DEF Typed, IgnoreRequest, Reschedule, CancelAndSchedule
  <2>2. CASE AnswerRequest(n, s, radio.packet)
    BY <1>3, <2>2 DEF Typed, AnswerRequest, Reschedule, CancelAndSchedule
  <2>3. CASE AbortOnRequest(n, radio.packet)
    BY <2>3 DEF Typed, AbortOnRequest, CancelAndSchedule
  <2> QED BY <2>1, <2>2, <2>3 DEF HandleRequest
<1> QED BY <1>1, <1>4, HearType DEF Typed, HandleRequest, contents

LEMMA HandleReplyType ==
  ASSUME Typed, NEW n \in Node, NEW s \in Node, HandleReply(n, s)
  PROVE  Typed'
<1>1. Hear(n, s, "rep") /\ radio \in Frame /\ radio.packet \in Packet
  BY HearType DEF HandleReply, Frame
<1>2. radio.packet \in RepPacket
  BY <1>1 DEF Hear, Packet, AdvPacket, ReqPacket, RepPacket
<1> DEFINE f == radio.packet.file
           c == radio.packet.chunk
<1>3. f \in File /\ c \in Nat
  BY <1>2 DEF RepPacket
<1>4. AddNewChunk(n, f, c, s)
  BY DEF HandleReply
<1>5. /\ files' \in [Node -> SUBSET File]
      /\ chunks' \in [Node -> [File -> SUBSET Nat]]
      /\ received' \in [Node -> [File -> Nat]]
      /\ holders' \in [Node -> [File -> SUBSET Node]]
  <2>1. CASE UNCHANGED contents
    BY <2>1 DEF Typed, contents
  <2>2. CASE RecordChunk(n, f, c, s)
    <3>1. received' \in [Node -> [File -> Nat]]
      BY <1>3, <2>2 DEF Typed, RecordChunk
    <3>2. chunks' \in [Node -> [File -> SUBSET Nat]]
      BY <1>3, <2>2 DEF Typed, RecordChunk
    <3>3. holders' \in [Node -> [File -> SUBSET Node]]
      BY <1>3, <2>2 DEF Typed, RecordChunk
    <3>4. files' \in [Node -> SUBSET File]
      BY <1>3, <2>2 DEF Typed, RecordChunk
    <3> QED BY <3>1, <3>2, <3>3, <3>4
  <2> QED BY <1>4, <2>1, <2>2 DEF AddNewChunk, contents
<1>6. maximum_full_files_seen' \in [Node -> Nat]
  <2>1. FullFiles(n)' \in SUBSET File
    BY <1>5 DEF FullFiles
  <2>2. maximum_full_files_seen[n] \in Nat
    BY DEF Typed
  <2>3. Larger(maximum_full_files_seen[n], Cardinality(FullFiles(n)')) \in Nat
    BY <2>1, <2>2, FilesAreCounted, LargerIsNat
  <2>4. CASE UpdateMaximum(n)
    BY <2>3, <2>4 DEF Typed, UpdateMaximum
  <2> QED BY <1>4, <2>4 DEF Typed, AddNewChunk
<1>7. /\ sendEvent' \in [Node -> BOOLEAN]
      /\ requestEvent' \in [Node -> RequestEvent \cup {NoEvent}]
      /\ replyEvent' \in [Node -> ReplyEvent \cup {NoEvent}]
  <2>1. CASE RescheduleRequest(n, s, "zero")
    BY <2>1, <1>5, RescheduleRequestType
  <2>2. CASE Reschedule(n, NoEvent, NoEvent)
    BY <2>2 DEF Typed, Reschedule, CancelAndSchedule
  <2> QED BY <2>1, <2>2 DEF HandleReply
<1> QED BY <1>1, <1>5, <1>6, <1>7, HearType DEF Typed, HandleReply

\* Unfolds the next-state relation once for all the proofs by cases.
LEMMA StepCases ==
  ASSUME [Next]_vars
  PROVE  \/ \E n \in Node : Send(n)
         \/ \E n \in Node : RequestPacket(n)
         \/ \E n \in Node : Reply(n)
         \/ \E n \in Node, s \in Node : HandleAdvertisement(n, s)
         \/ \E n \in Node, s \in Node : HandleRequest(n, s)
         \/ \E n \in Node, s \in Node : HandleReply(n, s)
         \/ \E s \in Node, R \in SUBSET Node : s \notin R /\ Transmit(s, R)
         \/ UNCHANGED vars
BY DEF Next, Events, HandleRead, Receivers

LEMMA TypeStep == Typed /\ [Next]_vars => Typed'
<1> SUFFICES ASSUME Typed, [Next]_vars PROVE Typed'
  OBVIOUS
<1>1. CASE UNCHANGED vars
  BY <1>1 DEF Typed, vars, contents, timers
<1> QED BY <1>1, StepCases, SendType, RequestPacketType, ReplyType,
           HandleAdvertisementType, HandleRequestType, HandleReplyType,
           TransmitType

-----------------------------------------------------------------------------
(* Safety.  That a node only asks nodes that can answer rests on all of the *)
(* following at once, which is why the invariant is one conjunction: the   *)
(* counters agree with the bitmaps (or a full file could lose its state by *)
(* being counted again), the holders have their files, and what is armed or *)
(* on the air was true of its sender and still is.                         *)

Inv ==
  /\ Typed
  /\ NoSelfReception
  /\ CounterMatchesBitmap
  /\ HoldersHaveFile
  /\ ExchangesAreServable
  /\ NeverAborts

-----------------------------------------------------------------------------
(* Facts about one state.                                                  *)

LEMMA ChunkIdsAreCounted ==
  ASSUME NEW f \in File
  PROVE  /\ ChunkIds(f) \subseteq Nat
         /\ IsFiniteSet(ChunkIds(f))
         /\ Cardinality(ChunkIds(f)) = NumChunks[f]
<1>1. NumChunks[f] \in Nat \ {0}
  BY ChunksAssumption
<1> DEFINE last == NumChunks[f] - 1
<1>2. last \in Int /\ ~(0 > last) /\ last - 0 + 1 = NumChunks[f]
  BY <1>1
<1> HIDE DEF last
<1>3. /\ IsFiniteSet(0 .. last)
      /\ Cardinality(0 .. last) = last - 0 + 1
  BY <1>2, FS_Interval
<1>4. ChunkIds(f) = 0 .. last
  BY DEF ChunkIds, last
<1> QED BY <1>2, <1>3, <1>4

\* is_full() looks at the counter only, and is right about the bitmap.
LEMMA FullMeansAllChunks ==
  ASSUME Typed, CounterMatchesBitmap, NEW n \in Node, NEW f \in File
  PROVE  IsFull(n, f) <=> chunks[n][f] = ChunkIds(f)
<1>1. /\ chunks[n][f] \subseteq ChunkIds(f)
      /\ received[n][f] = Cardinality(chunks[n][f])
  BY DEF CounterMatchesBitmap
<1>2. IsFiniteSet(ChunkIds(f)) /\ Cardinality(ChunkIds(f)) = NumChunks[f]
  BY ChunkIdsAreCounted
<1>3. Cardinality(ChunkIds(f)) = Cardinality(chunks[n][f])
        => ChunkIds(f) = chunks[n][f]
  BY <1>1, <1>2, FS_Subset
<1> QED BY <1>1, <1>2, <1>3 DEF IsFull

\* A file a node does not know of is not full: files have a chunk at least.
LEMMA UnknownIsNotFull ==
  ASSUME Typed, CounterMatchesBitmap, NEW n \in Node,
         NEW f \in File \ files[n]
  PROVE  ~IsFull(n, f)
<1>1. received[n][f] = 0
  BY FS_EmptySet DEF CounterMatchesBitmap
<1> QED BY <1>1, ChunksAssumption DEF IsFull

\* The packets of a node that hands one to its interface.
LEMMA EnqueueOnAir ==
  ASSUME Typed, NEW n \in Node, NEW p, Enqueue(n, p), radio' = radio,
         NEW m \in Node, NEW q \in OnAir(m)'
  PROVE  q \in OnAir(m) \/ (m = n /\ q = p)
<1>1. CASE radio # NoFrame /\ radio.from = m /\ q = radio.packet
  BY <1>1 DEF OnAir
<1>2. CASE \E i \in DOMAIN queue'[m] : q = queue'[m][i]
  <2>1. CASE m # n
    BY <1>2, <2>1 DEF OnAir, Enqueue, Typed
  <2>2. CASE m = n
    <3>1. queue[n] \in Seq(Packet) /\ queue'[n] = Append(queue[n], p)
      BY DEF Typed, Enqueue
    <3>2. PICK i \in DOMAIN queue'[n] : q = queue'[n][i]
      BY <1>2, <2>2
    <3>3. CASE i = Len(queue[n]) + 1
      BY <2>2, <3>1, <3>2, <3>3
    <3>4. CASE i # Len(queue[n]) + 1
      <4>1. i \in DOMAIN queue[n] /\ q = queue[n][i]
        BY <3>1, <3>2, <3>4
      <4> QED BY <2>2, <4>1 DEF OnAir
    <3> QED BY <3>3, <3>4
  <2> QED BY <2>1, <2>2
<1> QED BY <1>1, <1>2 DEF OnAir

\* Transmitting only moves a packet from the queue to the air, or loses it.
LEMMA TransmitOnAir ==
  ASSUME Typed, NEW s \in Node, NEW R, Transmit(s, R),
         NEW m \in Node, NEW q \in OnAir(m)'
  PROVE  q \in OnAir(m)
<1>1. queue[s] \in Seq(Packet) /\ queue[s] # <<>>
  BY DEF Typed, Transmit
<1>2. 1 \in DOMAIN queue[s] /\ Head(queue[s]) = queue[s][1]
  BY <1>1
<1>3. CASE radio' # NoFrame /\ radio'.from = m /\ q = radio'.packet
  <2>1. m = s /\ q = Head(queue[s])
    BY <1>3 DEF Transmit
  <2> QED BY <1>2, <2>1 DEF OnAir
<1>4. CASE \E i \in DOMAIN queue'[m] : q = queue'[m][i]
  <2>1. PICK i \in DOMAIN queue'[m] : q = queue'[m][i]
    BY <1>4
  <2>2. CASE m # s
    BY <2>1, <2>2 DEF OnAir, Transmit, Typed
  <2>3. CASE m = s
    <3>1. queue'[s] = Tail(queue[s])
      BY DEF Transmit, Typed
    <3>2. i + 1 \in DOMAIN queue[s] /\ q = queue[s][i + 1]
      BY <1>1, <2>1, <2>3, <3>1
    <3> QED BY <2>3, <3>2 DEF OnAir
  <2> QED BY <2>2, <2>3
<1> QED BY <1>3, <1>4 DEF OnAir

\* The packet a handler works on is on the air; hearing adds none.
LEMMA HearOnAir ==
  ASSUME Typed, NEW n \in Node, NEW s \in Node, NEW type, Hear(n, s, type)
  PROVE  /\ radio.packet \in OnAir(s)
         /\ radio.packet.type = type
         /\ \A m \in Node : OnAir(m)' \subseteq OnAir(m)
<1>1. radio # NoFrame /\ radio.from = s /\ radio.packet.type = type
  BY DEF Hear
<1>2. \/ radio' = NoFrame
      \/ radio'.from = radio.from /\ radio'.packet = radio.packet
  <2>1. radio \in Frame
    BY HearType
  <2>2. CASE radio' = [radio EXCEPT !.to = radio.to \ {n}]
    BY <2>1, <2>2 DEF Frame
  <2>3. \/ radio' = NoFrame
        \/ radio' = [radio EXCEPT !.to = radio.to \ {n}]
    BY DEF Hear
  <2> QED BY <2>2, <2>3
<1>3. queue' = queue
  BY DEF Hear
<1>4. ASSUME NEW m \in Node, NEW q \in OnAir(m)' PROVE q \in OnAir(m)
  BY <1>1, <1>2, <1>3, <1>4 DEF OnAir
<1>5. radio.packet \in OnAir(s)
  BY <1>1 DEF OnAir
<1> QED BY <1>1, <1>4, <1>5

LEMMA HearNoSelfReception ==
  ASSUME Typed, NoSelfReception, NEW n \in Node, NEW s \in Node, NEW type,
         Hear(n, s, type)
  PROVE  n # s /\ NoSelfReception'
<1>1. radio \in Frame /\ radio.from \notin radio.to /\ radio.from = s
      /\ n \in radio.to
  BY HearType DEF Hear, NoSelfReception
<1>2. radio' = NoFrame \/ radio' = [radio EXCEPT !.to = radio.to \ {n}]
  BY DEF Hear
<1> QED BY <1>1, <1>2 DEF NoSelfReception, Frame

-----------------------------------------------------------------------------
(* Requests and replies stay servable when no node loses a full file and   *)
(* whatever is new is servable.                                            *)

LEMMA ServableStep ==
  ASSUME ExchangesAreServable,
         \A m \in Node : FullFiles(m) \subseteq FullFiles(m)',
         Typed,
         \A m \in Node :
           /\ \/ requestEvent'[m] = requestEvent[m]
              \/ requestEvent'[m] # NoEvent =>
                   CanServe(requestEvent[m].receiver, requestEvent[m].file,
                            requestEvent[m].chunk)'
           /\ \/ replyEvent'[m] = replyEvent[m]
              \/ replyEvent'[m] # NoEvent =>
                   CanServe(m, replyEvent[m].file, replyEvent[m].chunk)',
         \A m \in Node : \A p \in OnAir(m)' :
           p \in OnAir(m) \/ PacketIsServable(m, p)'
  PROVE  ExchangesAreServable'
<1> SUFFICES ASSUME NEW m \in Node
             PROVE  /\ EventsAreServable(m)'
                    /\ \A p \in OnAir(m)' : PacketIsServable(m, p)'
  BY DEF ExchangesAreServable
<1>1. ASSUME NEW r \in Node, NEW f, NEW c, CanServe(r, f, c)
      PROVE  CanServe(r, f, c)'
  BY <1>1 DEF CanServe
<1>2. EventsAreServable(m) /\ \A p \in OnAir(m) : PacketIsServable(m, p)
  BY DEF ExchangesAreServable
<1>3. (requestEvent[m] # NoEvent =>
         CanServe(requestEvent[m].receiver, requestEvent[m].file,
                  requestEvent[m].chunk))'
  <2>1. requestEvent[m] # NoEvent => requestEvent[m].receiver \in Node
    BY DEF Typed, RequestEvent
  <2> QED BY <1>1, <1>2, <2>1 DEF EventsAreServable
<1>4. (replyEvent[m] # NoEvent =>
         CanServe(m, replyEvent[m].file, replyEvent[m].chunk))'
  BY <1>1, <1>2 DEF EventsAreServable
<1>5. ASSUME NEW p \in OnAir(m), PacketIsServable(m, p)
      PROVE  PacketIsServable(m, p)'
  <2>1. p \in Packet
    BY DEF OnAir, Typed, Frame
  <2>2. p.type = "req" => p.receiver \in Node
    BY <2>1 DEF Packet, AdvPacket, ReqPacket, RepPacket
  <2> QED BY <1>1, <1>5, <2>2 DEF PacketIsServable
<1> QED BY <1>2, <1>3, <1>4, <1>5 DEF EventsAreServable

-----------------------------------------------------------------------------
(* The invariant holds at the start, and every action keeps it.            *)

LEMMA InitInv == Init => Inv
<1> SUFFICES ASSUME Init PROVE Inv
  OBVIOUS
<1>1. PICK initial \in Distributions :
        /\ files = initial
        /\ chunks = [n \in Node |-> [f \in File |->
                       IF f \in initial[n] THEN ChunkIds(f) ELSE {}]]
        /\ received = [n \in Node |-> [f \in File |->
                         IF f \in initial[n] THEN NumChunks[f] ELSE 0]]
  BY DEF Init, SetFiles
<1>2. CounterMatchesBitmap
  <2> SUFFICES ASSUME NEW n \in Node, NEW f \in File
               PROVE  /\ chunks[n][f] \subseteq ChunkIds(f)
                      /\ received[n][f] = Cardinality(chunks[n][f])
                      /\ f \notin files[n] => chunks[n][f] = {}
    BY DEF CounterMatchesBitmap
  <2>1. CASE f \in initial[n]
    BY <1>1, <2>1, ChunkIdsAreCounted
  <2>2. CASE f \notin initial[n]
    BY <1>1, <2>2, FS_EmptySet
  <2> QED BY <2>1, <2>2
<1>3. ASSUME NEW n \in Node PROVE OnAir(n) = {}
  BY DEF Init, StartApplication, OnAir
<1>4. ExchangesAreServable
  BY <1>3 DEF Init, StartApplication, ExchangesAreServable, EventsAreServable
<1> QED BY <1>2, <1>4, InitType
        DEF Inv, Init, SetFiles, NoSelfReception, HoldersHaveFile, NeverAborts

LEMMA SendInv ==
  ASSUME Inv, NEW n \in Node, Send(n)
  PROVE  Inv'
<1> DEFINE packet == [type |-> "adv", files |-> FullFiles(n)]
<1>1. Typed /\ Typed'
  BY SendType DEF Inv
<1>2. UNCHANGED <<files, chunks, received, holders, requestEvent, replyEvent,
                  radio, aborted>>
  BY DEF Send, Advertise, contents
<1>3. \A m \in Node : FullFiles(m)' = FullFiles(m)
  BY <1>2 DEF FullFiles, IsFull
<1>4. Enqueue(n, packet)
  BY DEF Send, Advertise
<1>5. ASSUME NEW m \in Node, NEW p \in OnAir(m)'
      PROVE  p \in OnAir(m) \/ PacketIsServable(m, p)'
  <2>1. p \in OnAir(m) \/ (m = n /\ p = packet)
    BY <1>1, <1>2, <1>4, EnqueueOnAir
  <2>2. CASE m = n /\ p = packet
    BY <1>3, <2>2 DEF PacketIsServable
  <2> QED BY <2>1, <2>2
<1>6. ExchangesAreServable'
  BY <1>1, <1>2, <1>3, <1>5, ServableStep DEF Inv
<1> QED BY <1>1, <1>2, <1>3, <1>6
        DEF Inv, NoSelfReception, CounterMatchesBitmap, HoldersHaveFile,
            NeverAborts

LEMMA RequestPacketInv ==
  ASSUME Inv, NEW n \in Node, RequestPacket(n)
  PROVE  Inv'
<1> DEFINE packet == [type |-> "req", receiver |-> requestEvent[n].receiver,
                      file |-> requestEvent[n].file,
                      chunk |-> requestEvent[n].chunk]
<1>1. Typed /\ Typed'
  BY RequestPacketType DEF Inv
<1>2. UNCHANGED <<files, chunks, received, holders, replyEvent, radio, aborted>>
  BY DEF RequestPacket, contents
<1>3. \A m \in Node : FullFiles(m)' = FullFiles(m)
  BY <1>2 DEF FullFiles, IsFull
<1>4. requestEvent[n] # NoEvent /\ Enqueue(n, packet)
  BY DEF RequestPacket
<1>5. /\ requestEvent[n].receiver \in Node
      /\ CanServe(packet.receiver, packet.file, packet.chunk)
  BY <1>1, <1>4 DEF Typed, RequestEvent, Inv, ExchangesAreServable,
                    EventsAreServable
<1>6. ASSUME NEW m \in Node, NEW p \in OnAir(m)'
      PROVE  p \in OnAir(m) \/ PacketIsServable(m, p)'
  <2>1. p \in OnAir(m) \/ (m = n /\ p = packet)
    BY <1>1, <1>2, <1>4, EnqueueOnAir
  <2>2. CASE m = n /\ p = packet
    BY <1>3, <1>5, <2>2 DEF PacketIsServable, CanServe
  <2> QED BY <2>1, <2>2
<1>7. \A m \in Node :
        requestEvent'[m] = requestEvent[m] \/ requestEvent'[m] = NoEvent
  BY <1>1 DEF RequestPacket, Typed
<1>8. ExchangesAreServable'
  BY <1>1, <1>2, <1>3, <1>6, <1>7, ServableStep DEF Inv
<1> QED BY <1>1, <1>2, <1>3, <1>8
        DEF Inv, NoSelfReception, CounterMatchesBitmap, HoldersHaveFile,
            NeverAborts

LEMMA ReplyInv ==
  ASSUME Inv, NEW n \in Node, Reply(n)
  PROVE  Inv'
<1> DEFINE packet == [type |-> "rep", requester |-> replyEvent[n].requester,
                      file |-> replyEvent[n].file,
                      chunk |-> replyEvent[n].chunk]
<1>1. Typed /\ Typed'
  BY ReplyType DEF Inv
<1>2. UNCHANGED <<files, chunks, received, holders, requestEvent, radio,
                  aborted>>
  BY DEF Reply, contents
<1>3. \A m \in Node : FullFiles(m)' = FullFiles(m)
  BY <1>2 DEF FullFiles, IsFull
<1>4. replyEvent[n] # NoEvent /\ Enqueue(n, packet)
  BY DEF Reply
<1>5. CanServe(n, packet.file, packet.chunk)
  BY <1>4 DEF Inv, ExchangesAreServable, EventsAreServable
<1>6. ASSUME NEW m \in Node, NEW p \in OnAir(m)'
      PROVE  p \in OnAir(m) \/ PacketIsServable(m, p)'
  <2>1. p \in OnAir(m) \/ (m = n /\ p = packet)
    BY <1>1, <1>2, <1>4, EnqueueOnAir
  <2>2. CASE m = n /\ p = packet
    BY <1>3, <1>5, <2>2 DEF PacketIsServable, CanServe
  <2> QED BY <2>1, <2>2
<1>7. \A m \in Node :
        replyEvent'[m] = replyEvent[m] \/ replyEvent'[m] = NoEvent
  BY <1>1 DEF Reply, Typed
<1>8. ExchangesAreServable'
  BY <1>1, <1>2, <1>3, <1>6, <1>7, ServableStep DEF Inv
<1> QED BY <1>1, <1>2, <1>3, <1>8
        DEF Inv, NoSelfReception, CounterMatchesBitmap, HoldersHaveFile,
            NeverAborts

LEMMA TransmitInv ==
  ASSUME Inv, NEW s \in Node, NEW R \in SUBSET Node, s \notin R,
         Transmit(s, R)
  PROVE  Inv'
<1>1. Typed /\ Typed'
  BY TransmitType DEF Inv
<1>2. UNCHANGED <<files, chunks, received, holders, requestEvent, replyEvent,
                  aborted>>
  BY DEF Transmit, contents, timers
<1>3. \A m \in Node : FullFiles(m)' = FullFiles(m)
  BY <1>2 DEF FullFiles, IsFull
<1>4. \A m \in Node : \A p \in OnAir(m)' : p \in OnAir(m)
  BY <1>1, TransmitOnAir
<1>5. ExchangesAreServable'
  BY <1>1, <1>2, <1>3, <1>4, ServableStep DEF Inv
<1>6. NoSelfReception'
  BY DEF Transmit, NoSelfReception
<1> QED BY <1>1, <1>2, <1>3, <1>5, <1>6
        DEF Inv, CounterMatchesBitmap, HoldersHaveFile, NeverAborts

\* A handler that calls getFileToRequest asks a node that has the file.
LEMMA RescheduleRequestServable ==
  ASSUME Typed, files' \in [Node -> SUBSET File], HoldersHaveFile',
         NEW n \in Node, NEW s \in Node, NEW delay \in {"zero", "random"},
         RescheduleRequest(n, s, delay)
  PROVE  \A m \in Node :
           /\ \/ requestEvent'[m] = requestEvent[m]
              \/ requestEvent'[m] # NoEvent =>
                   CanServe(requestEvent[m].receiver, requestEvent[m].file,
                            requestEvent[m].chunk)'
           /\ replyEvent'[m] = replyEvent[m] \/ replyEvent'[m] = NoEvent
<1>1. \A m \in Node :
        replyEvent'[m] = replyEvent[m] \/ replyEvent'[m] = NoEvent
  BY RescheduleRequestTimers DEF Typed
<1>2. CASE requestEvent' = [requestEvent EXCEPT ![n] = NoEvent]
  BY <1>1, <1>2 DEF Typed
<1>3. ASSUME NEW f \in File, NEW c \in ChunkIds(f),
             f \in FileToRequest(n, s)',
             requestEvent' = [requestEvent EXCEPT ![n] =
               [receiver |-> s, file |-> f, chunk |-> c, delay |-> delay]]
      PROVE  \A m \in Node :
               \/ requestEvent'[m] = requestEvent[m]
               \/ CanServe(requestEvent[m].receiver, requestEvent[m].file,
                           requestEvent[m].chunk)'
  <2>1. s \in holders'[n][f]
    BY <1>3 DEF FileToRequest, FilesWithMinimumChunks, Requestable
  <2>2. f \in FullFiles(s)'
    BY <2>1 DEF HoldersHaveFile
  <2>3. requestEvent'[n] =
          [receiver |-> s, file |-> f, chunk |-> c, delay |-> delay]
    BY <1>3 DEF Typed
  <2>4. CanServe(requestEvent[n].receiver, requestEvent[n].file,
                 requestEvent[n].chunk)'
    BY <2>2, <2>3 DEF CanServe
  <2> QED BY <1>3, <2>4 DEF Typed
<1> QED BY <1>1, <1>2, <1>3, RescheduleRequestTimers

LEMMA HandleAdvertisementInv ==
  ASSUME Inv, NEW n \in Node, NEW s \in Node, HandleAdvertisement(n, s)
  PROVE  Inv'
<1> DEFINE advertised == radio.packet.files
<1>1. Typed /\ Typed'
  BY HandleAdvertisementType DEF Inv
<1>2. Hear(n, s, "adv") /\ RescheduleRequest(n, s, "random")
      /\ UNCHANGED <<chunks, received, aborted>>
  BY DEF HandleAdvertisement, DecodeFilesForAdv
<1>3. /\ files' = [files EXCEPT ![n] = @ \cup advertised]
      /\ holders' = [holders EXCEPT ![n] = [f \in File |->
           IF f \in advertised THEN @[f] \cup {s} ELSE @[f]]]
  BY DEF HandleAdvertisement, DecodeFilesForAdv
<1>4. advertised \subseteq FullFiles(s)
  BY <1>1, <1>2, HearOnAir DEF Inv, ExchangesAreServable, PacketIsServable
<1>5. \A m \in Node : FullFiles(m) \subseteq FullFiles(m)'
  BY <1>1, <1>2, <1>3 DEF FullFiles, IsFull, Typed
<1>6. HoldersHaveFile'
  <2> SUFFICES ASSUME NEW m \in Node, NEW h \in Node, NEW f \in File,
                      h \in holders'[m][f]
               PROVE  f \in FullFiles(h)'
    BY DEF HoldersHaveFile
  <2>1. CASE h \in holders[m][f]
    BY <1>5, <2>1 DEF Inv, HoldersHaveFile
  <2>2. CASE h \notin holders[m][f]
    <3>1. h = s /\ f \in advertised
      BY <1>1, <1>3, <2>2 DEF Typed
    <3> QED BY <1>4, <1>5, <3>1
  <2> QED BY <2>1, <2>2
<1>7. CounterMatchesBitmap'
  BY <1>1, <1>2, <1>3 DEF Inv, CounterMatchesBitmap, Typed
<1>8. ExchangesAreServable'
  <2>1. \A m \in Node : \A p \in OnAir(m)' : p \in OnAir(m)
    BY <1>1, <1>2, HearOnAir
  <2>2. files' \in [Node -> SUBSET File]
    BY <1>1 DEF Typed
  <2> QED BY <1>1, <1>2, <1>5, <1>6, <2>1, <2>2, RescheduleRequestServable,
             ServableStep DEF Inv
<1> QED BY <1>1, <1>2, <1>6, <1>7, <1>8, HearNoSelfReception
        DEF Inv, NeverAborts

LEMMA HandleRequestInv ==
  ASSUME Inv, NEW n \in Node, NEW s \in Node, HandleRequest(n, s)
  PROVE  Inv' /\ sendEvent'[n]
<1> DEFINE request == radio.packet
<1>1. Typed /\ Typed'
  BY HandleRequestType DEF Inv
<1>2. Hear(n, s, "req") /\ UNCHANGED <<files, chunks, received, holders>>
  BY DEF HandleRequest, contents
<1>3. \A m \in Node : FullFiles(m)' = FullFiles(m)
  BY <1>2 DEF FullFiles, IsFull
<1>4. CanServe(request.receiver, request.file, request.chunk)
  BY <1>1, <1>2, HearOnAir DEF Inv, ExchangesAreServable, PacketIsServable
<1>5. \/ IgnoreRequest(n)
      \/ request.receiver = n /\ AnswerRequest(n, s, request)
  <2>1. request.receiver = n => request.file \in files[n]
    BY <1>4 DEF CanServe, FullFiles
  <2> QED BY <2>1 DEF HandleRequest, AbortOnRequest, IsKnown
<1>6. /\ aborted' = aborted
      /\ sendEvent' = [sendEvent EXCEPT ![n] = TRUE]
      /\ requestEvent' = [requestEvent EXCEPT ![n] = NoEvent]
  BY <1>5 DEF IgnoreRequest, AnswerRequest, Reschedule, CancelAndSchedule
<1>7. \A m \in Node :
        \/ replyEvent'[m] = replyEvent[m]
        \/ replyEvent'[m] # NoEvent =>
             CanServe(m, replyEvent[m].file, replyEvent[m].chunk)'
  <2>1. CASE IgnoreRequest(n)
    BY <1>1, <2>1 DEF Typed, IgnoreRequest, Reschedule, CancelAndSchedule
  <2>2. CASE request.receiver = n /\ AnswerRequest(n, s, request)
    <3>1. replyEvent' = [replyEvent EXCEPT ![n] = [requester |-> s,
            file |-> request.file, chunk |-> request.chunk]]
      BY <2>2 DEF AnswerRequest, Reschedule, CancelAndSchedule
    <3>2. replyEvent'[n] = [requester |-> s, file |-> request.file,
                            chunk |-> request.chunk]
      BY <1>1, <3>1 DEF Typed
    <3>3. CanServe(n, replyEvent[n].file, replyEvent[n].chunk)'
      BY <1>3, <1>4, <2>2, <3>2 DEF CanServe
    <3> QED BY <1>1, <3>1, <3>3 DEF Typed
  <2> QED BY <1>5, <2>1, <2>2
<1>8. \A m \in Node :
        requestEvent'[m] = requestEvent[m] \/ requestEvent'[m] = NoEvent
  BY <1>1, <1>6 DEF Typed
<1>9. ExchangesAreServable'
  <2>1. \A m \in Node : \A p \in OnAir(m)' : p \in OnAir(m)
    BY <1>1, <1>2, HearOnAir
  <2> QED BY <1>1, <1>3, <1>7, <1>8, <2>1, ServableStep DEF Inv
<1>10. NoSelfReception'
  BY <1>1, <1>2, HearNoSelfReception DEF Inv
<1>11. sendEvent'[n]
  BY <1>1, <1>6 DEF Typed
<1> QED BY <1>1, <1>2, <1>3, <1>6, <1>9, <1>10, <1>11
        DEF Inv, CounterMatchesBitmap, HoldersHaveFile, NeverAborts

\* What add_new_chunk does with the chunk of an overheard reply: nothing, or
\* it adds one chunk that was missing, of a file that was not full, from a
\* node that has the file.
LEMMA HandleReplyEffect ==
  ASSUME Inv, NEW n \in Node, NEW s \in Node, HandleReply(n, s)
  PROVE  /\ n # s
         /\ radio.packet.file \in FullFiles(s)
         /\ radio.packet.chunk \in ChunkIds(radio.packet.file)
         /\ \/ UNCHANGED <<contents, maximum_full_files_seen>>
            \/ /\ RecordChunk(n, radio.packet.file, radio.packet.chunk, s)
               /\ UpdateMaximum(n)
               /\ radio.packet.chunk \notin chunks[n][radio.packet.file]
               /\ ~IsFull(n, radio.packet.file)
<1>1. Typed /\ NoSelfReception /\ CounterMatchesBitmap
  BY DEF Inv
<1>2. Hear(n, s, "rep")
      /\ AddNewChunk(n, radio.packet.file, radio.packet.chunk, s)
  BY DEF HandleReply
<1>3. n # s
  BY <1>1, <1>2, HearNoSelfReception
<1>4. CanServe(s, radio.packet.file, radio.packet.chunk)
  BY <1>1, <1>2, HearOnAir DEF Inv, ExchangesAreServable, PacketIsServable
<1>5. radio.packet.file \in File
  BY <1>1, <1>4, FullFilesType DEF CanServe
<1>6. radio.packet.chunk \notin chunks[n][radio.packet.file]
        => ~IsFull(n, radio.packet.file)
  BY <1>1, <1>4, <1>5, FullMeansAllChunks DEF CanServe
<1> QED BY <1>2, <1>3, <1>4, <1>6 DEF CanServe, AddNewChunk

\* Recording a missing chunk keeps counter and bitmap together.
LEMMA RecordChunkCounter ==
  ASSUME Typed, CounterMatchesBitmap, NEW n \in Node, NEW s \in Node,
         NEW f \in File, NEW c \in ChunkIds(f), c \notin chunks[n][f],
         RecordChunk(n, f, c, s)
  PROVE  CounterMatchesBitmap'
<1>1. /\ files' = [files EXCEPT ![n] = @ \cup {f}]
      /\ chunks' = [chunks EXCEPT ![n][f] = @ \cup {c}]
      /\ received' = [received EXCEPT ![n][f] = @ + 1]
  BY DEF RecordChunk
<1> SUFFICES ASSUME NEW m \in Node, NEW g \in File
             PROVE  /\ chunks'[m][g] \subseteq ChunkIds(g)
                    /\ received'[m][g] = Cardinality(chunks'[m][g])
                    /\ g \notin files'[m] => chunks'[m][g] = {}
  BY DEF CounterMatchesBitmap
<1>2. /\ chunks[m][g] \subseteq ChunkIds(g)
      /\ received[m][g] = Cardinality(chunks[m][g])
      /\ g \notin files[m] => chunks[m][g] = {}
  BY DEF CounterMatchesBitmap
<1>3. CASE m = n /\ g = f
  <2>1. /\ chunks'[m][g] = chunks[n][f] \cup {c}
        /\ received'[m][g] = received[n][f] + 1
        /\ f \in files'[n]
    BY <1>1, <1>3 DEF Typed
  <2>2. IsFiniteSet(chunks[n][f])
    BY <1>2, <1>3, ChunkIdsAreCounted, FS_Subset
  <2>3. Cardinality(chunks[n][f] \cup {c}) = Cardinality(chunks[n][f]) + 1
    BY <2>2, FS_AddElement
  <2> QED BY <1>2, <1>3, <2>1, <2>3
<1>4. CASE ~(m = n /\ g = f)
  <2>1. /\ chunks'[m][g] = chunks[m][g]
        /\ received'[m][g] = received[m][g]
        /\ files[m] \subseteq files'[m]
    BY <1>1, <1>4 DEF Typed
  <2> QED BY <1>2, <2>1
<1> QED BY <1>3, <1>4

\* A file that is full stays full: only files that are not full get chunks.
LEMMA RecordChunkKeepsFullFiles ==
  ASSUME Typed, NEW n \in Node, NEW s \in Node, NEW f \in File, NEW c,
         ~IsFull(n, f), RecordChunk(n, f, c, s),
         NEW m \in Node
  PROVE  FullFiles(m) \subseteq FullFiles(m)'
<1>1. /\ files' = [files EXCEPT ![n] = @ \cup {f}]
      /\ received' = [received EXCEPT ![n][f] = @ + 1]
  BY DEF RecordChunk
<1> SUFFICES ASSUME NEW g \in FullFiles(m) PROVE g \in FullFiles(m)'
  OBVIOUS
<1>2. g \in File /\ g \in files[m] /\ received[m][g] = NumChunks[g]
  BY FullFilesType DEF FullFiles, IsFull
<1>3. ~(m = n /\ g = f)
  BY <1>2 DEF IsFull
<1>4. received'[m][g] = received[m][g] /\ g \in files'[m]
  BY <1>1, <1>2, <1>3 DEF Typed
<1> QED BY <1>2, <1>4 DEF FullFiles, IsFull

\* The sender of a reply, which has the file, is the only new holder.
LEMMA RecordChunkHolders ==
  ASSUME Typed, HoldersHaveFile, NEW n \in Node, NEW s \in Node,
         NEW f \in FullFiles(s), NEW c, RecordChunk(n, f, c, s),
         \A m \in Node : FullFiles(m) \subseteq FullFiles(m)'
  PROVE  HoldersHaveFile'
<1>1. holders' = [holders EXCEPT ![n][f] = @ \cup {s}]
  BY DEF RecordChunk
<1> SUFFICES ASSUME NEW m \in Node, NEW h \in Node, NEW g \in File,
                    h \in holders'[m][g]
             PROVE  g \in FullFiles(h)'
  BY DEF HoldersHaveFile
<1>2. h \in holders[m][g] \/ (h = s /\ g = f)
  BY <1>1, FullFilesType DEF Typed
<1> QED BY <1>2 DEF HoldersHaveFile

LEMMA HandleReplyInv ==
  ASSUME Inv, NEW n \in Node, NEW s \in Node, HandleReply(n, s)
  PROVE  Inv'
<1> DEFINE f == radio.packet.file
           c == radio.packet.chunk
<1>1. Typed /\ Typed' /\ CounterMatchesBitmap /\ HoldersHaveFile
  BY HandleReplyType DEF Inv
<1>2. /\ Hear(n, s, "rep")
      /\ aborted' = aborted
      /\ \/ RescheduleRequest(n, s, "zero")
         \/ Reschedule(n, NoEvent, NoEvent)
  BY DEF HandleReply
<1>3. f \in FullFiles(s) /\ c \in ChunkIds(f) /\ f \in File
  BY <1>1, HandleReplyEffect, FullFilesType
<1>4. /\ CounterMatchesBitmap'
      /\ HoldersHaveFile'
      /\ \A m \in Node : FullFiles(m) \subseteq FullFiles(m)'
  <2>1. CASE UNCHANGED contents
    <3>1. UNCHANGED <<files, chunks, received, holders>>
      BY <2>1 DEF contents
    <3>2. \A m \in Node : FullFiles(m)' = FullFiles(m)
      BY <3>1 DEF FullFiles, IsFull
    <3> QED BY <1>1, <3>1, <3>2 DEF CounterMatchesBitmap, HoldersHaveFile
  <2>2. CASE RecordChunk(n, f, c, s) /\ c \notin chunks[n][f] /\ ~IsFull(n, f)
    <3>1. CounterMatchesBitmap'
      BY <1>1, <1>3, <2>2, RecordChunkCounter
    <3>2. \A m \in Node : FullFiles(m) \subseteq FullFiles(m)'
      BY <1>1, <1>3, <2>2, RecordChunkKeepsFullFiles
    <3>3. HoldersHaveFile'
      BY <1>1, <1>3, <2>2, <3>2, RecordChunkHolders
    <3> QED BY <3>1, <3>2, <3>3
  <2> QED BY <2>1, <2>2, HandleReplyEffect
<1>5. \A m \in Node :
        /\ \/ requestEvent'[m] = requestEvent[m]
           \/ requestEvent'[m] # NoEvent =>
                CanServe(requestEvent[m].receiver, requestEvent[m].file,
                         requestEvent[m].chunk)'
        /\ replyEvent'[m] = replyEvent[m] \/ replyEvent'[m] = NoEvent
  <2>1. CASE RescheduleRequest(n, s, "zero")
    <3>1. files' \in [Node -> SUBSET File]
      BY <1>1 DEF Typed
    <3> QED BY <1>1, <1>4, <2>1, <3>1, RescheduleRequestServable
  <2>2. CASE Reschedule(n, NoEvent, NoEvent)
    BY <1>1, <2>2 DEF Typed, Reschedule, CancelAndSchedule
  <2> QED BY <1>2, <2>1, <2>2
<1>6. ExchangesAreServable'
  <2>1. \A m \in Node : \A p \in OnAir(m)' : p \in OnAir(m)
    BY <1>1, <1>2, HearOnAir
  <2> QED BY <1>1, <1>4, <1>5, <2>1, ServableStep DEF Inv
<1> QED BY <1>1, <1>2, <1>4, <1>6, HearNoSelfReception DEF Inv, NeverAborts

-----------------------------------------------------------------------------

LEMMA InvStep == Inv /\ [Next]_vars => Inv'
<1> SUFFICES ASSUME Inv, [Next]_vars PROVE Inv'
  OBVIOUS
<1>1. CASE UNCHANGED vars
  <2>1. UNCHANGED <<files, chunks, received, holders, requestEvent,
                    replyEvent, queue, radio, aborted>>
    BY <1>1 DEF vars, contents, timers
  <2>2. \A m \in Node : FullFiles(m)' = FullFiles(m) /\ OnAir(m)' = OnAir(m)
    BY <2>1 DEF FullFiles, IsFull, OnAir
  <2>3. Typed'
    BY <1>1, TypeStep DEF Inv
  <2>4. ExchangesAreServable'
    BY <2>1, <2>2, ServableStep DEF Inv
  <2> QED BY <2>1, <2>2, <2>3, <2>4
          DEF Inv, NoSelfReception, CounterMatchesBitmap, HoldersHaveFile,
              NeverAborts
<1> QED BY <1>1, StepCases, SendInv, RequestPacketInv, ReplyInv, TransmitInv,
           HandleAdvertisementInv, HandleRequestInv, HandleReplyInv

THEOREM InvAlways == Spec => []Inv
BY InitInv, InvStep, PTL DEF Spec

\* A counter that agrees with its bitmap does not exceed the bitmap's length.
LEMMA CountersAreBounded == Typed /\ CounterMatchesBitmap => TypeOK
<1> SUFFICES ASSUME Typed, CounterMatchesBitmap, NEW n \in Node, NEW f \in File
             PROVE  received[n][f] <= NumChunks[f]
  BY DEF TypeOK
<1>1. /\ chunks[n][f] \subseteq ChunkIds(f)
      /\ received[n][f] = Cardinality(chunks[n][f])
  BY DEF CounterMatchesBitmap
<1>2. IsFiniteSet(ChunkIds(f)) /\ Cardinality(ChunkIds(f)) = NumChunks[f]
  BY ChunkIdsAreCounted
<1> QED BY <1>1, <1>2, FS_Subset

\* Every variable of every node keeps its type, through every handler, timer
\* and transmission, and no counter exceeds the length of its bitmap.
THEOREM TypeCorrect == Spec => []TypeOK
<1>1. Inv => TypeOK
  BY CountersAreBounded DEF Inv
<1> QED BY <1>1, InvAlways, PTL

\* num_of_received_chunks always counts the bitmap, so is_full() is right.
THEOREM CountersAreRight == Spec => []CounterMatchesBitmap
<1>1. Inv => CounterMatchesBitmap
  BY DEF Inv
<1> QED BY <1>1, InvAlways, PTL

\* Whatever was overheard and however late, nodes_who_have_file names nodes
\* that have the whole file now.
THEOREM HoldersAreRight == Spec => []HoldersHaveFile
<1>1. Inv => HoldersHaveFile
  BY DEF Inv
<1> QED BY <1>1, InvAlways, PTL

\* Every request, armed, queued or arriving, is for a chunk that exists at a
\* node that has it, and every reply carries such a chunk, although neither
\* HandleRead nor reply() ever checks it.
THEOREM RequestsAreServable == Spec => []ExchangesAreServable
<1>1. Inv => ExchangesAreServable
  BY DEF Inv
<1> QED BY <1>1, InvAlways, PTL

\* The abort() of HandleRead is unreachable.
THEOREM NoAbort == Spec => []NeverAborts
<1>1. Inv => NeverAborts
  BY DEF Inv
<1> QED BY <1>1, InvAlways, PTL

-----------------------------------------------------------------------------
(* Refinement.  Forgetting packets, timers and radio, an advertisement that *)
(* is heard is a Learn, a reply that brings a new chunk an Obtain, and     *)
(* everything else stutters.                                               *)

LEMMA InitRefines == Init => D!Init
BY DEF Init, SetFiles, D!Init, D!AllChunks, ChunkIds

LEMMA AdvertisementRefines ==
  ASSUME Inv, NEW n \in Node, NEW s \in Node, HandleAdvertisement(n, s)
  PROVE  D!Next
<1> DEFINE advertised == radio.packet.files
<1>1. Typed /\ CounterMatchesBitmap /\ Hear(n, s, "adv")
  BY DEF Inv, HandleAdvertisement
<1>2. n # s
  BY <1>1, HearNoSelfReception DEF Inv
<1>3. advertised \subseteq FullFiles(s)
  BY <1>1, HearOnAir DEF Inv, ExchangesAreServable, PacketIsServable
<1>4. advertised \in SUBSET File
  BY <1>1, <1>3, FullFilesType
<1>5. \A f \in advertised : D!Complete(s, f)
  BY <1>1, <1>3, <1>4, FullMeansAllChunks
     DEF FullFiles, D!Complete, D!AllChunks, ChunkIds
<1>6. D!Learn(n, s, advertised)
  BY <1>5 DEF HandleAdvertisement, DecodeFilesForAdv, D!Learn
<1> QED BY <1>2, <1>4, <1>6 DEF D!Next

LEMMA ReplyRefines ==
  ASSUME Inv, NEW n \in Node, NEW s \in Node, HandleReply(n, s)
  PROVE  D!Next \/ UNCHANGED <<chunks, holders>>
<1> DEFINE f == radio.packet.file
           c == radio.packet.chunk
<1>1. Typed /\ CounterMatchesBitmap
  BY DEF Inv
<1>2. n # s /\ f \in FullFiles(s) /\ c \in ChunkIds(f) /\ f \in File
  BY <1>1, HandleReplyEffect, FullFilesType
<1>3. CASE RecordChunk(n, f, c, s) /\ c \notin chunks[n][f]
  <2>1. D!Complete(s, f)
    BY <1>1, <1>2, FullMeansAllChunks
       DEF FullFiles, D!Complete, D!AllChunks, ChunkIds
  <2>2. c \in D!AllChunks(f)
    BY <1>2 DEF D!AllChunks, ChunkIds
  <2>3. D!Obtain(n, s, f, c)
    BY <1>3, <2>1, <2>2 DEF RecordChunk, D!Obtain
  <2> QED BY <1>2, <2>2, <2>3 DEF D!Next
<1>4. CASE UNCHANGED contents
  BY <1>4 DEF contents
<1> QED BY <1>3, <1>4, HandleReplyEffect

LEMMA StepRefines == Inv /\ [Next]_vars => [D!Next]_(D!vars)
<1> SUFFICES ASSUME Inv, [Next]_vars
             PROVE  D!Next \/ UNCHANGED <<chunks, holders>>
  BY DEF D!vars
<1>1. ASSUME NEW n \in Node, Send(n) \/ RequestPacket(n) \/ Reply(n)
      PROVE  UNCHANGED <<chunks, holders>>
  BY <1>1 DEF Send, Advertise, RequestPacket, Reply, contents
<1>2. ASSUME NEW n \in Node, NEW s \in Node, HandleRequest(n, s)
      PROVE  UNCHANGED <<chunks, holders>>
  BY <1>2 DEF HandleRequest, contents
<1>3. ASSUME NEW s \in Node, NEW R \in SUBSET Node, Transmit(s, R)
      PROVE  UNCHANGED <<chunks, holders>>
  BY <1>3 DEF Transmit, contents
<1>4. CASE UNCHANGED vars
  BY <1>4 DEF vars, contents
<1> QED BY <1>1, <1>2, <1>3, <1>4, StepCases, AdvertisementRefines,
           ReplyRefines

\* Through losses, overhearing, cancelled timers and stale packets, a node
\* notes as holders only nodes that have the whole file and gains chunks only
\* from them, one at a time.
THEOREM Implements == Spec => ImplementsDissemination
BY InitRefines, StepRefines, InvAlways, PTL DEF Spec, ImplementsDissemination, D!Spec
=============================================================================
