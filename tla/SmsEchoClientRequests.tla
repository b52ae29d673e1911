------------------------ MODULE SmsEchoClientRequests -----------------------
(***************************************************************************)
(* What a request knows when its timer expires, that a node asks whenever  *)
(* there is something to ask for, that without loss the exchange never     *)
(* runs dry, and what the delays divide by and compare: the number of full *)
(* files never falls and the maximum kept beside it is never behind it.    *)
(***************************************************************************)
EXTENDS SmsEchoClientProofs, Loops

-----------------------------------------------------------------------------
(* A pending request is fresh: its node's bitmap changes only in the       *)
(* handler of a reply, and that handler cancels it.                        *)

LEMMA RescheduleFresh ==
  ASSUME Typed, files' \in [Node -> SUBSET File],
         NEW n \in Node, NEW s \in Node, NEW delay \in {"zero", "random"},
         RescheduleRequest(n, s, delay) \/ Reschedule(n, NoEvent, NoEvent)
  PROVE  /\ requestEvent'[n] # NoEvent =>
              IsFirstMissingChunk(n, requestEvent[n].file,
                                  requestEvent[n].chunk)'
         /\ \A m \in Node \ {n} : requestEvent'[m] = requestEvent[m]
<1>1. CASE requestEvent' = [requestEvent EXCEPT ![n] = NoEvent]
  BY <1>1 DEF Typed
<1>2. ASSUME NEW f \in File, NEW c \in ChunkIds(f),
             IsFirstMissingChunk(n, f, c)',
             requestEvent' = [requestEvent EXCEPT ![n] =
               [receiver |-> s, file |-> f, chunk |-> c, delay |-> delay]]
      PROVE  /\ IsFirstMissingChunk(n, requestEvent[n].file,
                                    requestEvent[n].chunk)'
             /\ \A m \in Node \ {n} : requestEvent'[m] = requestEvent[m]
  <2>1. requestEvent'[n] =
          [receiver |-> s, file |-> f, chunk |-> c, delay |-> delay]
    BY <1>2 DEF Typed
  <2>2. requestEvent'[n].file = f /\ requestEvent'[n].chunk = c
    BY <2>1
  <2>3. IsFirstMissingChunk(n, requestEvent[n].file, requestEvent[n].chunk)'
    BY <1>2, <2>2 DEF IsFirstMissingChunk
  <2> QED BY <1>2, <2>3 DEF Typed
<1>3. CASE Reschedule(n, NoEvent, NoEvent)
  BY <1>1, <1>3 DEF Reschedule, CancelAndSchedule
<1>4. CASE RescheduleRequest(n, s, delay)
  BY <1>1, <1>2, <1>4, RescheduleRequestTimers
<1> QED BY <1>3, <1>4

\* A request that is kept stays fresh while its node's bitmaps are kept.
LEMMA KeptRequestIsFresh ==
  ASSUME RequestsAreFresh, NEW m \in Node, chunks'[m] = chunks[m],
         requestEvent'[m] = requestEvent[m] \/ requestEvent'[m] = NoEvent
  PROVE  (requestEvent[m] # NoEvent =>
            IsFirstMissingChunk(m, requestEvent[m].file, requestEvent[m].chunk))'
BY DEF RequestsAreFresh, IsFirstMissingChunk

LEMMA FreshStep == Inv /\ RequestsAreFresh /\ [Next]_vars => RequestsAreFresh'
<1> SUFFICES ASSUME Inv, RequestsAreFresh, [Next]_vars PROVE RequestsAreFresh'
  OBVIOUS
<1>1. Typed /\ Typed'
  BY TypeStep DEF Inv
<1>2. files' \in [Node -> SUBSET File]
  BY <1>1 DEF Typed
<1>3. ASSUME chunks' = chunks,
             \A m \in Node :
               requestEvent'[m] = requestEvent[m] \/ requestEvent'[m] = NoEvent
      PROVE  RequestsAreFresh'
  BY <1>3, KeptRequestIsFresh DEF RequestsAreFresh
<1>4. ASSUME NEW n \in Node, NEW s \in Node, NEW delay \in {"zero", "random"},
             RescheduleRequest(n, s, delay) \/ Reschedule(n, NoEvent, NoEvent),
             \A m \in Node \ {n} : chunks'[m] = chunks[m]
      PROVE  RequestsAreFresh'
  BY <1>1, <1>2, <1>4, RescheduleFresh, KeptRequestIsFresh
     DEF RequestsAreFresh
<1>5. ASSUME NEW n \in Node, Send(n) \/ RequestPacket(n) \/ Reply(n)
      PROVE  RequestsAreFresh'
  BY <1>1, <1>3, <1>5
     DEF Send, Advertise, RequestPacket, Reply, contents, Typed
<1>6. ASSUME NEW n \in Node, NEW s \in Node, HandleAdvertisement(n, s)
      PROVE  RequestsAreFresh'
  BY <1>4, <1>6 DEF HandleAdvertisement, DecodeFilesForAdv
<1>7. ASSUME NEW n \in Node, NEW s \in Node, HandleRequest(n, s)
      PROVE  RequestsAreFresh'
  BY <1>1, <1>3, <1>7
     DEF HandleRequest, IgnoreRequest, AnswerRequest, AbortOnRequest,
         Reschedule, CancelAndSchedule, contents, Typed
<1>8. ASSUME NEW n \in Node, NEW s \in Node, HandleReply(n, s)
      PROVE  RequestsAreFresh'
  <2>1. \A m \in Node \ {n} : chunks'[m] = chunks[m]
    BY <1>1, <1>8 DEF HandleReply, AddNewChunk, RecordChunk, contents, Typed
  <2> QED BY <1>4, <1>8, <2>1 DEF HandleReply
<1>9. ASSUME NEW s \in Node, NEW R \in SUBSET Node, Transmit(s, R)
      PROVE  RequestsAreFresh'
  BY <1>3, <1>9 DEF Transmit, contents, timers
<1>10. CASE UNCHANGED vars
  BY <1>3, <1>10 DEF vars, contents, timers
<1> QED BY <1>5, <1>6, <1>7, <1>8, <1>9, <1>10, StepCases

\* The copy of the file that a pending request carries never goes stale: the
\* chunk it will name is the first one still missing.
THEOREM PendingRequestsAreFresh == Spec => []RequestsAreFresh
<1>1. Init => RequestsAreFresh
  BY DEF Init, StartApplication, RequestsAreFresh
<1> QED BY <1>1, FreshStep, InvAlways, PTL DEF Spec

-----------------------------------------------------------------------------
(* Without loss there is always something to happen.                       *)

LEMMA InitNotSilent == Init => NeverSilent
<1> SUFFICES ASSUME Init PROVE NeverSilent
  OBVIOUS
<1>1. PICK n : n \in Node
  BY NodeAssumption, FS_EmptySet
<1> QED BY <1>1 DEF Init, StartApplication, NeverSilent

LEMMA ReliableIsNext == ReliableNext => Next
<1>1. ASSUME NEW s \in Node, TransmitToAll(s)
      PROVE  \E R \in Receivers(s) : Transmit(s, R)
  BY <1>1 DEF TransmitToAll, Receivers
<1> QED BY <1>1 DEF ReliableNext, Next

LEMMA ReliableCases ==
  ASSUME ReliableNext
  PROVE  \/ \E n \in Node : Send(n)
         \/ \E n \in Node : RequestPacket(n)
         \/ \E n \in Node : Reply(n)
         \/ \E n \in Node, s \in Node : HandleAdvertisement(n, s)
         \/ \E n \in Node, s \in Node : HandleRequest(n, s)
         \/ \E n \in Node, s \in Node : HandleReply(n, s)
         \/ \E s \in Node : TransmitToAll(s)
BY DEF ReliableNext, Events, HandleRead

\* A packet that is handed to the interface is on the air.
LEMMA EnqueuedIsOnAir ==
  ASSUME Typed, NEW n \in Node, NEW p, Enqueue(n, p)
  PROVE  OnAir(n)' # {}
<1>1. queue[n] \in Seq(Packet) /\ queue'[n] = Append(queue[n], p)
  BY DEF Typed, Enqueue
<1>2. Len(queue[n]) + 1 \in DOMAIN queue'[n]
  BY <1>1
<1> QED BY <1>2 DEF OnAir

\* A broadcast nobody loses has a receiver, as there are two nodes at least.
LEMMA TransmitToAllIsOnAir ==
  ASSUME Typed, NEW s \in Node, TransmitToAll(s)
  PROVE  OnAir(s)' # {}
<1>1. Node \ {s} # {}
  <2>1. SUFFICES ASSUME Node = {s} PROVE FALSE
    OBVIOUS
  <2>2. Cardinality({s}) = 1
    BY FS_Singleton
  <2> QED BY <2>1, <2>2, NodeAssumption
<1>2. radio' = [from |-> s, packet |-> Head(queue[s]), to |-> Node \ {s}]
  BY <1>1 DEF TransmitToAll, Transmit
<1>3. Head(queue[s]) \in Packet
  BY DEF Typed, TransmitToAll, Transmit
<1>4. radio' \in Frame
  BY <1>1, <1>2, <1>3 DEF Frame
<1>5. radio' # NoFrame /\ radio'.from = s
  BY <1>2, <1>4, NoFrameAssumption
<1> QED BY <1>5 DEF OnAir

\* Whatever packet a node hears, its next advertisement is armed afterwards.
LEMMA HandlersArmSend ==
  ASSUME Inv, NEW n \in Node, NEW s \in Node,
         \/ HandleAdvertisement(n, s)
         \/ HandleRequest(n, s)
         \/ HandleReply(n, s)
  PROVE  sendEvent'[n] = TRUE
<1>1. Typed
  BY DEF Inv
<1>2. ASSUME NEW delay \in {"zero", "random"}, files' \in [Node -> SUBSET File],
             RescheduleRequest(n, s, delay) \/ Reschedule(n, NoEvent, NoEvent)
      PROVE  sendEvent'[n] = TRUE
  <2>1. sendEvent' = [sendEvent EXCEPT ![n] = TRUE]
    BY <1>1, <1>2, RescheduleRequestTimers DEF Reschedule, CancelAndSchedule
  <2> QED BY <1>1, <2>1 DEF Typed
<1>3. CASE HandleAdvertisement(n, s)
  <2>1. files' \in [Node -> SUBSET File]
    BY <1>1, <1>3, HandleAdvertisementType DEF Typed
  <2> QED BY <1>2, <1>3, <2>1 DEF HandleAdvertisement
<1>4. CASE HandleRequest(n, s)
  BY <1>4, HandleRequestInv
<1>5. CASE HandleReply(n, s)
  <2>1. files' \in [Node -> SUBSET File]
    BY <1>1, <1>5, HandleReplyType DEF Typed
  <2> QED BY <1>2, <1>5, <2>1 DEF HandleReply
<1> QED BY <1>3, <1>4, <1>5

LEMMA SilenceStep == Inv /\ NeverSilent /\ [ReliableNext]_vars => NeverSilent'
<1> SUFFICES ASSUME Inv, NeverSilent, [ReliableNext]_vars PROVE NeverSilent'
  OBVIOUS
<1>1. Typed
  BY DEF Inv
<1>2. ASSUME NEW n \in Node, Send(n) \/ RequestPacket(n) \/ Reply(n)
      PROVE  NeverSilent'
  <2>1. OnAir(n)' # {}
    BY <1>1, <1>2, EnqueuedIsOnAir DEF Send, Advertise, RequestPacket, Reply
  <2> QED BY <2>1 DEF NeverSilent
<1>3. ASSUME NEW s \in Node, TransmitToAll(s)
      PROVE  NeverSilent'
  BY <1>1, <1>3, TransmitToAllIsOnAir DEF NeverSilent
<1>4. ASSUME NEW n \in Node, NEW s \in Node,
             HandleAdvertisement(n, s) \/ HandleRequest(n, s) \/ HandleReply(n, s)
      PROVE  NeverSilent'
  BY <1>4, HandlersArmSend DEF NeverSilent
<1>5. CASE UNCHANGED vars
  BY <1>5 DEF vars, timers, NeverSilent, OnAir
<1> QED BY <1>2, <1>3, <1>4, <1>5, ReliableCases

\* If no frame is lost, some timer is armed or some packet is on its way, at
\* every moment: Send(), which arms nothing, is answered by whoever hears it.
THEOREM ReliableIsNeverSilent == ReliableSpec => []NeverSilent
<1>1. Inv /\ [ReliableNext]_vars => Inv'
  BY ReliableIsNext, InvStep
<1> QED BY <1>1, InitInv, InitNotSilent, SilenceStep, PTL DEF ReliableSpec

-----------------------------------------------------------------------------
(* Full files.                                                             *)

\* Only a reply changes a counter, and that of a full file does not change.
LEMMA FullFilesStep ==
  Inv /\ [Next]_vars => \A m \in Node : FullFiles(m) \subseteq FullFiles(m)'
<1> SUFFICES ASSUME Inv, [Next]_vars, NEW m \in Node
             PROVE  FullFiles(m) \subseteq FullFiles(m)'
  OBVIOUS
<1>1. Typed
  BY DEF Inv
<1>2. ASSUME UNCHANGED <<files, received>>
      PROVE  FullFiles(m) \subseteq FullFiles(m)'
  BY <1>2 DEF FullFiles, IsFull
<1>3. ASSUME NEW n \in Node,
             Send(n) \/ RequestPacket(n) \/ Reply(n)
      PROVE  FullFiles(m) \subseteq FullFiles(m)'
  BY <1>2, <1>3 DEF Send, Advertise, RequestPacket, Reply, contents
<1>4. ASSUME NEW n \in Node, NEW s \in Node, HandleAdvertisement(n, s)
      PROVE  FullFiles(m) \subseteq FullFiles(m)'
  BY <1>1, <1>4
     DEF HandleAdvertisement, DecodeFilesForAdv, FullFiles, IsFull, Typed
<1>5. ASSUME NEW n \in Node, NEW s \in Node, HandleRequest(n, s)
      PROVE  FullFiles(m) \subseteq FullFiles(m)'
  BY <1>2, <1>5 DEF HandleRequest, contents
<1>6. ASSUME NEW n \in Node, NEW s \in Node, HandleReply(n, s)
      PROVE  FullFiles(m) \subseteq FullFiles(m)'
  <2>1. CASE UNCHANGED contents
    BY <1>2, <2>1 DEF contents
  <2>2. CASE RecordChunk(n, radio.packet.file, radio.packet.chunk, s)
             /\ ~IsFull(n, radio.packet.file)
    <3>1. radio.packet.file \in File
      BY <1>1, <1>6, HandleReplyEffect, FullFilesType
    <3> QED BY <1>1, <2>2, <3>1, RecordChunkKeepsFullFiles
  <2> QED BY <1>6, <2>1, <2>2, HandleReplyEffect
<1>7. ASSUME NEW s \in Node, NEW R \in SUBSET Node, Transmit(s, R)
      PROVE  FullFiles(m) \subseteq FullFiles(m)'
  BY <1>2, <1>7 DEF Transmit, contents
<1>8. CASE UNCHANGED vars
  BY <1>2, <1>8 DEF vars, contents
<1> QED BY <1>3, <1>4, <1>5, <1>6, <1>7, <1>8, StepCases

\* A node never loses a file that it has in full.
THEOREM FullFilesStay == Spec => FullFilesAreKept
<1>1. Inv /\ [Next]_vars => [\A n \in Node : FullFiles(n) \subseteq FullFiles(n)']_vars
  BY FullFilesStep
<1> QED BY <1>1, InvAlways, PTL DEF Spec, FullFilesAreKept

-----------------------------------------------------------------------------
(* The maximum.                                                            *)

\* The maximum may grow where the full files of a node stay what they are.
LEMMA MaximumKept ==
  ASSUME Typed, MaximumCoversOwnFiles, Typed', NEW m \in Node,
         FullFiles(m)' = FullFiles(m),
         maximum_full_files_seen[m] <= maximum_full_files_seen'[m]
  PROVE  Cardinality(FullFiles(m)') <= maximum_full_files_seen'[m]
<1>1. Cardinality(FullFiles(m)) \in Nat
  BY FilesAreCounted, FullFilesType
<1>2. maximum_full_files_seen[m] \in Nat /\ maximum_full_files_seen'[m] \in Nat
  BY DEF Typed
<1>3. Cardinality(FullFiles(m)) <= maximum_full_files_seen[m]
  BY DEF MaximumCoversOwnFiles
<1> QED BY <1>1, <1>2, <1>3

LEMMA InitMaximum == Init => MaximumCoversOwnFiles
<1> SUFFICES ASSUME Init, NEW n \in Node
             PROVE  Cardinality(FullFiles(n)) <= maximum_full_files_seen[n]
  BY DEF MaximumCoversOwnFiles
<1>1. Typed /\ CounterMatchesBitmap
  BY InitInv DEF Inv
<1>2. PICK initial \in Distributions, leftover \in [Node -> Leftover] :
        SetFiles(initial, leftover)
  BY DEF Init
<1>3. FullFiles(n) = initial[n]
  <2>1. files[n] = initial[n]
    BY <1>2 DEF SetFiles
  <2>2. ASSUME NEW f \in initial[n] PROVE IsFull(n, f)
    <3>1. f \in File
      BY <1>1, <2>1, <2>2 DEF Typed
    <3> QED BY <1>2, <2>2, <3>1 DEF SetFiles, IsFull
  <2> QED BY <2>1, <2>2 DEF FullFiles
<1>4. leftover[n] \in Nat /\ Cardinality(initial[n]) \in Nat
  BY <1>1, <1>3, LeftoverAssumption, FilesAreCounted, FullFilesType
<1>5. maximum_full_files_seen[n] = Larger(leftover[n], Cardinality(initial[n]))
  BY <1>2 DEF SetFiles
<1> QED BY <1>3, <1>4, <1>5, LargerIsNat

LEMMA MaximumStep ==
  Inv /\ MaximumCoversOwnFiles /\ [Next]_vars => MaximumCoversOwnFiles'
<1> SUFFICES ASSUME Inv, MaximumCoversOwnFiles, [Next]_vars, NEW m \in Node
             PROVE  Cardinality(FullFiles(m)') <= maximum_full_files_seen'[m]
  BY DEF MaximumCoversOwnFiles
<1>1. Typed /\ Typed' /\ CounterMatchesBitmap
  BY TypeStep DEF Inv
<1>2. maximum_full_files_seen[m] \in Nat /\ Cardinality(FullFiles(m)) \in Nat
      /\ Cardinality(FullFiles(m)') \in Nat
  <2>1. FullFiles(m)' \in SUBSET File
    BY <1>1 DEF Typed, FullFiles
  <2> QED BY <1>1, <2>1, FilesAreCounted, FullFilesType DEF Typed
<1>3. ASSUME UNCHANGED <<files, received, maximum_full_files_seen>>
      PROVE  Cardinality(FullFiles(m)') <= maximum_full_files_seen'[m]
  <2>1. FullFiles(m)' = FullFiles(m)
    BY <1>3 DEF FullFiles, IsFull
  <2> QED BY <1>1, <1>2, <1>3, <2>1, MaximumKept
<1>4. ASSUME NEW n \in Node, Send(n)
      PROVE  Cardinality(FullFiles(m)') <= maximum_full_files_seen'[m]
  <2>1. FullFiles(m)' = FullFiles(m)
    BY <1>4 DEF Send, Advertise, contents, FullFiles, IsFull
  <2>2. maximum_full_files_seen' = [maximum_full_files_seen EXCEPT ![n] =
          Larger(@, Cardinality(FullFiles(n)))]
    BY <1>4 DEF Send, Advertise
  <2>3. maximum_full_files_seen[m] <= maximum_full_files_seen'[m]
    <3>1. CASE m = n
      BY <1>1, <1>2, <2>2, <3>1, LargerIsNat DEF Typed
    <3>2. CASE m # n
      BY <1>1, <1>2, <2>2, <3>2 DEF Typed
    <3> QED BY <3>1, <3>2
  <2> QED BY <1>1, <2>1, <2>3, MaximumKept
<1>5. ASSUME NEW n \in Node, RequestPacket(n) \/ Reply(n)
      PROVE  Cardinality(FullFiles(m)') <= maximum_full_files_seen'[m]
  BY <1>3, <1>5 DEF RequestPacket, Reply, contents
<1>6. ASSUME NEW n \in Node, NEW s \in Node, HandleAdvertisement(n, s)
      PROVE  Cardinality(FullFiles(m)') <= maximum_full_files_seen'[m]
  <2> DEFINE advertised == radio.packet.files
  <2>1. /\ files' = [files EXCEPT ![n] = @ \cup advertised]
        /\ received' = received
        /\ maximum_full_files_seen' = [maximum_full_files_seen EXCEPT ![n] =
             Larger(@, Cardinality(advertised))]
    BY <1>6 DEF HandleAdvertisement, DecodeFilesForAdv
  <2>2. FullFiles(m)' = FullFiles(m)
    <3>1. files'[m] \subseteq File /\ files[m] \subseteq files'[m]
      BY <1>1, <2>1 DEF Typed
    <3>2. ASSUME NEW f \in files'[m], IsFull(m, f) PROVE f \in files[m]
      BY <1>1, <3>1, <3>2, UnknownIsNotFull
    <3> QED BY <2>1, <3>1, <3>2 DEF FullFiles, IsFull
  <2>3. Cardinality(advertised) \in Nat
    <3>1. radio.packet \in AdvPacket
      BY <1>1, <1>6, HearType DEF HandleAdvertisement, Hear, Frame, Packet,
                                  AdvPacket, ReqPacket, RepPacket
    <3> QED BY <3>1, FilesAreCounted DEF AdvPacket
  <2>4. maximum_full_files_seen[m] <= maximum_full_files_seen'[m]
    <3>1. CASE m = n
      BY <1>1, <1>2, <2>1, <2>3, <3>1, LargerIsNat DEF Typed
    <3>2. CASE m # n
      BY <1>1, <1>2, <2>1, <3>2 DEF Typed
    <3> QED BY <3>1, <3>2
  <2> QED BY <1>1, <2>2, <2>4, MaximumKept
<1>7. ASSUME NEW n \in Node, NEW s \in Node, HandleRequest(n, s)
      PROVE  Cardinality(FullFiles(m)') <= maximum_full_files_seen'[m]
  BY <1>3, <1>7 DEF HandleRequest, contents
<1>8. ASSUME NEW n \in Node, NEW s \in Node, HandleReply(n, s)
      PROVE  Cardinality(FullFiles(m)') <= maximum_full_files_seen'[m]
  <2> DEFINE f == radio.packet.file
             c == radio.packet.chunk
  <2>1. CASE UNCHANGED <<contents, maximum_full_files_seen>>
    BY <1>3, <2>1 DEF contents
  <2>2. CASE RecordChunk(n, f, c, s) /\ UpdateMaximum(n)
    <3>1. maximum_full_files_seen' = [maximum_full_files_seen EXCEPT ![n] =
            Larger(@, Cardinality(FullFiles(n)'))]
      BY <2>2 DEF UpdateMaximum
    <3>2. CASE m = n
      BY <1>1, <1>2, <3>1, <3>2, LargerIsNat DEF Typed
    <3>3. CASE m # n
      <4>1. FullFiles(m)' = FullFiles(m) /\ maximum_full_files_seen'[m] = maximum_full_files_seen[m]
        BY <1>1, <2>2, <3>1, <3>3 DEF RecordChunk, FullFiles, IsFull, Typed
      <4> QED BY <1>1, <1>2, <4>1, MaximumKept
    <3> QED BY <3>2, <3>3
  <2> QED BY <1>8, <2>1, <2>2, HandleReplyEffect
<1>9. ASSUME NEW s \in Node, NEW R \in SUBSET Node, Transmit(s, R)
      PROVE  Cardinality(FullFiles(m)') <= maximum_full_files_seen'[m]
  BY <1>3, <1>9 DEF Transmit, contents
<1>10. CASE UNCHANGED vars
  BY <1>3, <1>10 DEF vars, contents
<1> QED BY <1>4, <1>5, <1>6, <1>7, <1>8, <1>9, <1>10, StepCases

\* Whatever the memory of the counter held, the advertisement of a node is
\* delayed for as many files, at least, as its requests are.
THEOREM MaximumIsNeverBehind == Spec => []MaximumCoversOwnFiles
BY InitMaximum, MaximumStep, InvAlways, PTL DEF Spec

-----------------------------------------------------------------------------
(* Whoever is asked has been seen.                                         *)

\* Whoever is asked, and whoever answers, was first heard advertising by the
\* node that asks, so that seen_nodes is not empty when a reply is handled.
RequesterHasSeenHolder ==
  \A n \in Node :
    /\ requestEvent[n] # NoEvent =>
         requestEvent[n].receiver \in seen_nodes[n]
    /\ replyEvent[n] # NoEvent => n \in seen_nodes[replyEvent[n].requester]
    /\ \A p \in OnAir(n) :
         /\ p.type = "req" => p.receiver \in seen_nodes[n]
         /\ p.type = "rep" => n \in seen_nodes[p.requester]

\* What is kept stays right, since no node is ever dropped from seen_nodes.
LEMMA SeenStep ==
  ASSUME Typed, RequesterHasSeenHolder,
         \A m \in Node : seen_nodes[m] \subseteq seen_nodes'[m],
         \A m \in Node :
           /\ \/ requestEvent'[m] = requestEvent[m]
              \/ requestEvent'[m] # NoEvent =>
                   requestEvent'[m].receiver \in seen_nodes'[m]
           /\ \/ replyEvent'[m] = replyEvent[m]
              \/ replyEvent'[m] # NoEvent =>
                   m \in seen_nodes'[replyEvent'[m].requester],
         \A m \in Node : \A p \in OnAir(m)' :
           \/ p \in OnAir(m)
           \/ /\ p.type = "req" => p.receiver \in seen_nodes'[m]
              /\ p.type = "rep" => m \in seen_nodes'[p.requester]
  PROVE  RequesterHasSeenHolder'
<1> SUFFICES ASSUME NEW m \in Node
             PROVE  /\ requestEvent'[m] # NoEvent =>
                         requestEvent'[m].receiver \in seen_nodes'[m]
                    /\ replyEvent'[m] # NoEvent =>
                         m \in seen_nodes'[replyEvent'[m].requester]
                    /\ \A p \in OnAir(m)' :
                         /\ p.type = "req" => p.receiver \in seen_nodes'[m]
                         /\ p.type = "rep" => m \in seen_nodes'[p.requester]
  BY DEF RequesterHasSeenHolder
<1>1. replyEvent[m] # NoEvent => replyEvent[m].requester \in Node
  BY DEF Typed, ReplyEvent
<1>2. ASSUME NEW p \in OnAir(m)
      PROVE  p.type = "rep" => p.requester \in Node
  <2>1. p \in Packet
    BY DEF OnAir, Typed, Frame
  <2> QED BY <2>1 DEF Packet, AdvPacket, ReqPacket, RepPacket
<1> QED BY <1>1, <1>2 DEF RequesterHasSeenHolder

\* A handler of a packet of s asks nobody but s.
LEMMA RescheduleAsksSender ==
  ASSUME Typed, files' \in [Node -> SUBSET File],
         NEW n \in Node, NEW s \in Node, NEW delay \in {"zero", "random"},
         \/ RescheduleRequest(n, s, delay) /\ s \in seen_nodes'[n]
         \/ Reschedule(n, NoEvent, NoEvent)
  PROVE  \A m \in Node :
           /\ \/ requestEvent'[m] = requestEvent[m]
              \/ requestEvent'[m] # NoEvent =>
                   requestEvent'[m].receiver \in seen_nodes'[m]
           /\ \/ replyEvent'[m] = replyEvent[m]
              \/ replyEvent'[m] # NoEvent =>
                   m \in seen_nodes'[replyEvent'[m].requester]
<1>1. CASE requestEvent' = [requestEvent EXCEPT ![n] = NoEvent]
           /\ replyEvent' = [replyEvent EXCEPT ![n] = NoEvent]
  BY <1>1 DEF Typed
<1>2. ASSUME s \in seen_nodes'[n], NEW f, NEW c,
             replyEvent' = [replyEvent EXCEPT ![n] = NoEvent],
             requestEvent' = [requestEvent EXCEPT ![n] =
               [receiver |-> s, file |-> f, chunk |-> c, delay |-> delay]]
      PROVE  \A m \in Node :
               /\ \/ requestEvent'[m] = requestEvent[m]
                  \/ requestEvent'[m].receiver \in seen_nodes'[m]
               /\ replyEvent'[m] = replyEvent[m] \/ replyEvent'[m] = NoEvent
  BY <1>2 DEF Typed
<1>3. CASE Reschedule(n, NoEvent, NoEvent)
  BY <1>1, <1>3 DEF Reschedule, CancelAndSchedule
<1>4. CASE RescheduleRequest(n, s, delay) /\ s \in seen_nodes'[n]
  <2>1. replyEvent' = [replyEvent EXCEPT ![n] = NoEvent]
    BY <1>4, RescheduleRequestTimers
  <2>2. \/ requestEvent' = [requestEvent EXCEPT ![n] = NoEvent]
        \/ \E f \in File : \E c \in ChunkIds(f) :
             requestEvent' = [requestEvent EXCEPT ![n] =
               [receiver |-> s, file |-> f, chunk |-> c, delay |-> delay]]
    BY <1>4, RescheduleRequestTimers
  <2> QED BY <1>1, <1>2, <1>4, <2>1, <2>2
<1> QED BY <1>3, <1>4

LEMMA SeenHolderStep ==
  Inv /\ RequesterHasSeenHolder /\ [Next]_vars => RequesterHasSeenHolder'
<1> SUFFICES ASSUME Inv, RequesterHasSeenHolder, [Next]_vars
             PROVE  RequesterHasSeenHolder'
  OBVIOUS
<1>1. Typed /\ Typed' /\ files' \in [Node -> SUBSET File]
  BY TypeStep DEF Inv, Typed
<1>2. ASSUME NEW n \in Node, Send(n)
      PROVE  RequesterHasSeenHolder'
  <2>1. UNCHANGED <<seen_nodes, requestEvent, replyEvent, radio>>
    BY <1>2 DEF Send, Advertise
  <2>2. Enqueue(n, [type |-> "adv", files |-> FullFiles(n)])
    BY <1>2 DEF Send, Advertise
  <2>3. ASSUME NEW m \in Node, NEW p \in OnAir(m)'
        PROVE  p \in OnAir(m) \/ p.type = "adv"
    BY <1>1, <2>1, <2>2, EnqueueOnAir
  <2> QED BY <1>1, <2>1, <2>3, SeenStep
<1>3. ASSUME NEW n \in Node, RequestPacket(n)
      PROVE  RequesterHasSeenHolder'
  <2> DEFINE packet == [type |-> "req", receiver |-> requestEvent[n].receiver,
                        file |-> requestEvent[n].file,
                        chunk |-> requestEvent[n].chunk]
  <2>1. UNCHANGED <<seen_nodes, replyEvent, radio>> /\ Enqueue(n, packet)
        /\ requestEvent[n] # NoEvent
    BY <1>3 DEF RequestPacket
  <2>2. \A m \in Node :
          requestEvent'[m] = requestEvent[m] \/ requestEvent'[m] = NoEvent
    BY <1>1, <1>3 DEF RequestPacket, Typed
  <2>3. packet.receiver \in seen_nodes[n]
    BY <2>1 DEF RequesterHasSeenHolder
  <2>4. ASSUME NEW m \in Node, NEW p \in OnAir(m)'
        PROVE  p \in OnAir(m) \/ (m = n /\ p = packet)
    BY <1>1, <2>1, EnqueueOnAir
  <2>5. packet.type = "req"
    OBVIOUS
  <2> HIDE DEF packet
  <2> QED BY <1>1, <2>1, <2>2, <2>3, <2>4, <2>5, SeenStep
<1>4. ASSUME NEW n \in Node, Reply(n)
      PROVE  RequesterHasSeenHolder'
  <2> DEFINE packet == [type |-> "rep", requester |-> replyEvent[n].requester,
                        file |-> replyEvent[n].file,
                        chunk |-> replyEvent[n].chunk]
  <2>1. UNCHANGED <<seen_nodes, requestEvent, radio>> /\ Enqueue(n, packet)
        /\ replyEvent[n] # NoEvent
    BY <1>4 DEF Reply
  <2>2. \A m \in Node :
          replyEvent'[m] = replyEvent[m] \/ replyEvent'[m] = NoEvent
    BY <1>1, <1>4 DEF Reply, Typed
  <2>3. n \in seen_nodes[packet.requester]
    BY <2>1 DEF RequesterHasSeenHolder
  <2>4. ASSUME NEW m \in Node, NEW p \in OnAir(m)'
        PROVE  p \in OnAir(m) \/ (m = n /\ p = packet)
    BY <1>1, <2>1, EnqueueOnAir
  <2>5. packet.type = "rep"
    OBVIOUS
  <2> HIDE DEF packet
  <2> QED BY <1>1, <2>1, <2>2, <2>3, <2>4, <2>5, SeenStep
<1>5. ASSUME NEW n \in Node, NEW s \in Node, HandleAdvertisement(n, s)
      PROVE  RequesterHasSeenHolder'
  <2>1. \A m \in Node : seen_nodes[m] \subseteq seen_nodes'[m]
    BY <1>1, <1>5 DEF HandleAdvertisement, AddNodeToSeenList, Typed
  <2>2. s \in seen_nodes'[n]
    BY <1>1, <1>5 DEF HandleAdvertisement, AddNodeToSeenList, Typed
  <2>3. \A m \in Node : \A p \in OnAir(m)' : p \in OnAir(m)
    BY <1>1, <1>5, HearOnAir DEF HandleAdvertisement
  <2>4. RescheduleRequest(n, s, "random")
    BY <1>5 DEF HandleAdvertisement
  <2> QED BY <1>1, <2>1, <2>2, <2>3, <2>4, RescheduleAsksSender, SeenStep
<1>6. ASSUME NEW n \in Node, NEW s \in Node, HandleRequest(n, s)
      PROVE  RequesterHasSeenHolder'
  <2> DEFINE request == radio.packet
  <2>1. Hear(n, s, "req") /\ seen_nodes' = seen_nodes
    BY <1>6 DEF HandleRequest
  <2>2. request \in OnAir(s) /\ request.type = "req"
        /\ \A m \in Node : \A p \in OnAir(m)' : p \in OnAir(m)
    BY <1>1, <2>1, HearOnAir
  <2>3. request.receiver \in seen_nodes[s]
    BY <2>2 DEF RequesterHasSeenHolder
  <2>4. \A m \in Node :
          requestEvent'[m] = requestEvent[m] \/ requestEvent'[m] = NoEvent
    BY <1>1, <1>6 DEF HandleRequest, IgnoreRequest, AnswerRequest,
         AbortOnRequest, Reschedule, CancelAndSchedule, Typed
  <2>5. \A m \in Node :
          \/ replyEvent'[m] = replyEvent[m] \/ replyEvent'[m] = NoEvent
          \/ m = n /\ request.receiver = n /\ replyEvent'[m] = [requester |-> s,
               file |-> request.file, chunk |-> request.chunk]
    BY <1>1, <1>6 DEF HandleRequest, IgnoreRequest, AnswerRequest,
         AbortOnRequest, Reschedule, CancelAndSchedule, Typed
  <2>6. \A m \in Node :
          \/ replyEvent'[m] = replyEvent[m]
          \/ replyEvent'[m] # NoEvent =>
               m \in seen_nodes'[replyEvent'[m].requester]
    BY <2>1, <2>3, <2>5
  <2> QED BY <1>1, <2>1, <2>2, <2>4, <2>6, SeenStep
<1>7. ASSUME NEW n \in Node, NEW s \in Node, HandleReply(n, s)
      PROVE  RequesterHasSeenHolder'
  <2>1. Hear(n, s, "rep") /\ seen_nodes' = seen_nodes
    BY <1>7 DEF HandleReply
  <2>2. radio.packet \in OnAir(s) /\ radio.packet.type = "rep"
        /\ \A m \in Node : \A p \in OnAir(m)' : p \in OnAir(m)
    BY <1>1, <2>1, HearOnAir
  <2>3. s \in seen_nodes[radio.packet.requester]
    BY <2>2 DEF RequesterHasSeenHolder
  <2>4. \/ RescheduleRequest(n, s, "zero") /\ s \in seen_nodes'[n]
        \/ Reschedule(n, NoEvent, NoEvent)
    BY <1>7, <2>1, <2>3 DEF HandleReply
  <2> QED BY <1>1, <2>1, <2>2, <2>4, RescheduleAsksSender, SeenStep
<1>8. ASSUME NEW s \in Node, NEW R \in SUBSET Node, Transmit(s, R)
      PROVE  RequesterHasSeenHolder'
  <2>1. UNCHANGED <<seen_nodes, requestEvent, replyEvent>>
    BY <1>8 DEF Transmit, timers
  <2>2. \A m \in Node : \A p \in OnAir(m)' : p \in OnAir(m)
    BY <1>1, <1>8, TransmitOnAir
  <2> QED BY <1>1, <2>1, <2>2, SeenStep
<1>9. CASE UNCHANGED vars
  <2>1. UNCHANGED <<seen_nodes, requestEvent, replyEvent>>
        /\ \A m \in Node : OnAir(m)' = OnAir(m)
    BY <1>9 DEF vars, timers, OnAir
  <2> QED BY <1>1, <2>1, SeenStep
<1> QED BY <1>2, <1>3, <1>4, <1>5, <1>6, <1>7, <1>8, <1>9, StepCases

LEMMA SeenHolderHolds == Spec => []RequesterHasSeenHolder
<1>1. Init => RequesterHasSeenHolder
  <2>1. ASSUME Init, NEW n \in Node PROVE OnAir(n) = {}
    BY <2>1 DEF Init, StartApplication, OnAir
  <2> QED BY <2>1 DEF Init, StartApplication, RequesterHasSeenHolder
<1> QED BY <1>1, SeenHolderStep, InvAlways, PTL DEF Spec

\* Of some files there is one with the least measure.
LEMMA SomeFileIsLeast ==
  ASSUME NEW F \in SUBSET File, F # {}, NEW measure, \A f \in F : measure[f] \in Nat
  PROVE  \E f \in F : \A g \in F : measure[f] <= measure[g]
<1> DEFINE Measures == {measure[f] : f \in F}
<1>1. Measures \in SUBSET Nat /\ Measures # {}
  OBVIOUS
<1>2. PICK least \in Measures : \A k \in Measures : least <= k
  <2> HIDE DEF Measures
  <2> QED BY <1>1, LeastElement
<1> QED BY <1>2

\* The two loops of getFileToRequest leave a file if the first one collects any
\* and some node was seen.
SearchSucceeds ==
  \A n, s \in Node :
    seen_nodes[n] # {} /\ Requestable(n, s) # {} => FileToRequest(n, s) # {}

LEMMA ThereIsAFileToRequest == TypeOK => SearchSucceeds
<1> SUFFICES ASSUME TypeOK, NEW n \in Node, NEW s \in Node,
                    seen_nodes[n] # {}, Requestable(n, s) # {}
             PROVE  FileToRequest(n, s) # {}
  BY DEF SearchSucceeds
<1>1. Requestable(n, s) \in SUBSET File
  BY DEF TypeOK, Typed, Requestable
<1>2. PICK fewest \in Requestable(n, s) : \A g \in Requestable(n, s) :
        NumOfMissingChunks(n, fewest) <= NumOfMissingChunks(n, g)
  <2> DEFINE missing == [g \in File |-> NumOfMissingChunks(n, g)]
  <2>1. \A g \in Requestable(n, s) : missing[g] \in Nat
    BY <1>1, ChunksAssumption DEF TypeOK, Typed, NumOfMissingChunks
  <2>2. \E f \in Requestable(n, s) : \A g \in Requestable(n, s) :
          missing[f] <= missing[g]
    <3> HIDE DEF missing
    <3> QED BY <1>1, <2>1, SomeFileIsLeast
  <2> QED BY <1>1, <2>2
<1>3. FilesWithMinimumChunks(n, s) \in SUBSET File /\ FilesWithMinimumChunks(n, s) # {}
  BY <1>1, <1>2 DEF FilesWithMinimumChunks
<1>4. \E f \in FilesWithMinimumChunks(n, s) : \A g \in FilesWithMinimumChunks(n, s) :
        Cardinality(holders[n][f]) <= Cardinality(holders[n][g])
  <2> DEFINE popularity == [g \in File |-> Cardinality(holders[n][g])]
  <2>1. \A g \in File : popularity[g] \in Nat
    <3> SUFFICES ASSUME NEW g \in File PROVE Cardinality(holders[n][g]) \in Nat
      OBVIOUS
    <3>1. holders[n][g] \in SUBSET Node
      BY DEF TypeOK, Typed
    <3> QED BY <3>1, NodeAssumption, FS_Subset, FS_CardinalityType
  <2>2. \E f \in FilesWithMinimumChunks(n, s) : \A g \in FilesWithMinimumChunks(n, s) :
          popularity[f] <= popularity[g]
    <3> HIDE DEF popularity
    <3> QED BY <1>3, <2>1, SomeFileIsLeast
  <2> QED BY <1>3, <2>2
<1> QED BY <1>4 DEF FileToRequest

\* A node that was told of a file it can use, or got a chunk of one, asks its
\* sender at once: the search over its files never comes back empty, since
\* seen_nodes, by which the popularity divides, already has the sender.
THEOREM NodesAskWheneverTheyCan == Spec => AsksWheneverItCan
<1>1. Typed /\ Typed' /\ SearchSucceeds' /\ RequesterHasSeenHolder =>
        \A n, s \in Node :
          /\ \/ HandleAdvertisement(n, s)
             \/ HandleReply(n, s) /\ radio.packet.requester = n
          /\ Requestable(n, s)' # {}
          => requestEvent'[n] # NoEvent /\ requestEvent'[n].receiver = s
  <2> HAVE Typed /\ Typed' /\ SearchSucceeds' /\ RequesterHasSeenHolder
  <2> TAKE n, s \in Node
  <2>1. HAVE /\ \/ HandleAdvertisement(n, s)
                \/ HandleReply(n, s) /\ radio.packet.requester = n
             /\ Requestable(n, s)' # {}
  <2>2. seen_nodes'[n] # {}
    <3>1. CASE HandleAdvertisement(n, s)
      BY <2>1, <3>1 DEF HandleAdvertisement, AddNodeToSeenList, Typed
    <3>2. CASE HandleReply(n, s) /\ radio.packet.requester = n
      <4>1. Hear(n, s, "rep") /\ seen_nodes' = seen_nodes
        BY <3>2 DEF HandleReply
      <4>2. radio.packet \in OnAir(s) /\ radio.packet.type = "rep"
        BY <2>1, <4>1, HearOnAir
      <4> QED BY <2>1, <3>2, <4>1, <4>2 DEF RequesterHasSeenHolder
    <3> QED BY <2>1, <3>1, <3>2
  <2>3. FileToRequest(n, s)' # {}
    BY <2>1, <2>2 DEF SearchSucceeds
  <2>4. PICK delay \in {"zero", "random"} : RescheduleRequest(n, s, delay)
    BY <2>1 DEF HandleAdvertisement, HandleReply
  <2>5. ScheduleRequest(n, s, delay)
    BY <2>3, <2>4 DEF RescheduleRequest
  <2>6. PICK f \in FileToRequest(n, s)' : \E c \in ChunkIds(f) :
          Reschedule(n, [receiver |-> s, file |-> f, chunk |-> c,
                         delay |-> delay], NoEvent)
    BY <2>5 DEF ScheduleRequest
  <2>7. PICK c \in ChunkIds(f) :
          requestEvent' = [requestEvent EXCEPT ![n] =
            [receiver |-> s, file |-> f, chunk |-> c, delay |-> delay]]
    BY <2>6 DEF Reschedule, CancelAndSchedule
  <2>8. requestEvent'[n] = [receiver |-> s, file |-> f, chunk |-> c, delay |-> delay]
    BY <2>1, <2>7 DEF Typed
  <2>9. f \in File /\ c \in Nat
    BY <2>1, <2>6, ChunksAssumption
       DEF FileToRequest, FilesWithMinimumChunks, Requestable, ChunkIds, Typed
  <2>10. requestEvent'[n] \in RequestEvent
    BY <2>8, <2>9 DEF RequestEvent
  <2> QED BY <2>8, <2>10, NoEventAssumption
<1>2. Inv => Typed
  BY DEF Inv
<1> QED BY <1>1, <1>2, TypeCorrect, InvAlways, ThereIsAFileToRequest,
           SeenHolderHolds, PTL DEF AsksWheneverItCan
=============================================================================
