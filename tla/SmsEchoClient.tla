--------------------------- MODULE SmsEchoClient ---------------------------
(***************************************************************************)
(* The opportunistic file exchange of sms-echo-client.cc: every mobile     *)
(* node runs one SmsEchoClient, all of them talk over a broadcast radio.   *)
(* A node advertises the files it holds in full; a node that hears the     *)
(* advertisement asks the advertiser for the first chunk it misses of one  *)
(* file; the advertiser broadcasts the chunk, and whoever overhears it     *)
(* keeps it.  Every packet a node hears cancels all its timers and arms    *)
(* the next advertisement.                                                 *)
(*                                                                         *)
(* A node's vector `files' is split by field: files[n] is the set of ids   *)
(* in it, chunks[n][f], received[n][f] and holders[n][f] are the fields    *)
(* `chunks', `num_of_received_chunks' and `nodes_who_have_file' of its     *)
(* record of f.  The order of the vectors is abstracted: it only breaks    *)
(* ties in getFileToRequest, where the model picks any of the best files.  *)
(***************************************************************************)
EXTENDS Integers, Sequences, FiniteSets

CONSTANTS
  Node,           \* the addresses of the mobile nodes
  File,           \* the ids of the catalogue
  NumChunks,      \* file_size_in_chunks of each file
  Distributions,  \* the results the calls of getInitialFileList may give
  Leftover,       \* values the uninitialised maximum_full_files_seen may hold
  Unreliable,     \* the nodes at which frames may be lost
  Multiplier,     \* `multiplier' of get_time_advertisement, 50 in the code
  NoEvent,        \* an EventId that is expired or was cancelled
  NoFrame,        \* nothing is on the air
  MaxFrames       \* bound: packets queued at a node before its timers wait

ASSUME NodeAssumption == IsFiniteSet(Node) /\ Cardinality(Node) >= 2

\* The number of advertised files travels in one byte (sms-echo-client.cc:554).
ASSUME FileAssumption == IsFiniteSet(File) /\ Cardinality(File) <= 255

\* Files are never empty: getInitialFileList makes files of 1000 KB.
ASSUME ChunksAssumption == NumChunks \in [File -> Nat \ {0}]

\* getInitialFileList gives every node at least one file.
ASSUME DistributionsAssumption ==
  Distributions \subseteq [Node -> (SUBSET File) \ {{}}]

ASSUME LeftoverAssumption == Leftover \subseteq Nat

ASSUME UnreliableAssumption == Unreliable \subseteq Node

ASSUME MultiplierAssumption == Multiplier \in Nat

ASSUME BoundAssumption == MaxFrames \in Nat \ {0}

VARIABLES
  files,                    \* ids each node knows of
  chunks,                   \* chunks each node has of each file
  received,                 \* num_of_received_chunks, what is_full() reads
  holders,                  \* nodes_who_have_file
  seen_nodes,               \* nodes whose advertisement was heard
  maximum_full_files_seen,
  sendEvent,                \* is m_sendEvent, the next Send(), pending?
  requestEvent,             \* m_requestEvent: the pending request_packet()
  replyEvent,               \* m_replyEvent: the pending reply()
  queue,                    \* packets each node has handed to its interface
  radio,                    \* the frame that is arriving, or NoFrame
  aborted                   \* did some node call abort()?

contents == <<files, chunks, received, holders>>
timers == <<sendEvent, requestEvent, replyEvent>>
vars == <<contents, seen_nodes, maximum_full_files_seen, timers, queue,
          radio, aborted>>

ChunkIds(f) == 0 .. NumChunks[f] - 1

AdvPacket == [type : {"adv"}, files : SUBSET File]
ReqPacket == [type : {"req"}, receiver : Node, file : File, chunk : Nat]
RepPacket == [type : {"rep"}, requester : Node, file : File, chunk : Nat]
Packet == AdvPacket \cup ReqPacket \cup RepPacket

\* A frame that arrives, and the nodes that have yet to receive it.
Frame == [from : Node, packet : Packet, to : (SUBSET Node) \ {{}}]

ASSUME NoFrameAssumption == NoFrame \notin Frame

RequestEvent == [receiver : Node, file : File, chunk : Nat,
                 delay : {"zero", "random"}]
ReplyEvent == [requester : Node, file : File, chunk : Nat]

ASSUME NoEventAssumption == NoEvent \notin RequestEvent \cup ReplyEvent

\* The type of each variable.
Typed ==
  /\ files \in [Node -> SUBSET File]
  /\ chunks \in [Node -> [File -> SUBSET Nat]]
  /\ received \in [Node -> [File -> Nat]]
  /\ holders \in [Node -> [File -> SUBSET Node]]
  /\ seen_nodes \in [Node -> SUBSET Node]
  /\ maximum_full_files_seen \in [Node -> Nat]
  /\ sendEvent \in [Node -> BOOLEAN]
  /\ requestEvent \in [Node -> RequestEvent \cup {NoEvent}]
  /\ replyEvent \in [Node -> ReplyEvent \cup {NoEvent}]
  /\ queue \in [Node -> Seq(Packet)]
  /\ radio \in Frame \cup {NoFrame}
  /\ aborted \in BOOLEAN

\* What each variable holds; the counter of a record (num_of_received_chunks)
\* never exceeds the length of its bitmap, so that is_full() may test for
\* equality and the number of missing chunks is never negative.
TypeOK ==
  /\ Typed
  /\ \A n \in Node, f \in File : received[n][f] <= NumChunks[f]

-----------------------------------------------------------------------------
(* FileSMSChunks and the queries over a node's files.                      *)

Larger(a, b) == IF a > b THEN a ELSE b

IsFull(n, f) == received[n][f] = NumChunks[f]

FullFiles(n) == {f \in files[n] : IsFull(n, f)}

NumOfMissingChunks(n, f) == NumChunks[f] - received[n][f]

\* c is the result of get_first_missing_chunk on n's record of f.
IsFirstMissingChunk(n, f, c) ==
  /\ c \in ChunkIds(f) \ chunks[n][f]
  /\ \A d \in ChunkIds(f) \ chunks[n][f] : c <= d

\* Mutant: asks s for files only others are known to hold.
RequestableFromAnyone(n, s) == {f \in files[n] : ~IsFull(n, f)}

\* Unfinished files that s is known to hold, and those closest to completion.
Requestable(n, s) == {f \in files[n] : ~IsFull(n, f) /\ s \in holders[n][f]}

FilesWithMinimumChunks(n, s) ==
  {f \in Requestable(n, s) : \A g \in Requestable(n, s) :
      NumOfMissingChunks(n, f) <= NumOfMissingChunks(n, g)}

\* The files getFileToRequest may return; none stands for the empty dummy
\* file, which is_full().  A popularity is a share of seen_nodes: with no
\* node seen the division gives infinity, which is below no popularity.
FileToRequest(n, s) ==
  {f \in FilesWithMinimumChunks(n, s) :
      /\ seen_nodes[n] # {}
      /\ \A g \in FilesWithMinimumChunks(n, s) :
            Cardinality(holders[n][f]) <= Cardinality(holders[n][g])}

-----------------------------------------------------------------------------
(* Events, simulated time and the radio.                                   *)

\* Mutant: an older request survives when there is no new one.
CancelAndScheduleKeepingRequest(n, send, request, reply) ==
  /\ sendEvent' = [sendEvent EXCEPT ![n] = send]
  /\ requestEvent' = [requestEvent EXCEPT ![n] =
       IF request = NoEvent THEN @ ELSE request]
  /\ replyEvent' = [replyEvent EXCEPT ![n] = reply]

\* cancel_all_events, and then what the handler schedules in its place.
CancelAndSchedule(n, send, request, reply) ==
  /\ sendEvent' = [sendEvent EXCEPT ![n] = send]
  /\ requestEvent' = [requestEvent EXCEPT ![n] = request]
  /\ replyEvent' = [replyEvent EXCEPT ![n] = reply]

\* Every handler that returns has armed the next advertisement, with a
\* request or a reply if the packet calls for one.
Reschedule(n, request, reply) == CancelAndSchedule(n, TRUE, request, reply)

\* The request for the file getFileToRequest picks from the updated files is
\* made from a copy of the file's record, so its chunk is fixed here.
ScheduleRequest(n, s, delay) ==
  \E f \in FileToRequest(n, s)' : \E c \in ChunkIds(f) :
    /\ IsFirstMissingChunk(n, f, c)'
    /\ Reschedule(n, [receiver |-> s, file |-> f, chunk |-> c,
                      delay |-> delay], NoEvent)

\* Mutant: "maybe here we shouldn't advertise again and just shut up".
ShutUpOrScheduleRequest(n, s, delay) ==
  \/ FileToRequest(n, s)' = {} /\ CancelAndSchedule(n, FALSE, NoEvent, NoEvent)
  \/ ScheduleRequest(n, s, delay)

RescheduleRequest(n, s, delay) ==
  \/ FileToRequest(n, s)' = {} /\ Reschedule(n, NoEvent, NoEvent)
  \/ ScheduleRequest(n, s, delay)

\* In milliseconds, the advertisement waits maximum_full_files_seen + 10 +
\* Multiplier / full + [0, 15] and the request full + 1 + [0, 10], full being
\* the number of full files of the node.  Both are scheduled by one handler,
\* so Send() overtakes request_packet() only if its shortest delay is below
\* the longest delay of the request (both sides times full).
MayOvertakeRequest(n) ==
  LET full == Cardinality(FullFiles(n))
  IN  full * (maximum_full_files_seen[n] + 10) + Multiplier < full * (full + 11)

\* Mutant: the reply is scheduled with a delay.
OnlyRequestsAreInstant(n) ==
  requestEvent[n] # NoEvent /\ requestEvent[n].delay = "zero"

\* The events that are scheduled with Seconds(0).
ZeroDelayPending(n) ==
  \/ replyEvent[n] # NoEvent
  \/ requestEvent[n] # NoEvent /\ requestEvent[n].delay = "zero"

\* The scheduler runs an event that is zero seconds ahead before any later
\* one, of whichever node.
InstantDone == \A n \in Node : ~ZeroDelayPending(n)

\* Simulated time moves on when the frame that arrives, which takes well
\* under a microsecond within 25 m, has reached all its receivers.
TimePasses == ~aborted /\ InstantDone /\ radio = NoFrame

\* m_socket_send->Send: the interface sends its packets first in, first out.
Enqueue(n, packet) == queue' = [queue EXCEPT ![n] = Append(@, packet)]

\* The bound holds back timers, never the answer to a frame just received.
Room(n) == Len(queue[n]) < MaxFrames

\* The first packet of s goes on the air and reaches exactly the nodes in R;
\* the others are out of range or lose it to fading or a collision.
Transmit(s, R) ==
  /\ TimePasses
  /\ queue[s] # <<>>
  /\ queue' = [queue EXCEPT ![s] = Tail(@)]
  /\ radio' = IF R = {} THEN NoFrame
                ELSE [from |-> s, packet |-> Head(queue[s]), to |-> R]
  /\ UNCHANGED <<contents, seen_nodes, maximum_full_files_seen, timers,
                 aborted>>

\* HandleRead of node n is called for the packet of node s on the air.  Each
\* packet has its own call, so the early returns of its loop skip no packet.
Hear(n, s, type) ==
  /\ ~aborted
  /\ InstantDone
  /\ radio # NoFrame
  /\ radio.from = s
  /\ radio.packet.type = type
  /\ n \in radio.to
  /\ radio' = IF radio.to = {n} THEN NoFrame
                ELSE [radio EXCEPT !.to = @ \ {n}]
  /\ queue' = queue

-----------------------------------------------------------------------------
(* The state after StartApplication of every node.                         *)

\* The constructor does not initialise maximum_full_files_seen, and SetFiles
\* takes the maximum with what the memory held.
SetFiles(initial, leftover) ==
  /\ files = initial
  /\ chunks = [n \in Node |-> [f \in File |->
                 IF f \in initial[n] THEN ChunkIds(f) ELSE {}]]
  /\ received = [n \in Node |-> [f \in File |->
                   IF f \in initial[n] THEN NumChunks[f] ELSE 0]]
  /\ holders = [n \in Node |-> [f \in File |-> {}]]
  /\ maximum_full_files_seen = [n \in Node |->
       Larger(leftover[n], Cardinality(initial[n]))]

\* Every node arms its first advertisement.
StartApplication ==
  /\ seen_nodes = [n \in Node |-> {}]
  /\ sendEvent = [n \in Node |-> TRUE]
  /\ requestEvent = [n \in Node |-> NoEvent]
  /\ replyEvent = [n \in Node |-> NoEvent]

Init ==
  /\ \E initial \in Distributions, leftover \in [Node -> Leftover] :
       SetFiles(initial, leftover)
  /\ StartApplication
  /\ queue = [n \in Node |-> <<>>]
  /\ radio = NoFrame
  /\ aborted = FALSE

-----------------------------------------------------------------------------
(* The timers expire.                                                      *)

\* m_sendEvent expires and node n advertises the files in `advertised'.
Advertise(n, advertised) ==
  /\ TimePasses
  /\ sendEvent[n]
  /\ requestEvent[n] = NoEvent \/ MayOvertakeRequest(n)
  /\ Room(n)
  /\ sendEvent' = [sendEvent EXCEPT ![n] = FALSE]
  /\ Enqueue(n, [type |-> "adv", files |-> advertised])
  /\ maximum_full_files_seen' = [maximum_full_files_seen EXCEPT ![n] =
       Larger(@, Cardinality(advertised))]
  /\ UNCHANGED <<contents, seen_nodes, requestEvent, replyEvent, radio,
                 aborted>>

\* Mutant: EncodeFilesForAdv does not skip the files that are not full.
SendAllFiles(n) == Advertise(n, files[n])

\* The advertisement lists what is full now, not what was when it was armed.
Send(n) == Advertise(n, FullFiles(n))

RequestPacket(n) ==
  LET request == requestEvent[n]
  IN  /\ ~aborted
      /\ request # NoEvent
      /\ ZeroDelayPending(n) \/ (TimePasses /\ Room(n))
      /\ requestEvent' = [requestEvent EXCEPT ![n] = NoEvent]
      /\ Enqueue(n, [type |-> "req", receiver |-> request.receiver,
                     file |-> request.file, chunk |-> request.chunk])
      /\ UNCHANGED <<contents, seen_nodes, maximum_full_files_seen,
                     sendEvent, replyEvent, radio, aborted>>

Reply(n) ==
  LET reply == replyEvent[n]
  IN  /\ ~aborted
      /\ reply # NoEvent
      /\ replyEvent' = [replyEvent EXCEPT ![n] = NoEvent]
      /\ Enqueue(n, [type |-> "rep", requester |-> reply.requester,
                     file |-> reply.file, chunk |-> reply.chunk])
      /\ UNCHANGED <<contents, seen_nodes, maximum_full_files_seen,
                     sendEvent, requestEvent, radio, aborted>>

-----------------------------------------------------------------------------
(* HandleRead: the three kinds of packet node n may hear from node s.      *)

\* Mutant: a node that was not seen before is not added.
NoteNobody(n, s) == n \in Node /\ s \in Node /\ seen_nodes' = seen_nodes

AddNodeToSeenList(n, s) ==
  seen_nodes' = [seen_nodes EXCEPT ![n] = @ \cup {s}]

\* n notes s as a holder of the files s advertises; those it did not know get
\* an empty record.
DecodeFilesForAdv(n, s, advertised) ==
  /\ files' = [files EXCEPT ![n] = @ \cup advertised]
  /\ holders' = [holders EXCEPT ![n] = [f \in File |->
       IF f \in advertised THEN @[f] \cup {s} ELSE @[f]]]
  /\ maximum_full_files_seen' = [maximum_full_files_seen EXCEPT ![n] =
       Larger(@, Cardinality(advertised))]
  /\ UNCHANGED <<chunks, received>>

HandleAdvertisement(n, s) ==
  /\ Hear(n, s, "adv")
  /\ AddNodeToSeenList(n, s)
  /\ DecodeFilesForAdv(n, s, radio.packet.files)
  /\ aborted' = aborted
  /\ RescheduleRequest(n, s, "random")

\* Does getFileById find f?
IsKnown(n, f) == f \in files[n]

\* The outcomes of a request: it is for another node, n answers it, or it is
\* for a file n does not know, which ends the program.
IgnoreRequest(n) == Reschedule(n, NoEvent, NoEvent) /\ aborted' = aborted

AnswerRequest(n, s, request) ==
  /\ IsKnown(n, request.file)
  /\ Reschedule(n, NoEvent, [requester |-> s, file |-> request.file,
                             chunk |-> request.chunk])
  /\ aborted' = aborted

AbortOnRequest(n, request) ==
  /\ ~IsKnown(n, request.file)
  /\ CancelAndSchedule(n, FALSE, NoEvent, NoEvent)
  /\ aborted' = TRUE

\* Mutant: does not look at the receiver's address.
HandleAnyRequest(n, s) ==
  /\ Hear(n, s, "req")
  /\ AnswerRequest(n, s, radio.packet) \/ AbortOnRequest(n, radio.packet)
  /\ UNCHANGED <<contents, seen_nodes, maximum_full_files_seen>>

\* Whether n has the chunk is never looked at.
HandleRequest(n, s) ==
  /\ Hear(n, s, "req")
  /\ IF radio.packet.receiver # n
       THEN IgnoreRequest(n)
       ELSE AnswerRequest(n, s, radio.packet) \/ AbortOnRequest(n, radio.packet)
  /\ UNCHANGED <<contents, seen_nodes, maximum_full_files_seen>>

\* n's record of f gets chunk c, heard from s.  A file that is not in files[n]
\* has an empty record, which is what the code appends for it.
RecordChunk(n, f, c, s) ==
  /\ files' = [files EXCEPT ![n] = @ \cup {f}]
  /\ holders' = [holders EXCEPT ![n][f] = @ \cup {s}]
  /\ chunks' = [chunks EXCEPT ![n][f] = @ \cup {c}]
  /\ received' = [received EXCEPT ![n][f] = @ + 1]

UpdateMaximum(n) ==
  maximum_full_files_seen' = [maximum_full_files_seen EXCEPT ![n] =
    Larger(@, Cardinality(FullFiles(n)'))]

\* Mutant: a chunk that is heard twice is counted twice.
AddChunkAgain(n, f, c, s) == RecordChunk(n, f, c, s) /\ UpdateMaximum(n)

\* Mutant: a file that is completed does not raise the maximum.
AddChunkOnly(n, f, c, s) ==
  IF c \in chunks[n][f]
    THEN UNCHANGED <<contents, maximum_full_files_seen>>
    ELSE RecordChunk(n, f, c, s) /\ UNCHANGED maximum_full_files_seen

\* add_new_chunk
AddNewChunk(n, f, c, s) ==
  IF c \in chunks[n][f]
    THEN UNCHANGED <<contents, maximum_full_files_seen>>
    ELSE RecordChunk(n, f, c, s) /\ UpdateMaximum(n)

\* Every node that hears a reply keeps the chunk; the node that asked for it
\* goes on with the next chunk at once.
HandleReply(n, s) ==
  /\ Hear(n, s, "rep")
  /\ AddNewChunk(n, radio.packet.file, radio.packet.chunk, s)
  /\ UNCHANGED <<seen_nodes, aborted>>
  /\ IF radio.packet.requester = n
       THEN RescheduleRequest(n, s, "zero")
       ELSE Reschedule(n, NoEvent, NoEvent)

HandleRead(n, s) ==
  \/ HandleAdvertisement(n, s)
  \/ HandleRequest(n, s)
  \/ HandleReply(n, s)

-----------------------------------------------------------------------------

Events ==
  \/ \E n \in Node : Send(n) \/ RequestPacket(n) \/ Reply(n)
  \/ \E n, s \in Node : HandleRead(n, s)

\* The sets of nodes a frame of s may reach.
Receivers(s) ==
  {R \in SUBSET (Node \ {s}) : Node \ (Unreliable \cup {s}) \subseteq R}

Next == Events \/ \E s \in Node : \E R \in Receivers(s) : Transmit(s, R)

Spec == Init /\ [][Next]_vars

\* All nodes in range of each other, and no frame lost.
TransmitToAll(s) == Transmit(s, Node \ {s})

ReliableNext == Events \/ \E s \in Node : TransmitToAll(s)

\* Armed timers expire, queued packets get the radio, frames arrive.
Fairness ==
  /\ \A n \in Node : /\ WF_vars(Send(n))
                     /\ WF_vars(RequestPacket(n))
                     /\ WF_vars(Reply(n))
                     /\ WF_vars(TransmitToAll(n))
  /\ \A n, s \in Node : WF_vars(HandleRead(n, s))

ReliableSpec == Init /\ [][ReliableNext]_vars /\ Fairness

\* Three nodes and more keep cancelling each other's timers.  Every delay has
\* a fresh random part, so of timers that are armed again and again, and whose
\* delays have overlapping ranges, none is always the one that is overtaken.
JitterSpec ==
  /\ Init
  /\ [][ReliableNext]_vars
  /\ \A n \in Node : /\ SF_vars(Send(n))
                     /\ SF_vars(RequestPacket(n))
                     /\ WF_vars(Reply(n))
                     /\ SF_vars(TransmitToAll(n))
  /\ \A n, s \in Node : WF_vars(HandleRead(n, s))

-----------------------------------------------------------------------------
(* Properties.                                                             *)

D == INSTANCE Dissemination WITH held <- chunks, known <- holders

\* The exchange is a dissemination: whatever a node overhears, and however old
\* it is, it notes as holders only nodes that have the whole file, and every
\* chunk it gains comes from one of them.
ImplementsDissemination == D!Spec

\* The packets of node s that are queued or arriving.
OnAir(s) ==
  {queue[s][i] : i \in DOMAIN queue[s]} \cup
  IF radio # NoFrame /\ radio.from = s THEN {radio.packet} ELSE {}

\* The counter that is_full() trusts equals the number of chunks in the bitmap,
\* although add_new_chunk keeps the two apart and a chunk may arrive again: asked
\* for twice, overheard, or of a file that was unknown until then.
CounterMatchesBitmap ==
  \A n \in Node, f \in File :
    /\ chunks[n][f] \subseteq ChunkIds(f)
    /\ received[n][f] = Cardinality(chunks[n][f])
    /\ f \notin files[n] => chunks[n][f] = {}

\* A node in nodes_who_have_file has the whole file, although it enters the
\* list through a packet that was built, queued and overheard much earlier.
HoldersHaveFile ==
  \A n, m \in Node, f \in File :
    m \in holders[n][f] => f \in FullFiles(m)

\* A node that has a file in full keeps it for good: no chunk that is heard
\* again moves the counter past the number of chunks.  The delay of an
\* advertisement divides by the number of full files, which starts positive.
FullFilesAreKept ==
  [][\A n \in Node : FullFiles(n) \subseteq FullFiles(n)']_vars

\* No node hears itself: UDP does not loop a broadcast back to its sender.
NoSelfReception == radio # NoFrame => radio.from \notin radio.to

\* s can serve chunk c of f.
CanServe(s, f, c) == f \in FullFiles(s) /\ c \in ChunkIds(f)

\* A request, pending or on the air, goes to a node that has the whole file,
\* and a reply leaves from one: HandleRequest checks neither that it has the
\* chunk nor that the chunk exists.
EventsAreServable(n) ==
  /\ requestEvent[n] # NoEvent =>
       CanServe(requestEvent[n].receiver, requestEvent[n].file,
                requestEvent[n].chunk)
  /\ replyEvent[n] # NoEvent =>
       CanServe(n, replyEvent[n].file, replyEvent[n].chunk)

PacketIsServable(n, p) ==
  /\ p.type = "adv" => p.files \subseteq FullFiles(n)
  /\ p.type = "req" => CanServe(p.receiver, p.file, p.chunk)
  /\ p.type = "rep" => CanServe(n, p.file, p.chunk)

ExchangesAreServable ==
  \A n \in Node :
    EventsAreServable(n) /\ \A p \in OnAir(n) : PacketIsServable(n, p)

\* HandleRead never reaches abort(), which would end the whole simulation:
\* no node is asked for a file that it does not know.
NeverAborts == ~aborted

\* The copy of the file record that a pending request carries is not stale:
\* when request_packet runs, the chunk it names is still the first missing.
RequestsAreFresh ==
  \A n \in Node : requestEvent[n] # NoEvent =>
    IsFirstMissingChunk(n, requestEvent[n].file, requestEvent[n].chunk)

\* getFileToRequest finds a file to ask for whenever there is one: a node that
\* hears an advertisement, or the answer to its own request, asks the sender for
\* more if it knows the sender to hold a file that it has not finished.  With an
\* empty seen_nodes every popularity would be infinite and nothing asked for.
AsksWheneverItCan ==
  [][\A n, s \in Node :
       /\ \/ HandleAdvertisement(n, s)
          \/ HandleReply(n, s) /\ radio.packet.requester = n
       /\ Requestable(n, s)' # {}
       => requestEvent'[n] # NoEvent /\ requestEvent'[n].receiver = s]_vars

\* maximum_full_files_seen, which delays advertisements, covers the node's own
\* full files, which delay its requests: a file completed by the last chunk of
\* a reply is counted in the same step as any that were advertised.
MaximumCoversOwnFiles ==
  \A n \in Node :
    Cardinality(FullFiles(n)) <= maximum_full_files_seen[n]

\* While nothing is lost the exchange cannot run dry: some timer is armed or
\* some packet is queued or arriving (after Send() no node re-arms its own timer).
NeverSilent ==
  \E n \in Node : \/ sendEvent[n]
                  \/ requestEvent[n] # NoEvent
                  \/ replyEvent[n] # NoEvent
                  \/ OnAir(n) # {}

\* Every node ends up with every file that some node had at the start.
Catalogue == UNION {FullFiles(n) : n \in Node}

Disseminated == \A n \in Node : FullFiles(n) = Catalogue

EventuallyDisseminated == <>[]Disseminated

\* A request that is on the air is answered by a reply to its sender, whatever
\* both nodes hear from each other in between, and also if the chunk has arrived
\* meanwhile: no other packet cancels a reply before it is sent.
RequestsAreAnswered ==
  \A n, m \in Node, f \in File, c \in UNION {ChunkIds(g) : g \in File} :
    (\E p \in OnAir(n) :
        p = [type |-> "req", receiver |-> m, file |-> f, chunk |-> c])
      ~> (\E p \in OnAir(m) :
             p = [type |-> "rep", requester |-> n, file |-> f, chunk |-> c])
=============================================================================
