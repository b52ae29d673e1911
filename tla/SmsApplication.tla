--------------------------- MODULE SmsApplication ---------------------------
(***************************************************************************)
(* The life of the SmsEchoClient of one node: the helper configures it,    *)
(* ns-3 starts it, its timers expire, packets of other nodes arrive at any *)
(* time, and it is stopped or the simulation ends.  SmsEchoClient.tla      *)
(* abstracts delays and events; here every Simulator::Schedule makes an    *)
(* event with its due time and its uid, the three handles of the node name *)
(* events, and time is counted.  What the packets say is abstracted to the *)
(* numbers the delays and the packet buffer depend on.                     *)
(***************************************************************************)
EXTENDS EchoBuffer

CONSTANTS
  FullCounts,        \* numbers of files getInitialFileList may return
  Leftover,          \* values the uninitialised maximum_full_files_seen may hold
  AdvertisedCounts,  \* numbers of files other nodes advertise
  TicksPerMs,        \* the unit in which time is counted
  Multiplier,        \* `multiplier' of get_time_advertisement, 50 in the code
  SendJitter,        \* random parts of its result, in ticks
  RequestJitter,     \* random parts of the result of get_time_request
  StartTime,         \* apps.Start
  StopTimes,         \* apps.Stop
  EndTime,           \* Simulator::Stop
  Gaps,              \* ticks from one event to the reception of a packet
  PacketSize,        \* the attribute that main sets
  Pattern,           \* bytes given to SetFill
  DataSize,          \* sizes given to SetFill and SetDataSize
  MaxFiles,          \* bound: records in `files'
  MaxHeard,          \* bound: packets received
  MaxFills           \* bound: calls of SetFill before the start

ASSUME CountsAssumption ==
  FullCounts \subseteq Nat \ {0} /\ Leftover \subseteq Nat /\ AdvertisedCounts \subseteq Nat

ASSUME DelaysAssumption ==
  /\ TicksPerMs \in Nat \ {0}
  /\ Multiplier \in Nat
  /\ SendJitter \subseteq 0 .. 15 * TicksPerMs
  /\ RequestJitter \subseteq 0 .. 10 * TicksPerMs

ASSUME TimesAssumption ==
  /\ StartTime \in Nat /\ EndTime \in Nat
  /\ StopTimes \subseteq Nat
  /\ \A stop \in StopTimes : StartTime < stop /\ stop <= EndTime
  /\ Gaps \subseteq Nat \ {0}

\* Bytes and the attributes of the helper.
ASSUME BufferAssumption ==
  PacketSize \in Nat /\ Pattern \subseteq Seq(Byte) /\ DataSize \subseteq Nat

ASSUME BoundsAssumption ==
  MaxFiles \in Nat /\ MaxHeard \in Nat /\ MaxFills \in Nat

VARIABLES
  now,                      \* Simulator::Now()
  events,                   \* the events the simulator has still to run
  next_uid,                 \* the uid of the next event that is scheduled
  handle,                   \* the uids m_sendEvent, m_requestEvent, m_replyEvent name
  open,                     \* m_socket # 0 and m_socket_send # 0
  files,                    \* files.size()
  full,                     \* GetNumOfFullFiles()
  maximum_full_files_seen,
  m_stopTime,
  heard,                    \* packets received
  fills,                    \* fills before the start
  status                    \* running, over, or the function in which it crashed

counts == <<files, full, maximum_full_files_seen>>
vars == <<now, events, next_uid, handle, open, counts, m_stopTime, heard,
          fills, status, buffer>>

Timer == {"send", "request", "reply"}

\* ns-3 runs events by their time, and those of one time by their uid.
Event == [uid : Nat \ {0}, what : Timer \cup {"start", "stop", "end"}, at : Nat]

\* What each variable holds.
TypeOK ==
  /\ now \in Nat
  /\ events \subseteq Event
  /\ next_uid \in Nat \ {0}
  /\ handle \in [Timer -> Nat]
  /\ open \in BOOLEAN
  /\ files \in Nat /\ full \in Nat \ {0} /\ maximum_full_files_seen \in Nat
  /\ m_stopTime \in StopTimes
  /\ heard \in Nat /\ fills \in Nat
  /\ status \in {"running", "ended", "destroyed", "assertion"} \cup Timer
  /\ BufferTypeOK

Larger(a, b) == IF a > b THEN a ELSE b

-----------------------------------------------------------------------------
(* Delays and events.                                                      *)

\* Mutant: the offset is left out, as it is for the first advertisement.
DelayWithoutOffset(start, own, seen, jitter) ==
  (Multiplier * TicksPerMs) \div own + jitter

\* Mutant: the random part is "from -5.0 to 5.0", as the comment has it.
DelayWithSignedJitter(start, own, seen, jitter) ==
  LET offset == IF start THEN 0 ELSE (seen + 10) * TicksPerMs
  IN  offset + (Multiplier * TicksPerMs) \div own + jitter - 5 * TicksPerMs

\* get_time_advertisement, in ticks
AdvertisementDelay(start, own, seen, jitter) ==
  LET offset == IF start THEN 0 ELSE (seen + 10) * TicksPerMs
  IN  offset + (Multiplier * TicksPerMs) \div own + jitter

\* get_time_request, in ticks
RequestDelay(own, jitter) == (own + 1) * TicksPerMs + jitter

\* Mutant: m_requestEvent is forgotten.
CancelAllButRequest == {e \in events : e.uid \notin {handle["send"], handle["reply"]}}

\* The events cancel_all_events leaves.
CancelAllEvents == {e \in events : e.uid \notin {handle[w] : w \in Timer}}

\* Calls of Simulator::Schedule, in their order; each sets its handle.
Schedule(rest, calls) ==
  /\ events' = rest \cup {[uid |-> next_uid + i - 1, what |-> calls[i].what,
                           at |-> now' + calls[i].delay] : i \in DOMAIN calls}
  /\ next_uid' = next_uid + Len(calls)
  /\ handle' = [w \in Timer |->
       IF \E i \in DOMAIN calls : calls[i].what = w
         THEN next_uid - 1 + CHOOSE i \in DOMAIN calls : calls[i].what = w
         ELSE handle[w]]

\* e is the event the simulator runs next.
Expires(e, what) ==
  /\ status = "running"
  /\ e.what = what
  /\ \A d \in events : e.at < d.at \/ (e.at = d.at /\ e.uid <= d.uid)
  /\ now' = e.at

-----------------------------------------------------------------------------
(* Before the start.                                                       *)

\* main calls Simulator::Stop before Simulator::Run, which initialises the
\* nodes; only then are the start and the stop of the application scheduled.
Init ==
  /\ now = 0
  /\ m_stopTime \in StopTimes
  /\ events = {[uid |-> 1, what |-> "end", at |-> EndTime],
               [uid |-> 2, what |-> "start", at |-> StartTime],
               [uid |-> 3, what |-> "stop", at |-> m_stopTime]}
  /\ next_uid = 4
  /\ handle = [w \in Timer |-> 0]
  /\ open = FALSE
  /\ full \in FullCounts
  /\ files = full
  /\ \E leftover \in Leftover : maximum_full_files_seen = Larger(leftover, full)
  /\ heard = 0
  /\ fills = 0
  /\ status = "running"
  /\ BufferInit(PacketSize)

\* SetFill and the attribute PacketSize of the helper.
Configure ==
  /\ fills < MaxFills
  /\ \E e \in events : e.what = "start"
  /\ fills' = fills + 1
  /\ \/ \E fill \in Pattern, size \in DataSize : SetFillPattern(fill, size)
     \/ \E fill \in Pattern : SetFillString(fill)
     \/ \E byte \in {7}, size \in DataSize : SetFillByte(byte, size)
     \/ \E size \in DataSize : SetDataSize(size)
  /\ UNCHANGED <<now, events, next_uid, handle, open, counts, m_stopTime,
                 heard, status>>

StartApplication ==
  /\ \E e \in events, jitter \in SendJitter :
       /\ Expires(e, "start")
       /\ Schedule(events \ {e}, <<[what |-> "send",
            delay |-> AdvertisementDelay(TRUE, full, maximum_full_files_seen, jitter)]>>)
  /\ open' = TRUE
  /\ UNCHANGED <<counts, m_stopTime, heard, fills, status, buffer>>

-----------------------------------------------------------------------------
(* The timers expire.                                                      *)

\* Mutant: the count in the header is that of all records.
PacketOfAllRecords ==
  [i \in 1 .. 2 + 4 * files |->
     IF i = 1 THEN 0 ELSE IF i = 2 THEN files % 256
     ELSE IF i <= 2 + 4 * full THEN 1 ELSE Junk]

\* The memory for the packet has room for every record; the type, the count
\* and the records of the full files are written, and nothing behind them.
AdvertisementPacket ==
  [i \in 1 .. 2 + 4 * files |->
     IF i = 1 THEN 0 ELSE IF i = 2 THEN full % 256
     ELSE IF i <= 2 + 4 * full THEN 1 ELSE Junk]

\* Send asserts that m_sendEvent has expired: it is the event that runs.
Send ==
  /\ \E e \in events :
       /\ Expires(e, "send")
       /\ events' = events \ {e}
       /\ IF \E d \in events \ {e} : d.uid = handle["send"]
            THEN status' = "assertion" /\ UNCHANGED <<maximum_full_files_seen, buffer>>
            ELSE /\ status' = IF open THEN status ELSE "send"
                 /\ maximum_full_files_seen' = Larger(maximum_full_files_seen, full)
                 /\ SetFillPattern(AdvertisementPacket, 2 + 4 * files)
  /\ UNCHANGED <<next_uid, handle, open, files, full, m_stopTime, heard, fills>>

\* request_packet and reply use m_socket_send, too.
SendPacket(what) ==
  /\ \E e \in events : Expires(e, what) /\ events' = events \ {e}
  /\ status' = IF open THEN status ELSE what
  /\ UNCHANGED <<next_uid, handle, open, counts, m_stopTime, heard, fills, buffer>>

RequestPacket == SendPacket("request")

Reply == SendPacket("reply")

-----------------------------------------------------------------------------
(* Packets arrive.                                                         *)

\* A packet may arrive at any time between two events, and at the time of a
\* timer before it, but not once the node is stopped or the simulation over.
Hear ==
  /\ status = "running"
  /\ open
  /\ heard < MaxHeard
  /\ heard' = heard + 1
  /\ \E gap \in Gaps : now' = now + gap
  /\ \A e \in events : IF e.what \in Timer THEN now' <= e.at ELSE now' < e.at
  /\ UNCHANGED <<open, m_stopTime, fills, status, buffer>>

SendCall(jitter) ==
  [what  |-> "send",
   delay |-> AdvertisementDelay(FALSE, full', maximum_full_files_seen', jitter)]

\* What every handler schedules, from the new counts.
Resend ==
  \E jitter \in SendJitter : Schedule(CancelAllEvents, <<SendCall(jitter)>>)

\* A request or a reply comes before it in the code.
ResendAfter(what, delay) ==
  \E jitter \in SendJitter :
    Schedule(CancelAllEvents, <<[what |-> what, delay |-> delay], SendCall(jitter)>>)

HandleAdvertisement ==
  /\ Hear
  /\ files' \in files .. MaxFiles
  /\ full' = full
  /\ \E num \in AdvertisedCounts :
       maximum_full_files_seen' = Larger(maximum_full_files_seen, num)
  /\ \/ Resend
     \/ /\ full' < files'
        /\ \E jitter \in RequestJitter :
             ResendAfter("request", RequestDelay(full', jitter))

\* The request is for another node, or it is answered.
HandleRequest ==
  /\ Hear
  /\ UNCHANGED counts
  /\ \/ Resend
     \/ ResendAfter("reply", 0)

\* add_new_chunk may append a record and complete a file.
AddNewChunk ==
  \/ UNCHANGED counts
  \/ /\ files' \in {files, files + 1}
     /\ files' <= MaxFiles
     /\ full' \in {full, full + 1}
     /\ full' <= files'
     /\ maximum_full_files_seen' = Larger(maximum_full_files_seen, full')

HandleReply ==
  /\ Hear
  /\ AddNewChunk
  /\ \/ Resend
     \/ full' < files' /\ ResendAfter("request", 0)

-----------------------------------------------------------------------------
(* The end.                                                                *)

\* Mutant: m_sendEvent is not cancelled.
EventsKeptByStop(e) == events \ {e}

\* StopApplication cancels m_sendEvent, and no other.
EventsAfterStop(e) == {d \in events \ {e} : d.uid # handle["send"]}

StopApplication ==
  /\ \E e \in events : Expires(e, "stop") /\ events' = EventsAfterStop(e)
  /\ open' = FALSE
  /\ UNCHANGED <<next_uid, handle, counts, m_stopTime, heard, fills, status, buffer>>

\* The event of Simulator::Stop: Simulator::Run returns.
End ==
  /\ \E e \in events : Expires(e, "end") /\ events' = events \ {e}
  /\ status' = "ended"
  /\ UNCHANGED <<next_uid, handle, open, counts, m_stopTime, heard, fills, buffer>>

\* Simulator::Destroy drops the events and destroys the application.
Destroy ==
  /\ status = "ended"
  /\ status' = "destroyed"
  /\ events' = {}
  /\ open' = FALSE
  /\ m_data' = NoData
  /\ m_dataSize' = 0
  /\ UNCHANGED <<now, next_uid, handle, counts, m_stopTime, heard, fills, m_size>>

Next ==
  \/ Configure \/ StartApplication
  \/ Send \/ RequestPacket \/ Reply
  \/ HandleAdvertisement \/ HandleRequest \/ HandleReply
  \/ StopApplication \/ End \/ Destroy

Spec == Init /\ [][Next]_vars

-----------------------------------------------------------------------------
(* Properties.                                                             *)

\* Every pending send, request or reply is the one its handle names, so that
\* cancel_all_events reaches it and the assertion of Send holds: no sequence
\* of packets, timers and handlers that return early loses a handle.
HandlesNameEvents ==
  /\ \A e \in events : e.what \in Timer => e.uid = handle[e.what]
  /\ status # "assertion"

\* An advertisement runs before a request that is pending only if the counts
\* allow it: this is the guard that SmsEchoClient.tla puts on Send in place of
\* the delays, and in the code needs more than 50 full files.
MayOvertakeRequest == full * (maximum_full_files_seen + 10) + Multiplier < full * (full + 11)

RequestPending == \E e \in events : e.what = "request"

OvertakesOnlyIfAllowed ==
  [][Send /\ RequestPending => MayOvertakeRequest]_vars

\* StopApplication closes the sockets and leaves a request pending.  That the
\* null socket is then used takes a stop before the end of the simulation and
\* a request that waits; with main's equal times the stop is never run.
CrashOnlyIfStoppedEarly ==
  status \in Timer => status = "request" /\ m_stopTime < EndTime

\* The buffer of a packet is as long as all records, and only the full ones
\* are written: the receiver, which decodes as many records as the header
\* says, reads no byte that was never written.
DecodedBytesAreWritten ==
  m_data # NoData =>
    \A i \in DOMAIN m_data : m_data[i] = Junk => i > 2 + 4 * m_data[2]

\* Every SetFill leaves the pattern repeated over the whole buffer, whatever
\* that was sized and filled with before.
FillsRepeatThePattern ==
  [][Configure => \A fill \in Pattern, size \in DataSize :
                   FillRepeatsThePattern(fill, size)]_vars

\* "It takes around 90 seconds to distribute all files" (sms-main.cc:81): no
\* node waits longer than that to advertise its files.
AdvertisementInTime ==
  \A e \in events : e.what = "send" => e.at <= now + 90000 * TicksPerMs
=============================================================================
