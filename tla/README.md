# Opportunistic file exchange: a TLA+ verification

This directory models, checks and proves properties of the ns-3 program in
`src/`: mobile nodes that roam over a field, each holding some files of a
common catalogue, and that hand each other the files they miss over an ad-hoc
wifi broadcast. Line numbers below are those of `src/sms-echo-client.cc` unless
another file is named.

## 1. The system

### One exchange

    A  Send()            advertisement: ids of the files A holds in full
    B  HandleRead        notes A as their holder, picks one it misses,
                         arms request_packet() and its own Send()
    B  request_packet()  request: A, file, first chunk B misses
    A  HandleRead        arms reply() with delay 0, and its own Send()
    A  reply()           reply: B, file, chunk
    *  HandleRead        everyone who hears it keeps the chunk;
                         B arms its next request with delay 0

All packets are broadcast. Each packet a node hears, also one addressed to
another node, cancels all three timers of the node and arms the next
advertisement. There are no acknowledgements, retries or sequence numbers.

### Components

| Component | State | Operations | Interacts through | What makes it correct |
|---|---|---|---|---|
| Chunk record, `FileSMSChunks` (45-116, header 36-53) | bitmap `chunks`, `num_of_received_chunks`, `nodes_who_have_file`, sizes | constructor, `is_full`, `get_first_missing_chunk`, `get_size_of_chunk`, `add_node_to_seen_list` | fields of `SmsEchoClient::files`, copied by value into pending requests | the counter agrees with the bitmap, a full file has all its bytes, the first missing chunk exists |
| Exchange protocol, `SmsEchoClient` (118-176, 214-334, 546-580, 630-765) | `files`, `seen_nodes`, `maximum_full_files_seen`, three `EventId`s | `Send`, `request_packet`, `reply`, `HandleRead` with three kinds of packet, `add_new_chunk` | packets on the radio, the ns-3 scheduler | nodes ask only whoever can answer, `abort()` is unreachable, every file reaches every node |
| Choice of a file, `getFileToRequest` (178-212) | none of its own | fewest missing chunks, then least popular among the nodes seen | reads `files` and `seen_nodes` | returns a file the sender has, and one whenever there is one |
| Timers (388-435, 582-628) | `EventId`s, `std::rand` | `StartApplication`, `StopApplication`, `get_time_*`, `cancel_all_events` | scheduler callbacks | no handle loses its event; a request is not overtaken by the advertisement that was armed with it; no callback meets a null socket |
| Advertisement coding (214-281) | none | `EncodeFilesForAdv`, `DecodeFilesForAdv` | packet bytes, 8 and 16 bit fields | what is decoded is what was full |
| Packet buffer (438-537) | `m_data`, `m_dataSize`, `m_size` | `SetFill`, `SetDataSize` | `Send` | buffer and sizes agree, every fill repeats its pattern, no byte is decoded that was not written |
| Initial files (`sms-helpers.cc` 110-141; `SetFiles` 320-334) | none | `getInitialFileList` | called by `main` | distinct ids, at least one per node |
| Radio and mobility (`sms-helpers.cc` 45-102) | ns-3's | `installWifi`, `installMobility` | broadcast to whoever is in range | external |
| Driver (`sms-main.cc`) | `file_set`, counters | `main` | installs, starts and stops the nodes, counts files at the end | it returns, starts every node with what it counted, and the counts are right |
| Application helper (`sms-echo-helper.cc`) | an `ObjectFactory` | `Install`, `SetAttribute` | glue; tests may call its `SetFill` | - |

### What is hard

Simulated nodes run one event at a time, so there are no data races, but their
events interleave, and these are the difficulties (each is at its line in
`PROJECT.json`, with the properties that watch it):

- *stale state*: a pending request owns a **copy** of the file record (696); a
  node is noted as holder from a packet that was built and queued much earlier;
- *interleaving*: any packet cancels whatever the node was about to do (678),
  so an exchange can be cut off half way by a third node or by its own partner;
- *unreliable delivery*: one broadcast reaches some nodes and misses others;
- *blind trust*: a node that is asked checks neither that it has the chunk nor
  that the chunk exists (723), and aborts the whole simulation if it does not
  know the file (721);
- *running dry*: `Send()` does not arm the next `Send()` (576);
- *liveness*: two nodes that keep talking re-arm the timer of the third;
- *numeric edges*: the size of the last chunk (48), 8 and 16 bit fields (231,
  554), divisions by the number of nodes seen (200) and of full files (608),
  the loop that fills the buffer (523);
- *handles*: three `EventId`s are cancelled and overwritten by every handler
  (624-628), and `StopApplication` cancels only one of them (433);
- *uninitialised memory*: `maximum_full_files_seen` (332) feeds a delay;
- *an unbounded search*: `getInitialFileList` draws until it finds a new id.

## 2. Modules

| Module | What it is |
|---|---|
| `SmsEchoClient` | the exchange protocol: all nodes, their timers, the interface queues and the radio |
| `Dissemination` | the abstract specification of the exchange: who has which chunk, who knows whom as a holder |
| `MCSmsEchoClient` | values of the constants for TLC |
| `FileSMSChunks`, `MCFileSMSChunks` | sizes: how a file is cut into chunks, and what a collecting node has received in bytes |
| `FileVectors`, `MCFileVectors` | the vectors behind the sets of `SmsEchoClient`: records, the coding of advertisements, the loops of `getFileToRequest` |
| `SmsApplication`, `MCSmsApplication` | the life of one node: events with time, uid and handle, the delay formulas, start and stop |
| `EchoBuffer` | the packet buffer and the three overloads of `SetFill`; part of `SmsApplication` |
| `SmsMain` | `main`: drawing the files, the set-up, the run (any behaviour of `Dissemination`), the statistics |
| `SmsEchoClientProofs` | proofs: type correctness, the inductive invariant and the safety theorems of the exchange, and that it implements `Dissemination` |
| `SmsEchoClientRequests` | proofs: pending requests are fresh, without loss the exchange never runs dry, and the counters that are divided by or compared are right |
| `FileSMSChunksProofs` | proofs: the three properties of `FileSMSChunks` |
| `FileVectorsProofs` | proofs: vectors, fields and loops do what `SmsEchoClient` says of sets |
| `EchoBufferProofs` | lemmas: what `memcpy` and the copying loop of `SetFill` write |
| `SmsApplicationProofs` | proofs: handles, overtaking, null sockets, the delay of advertisements, the buffer and what is decoded |
| `SmsMainProofs` | proofs: what main starts and what it reports |
| `Loops` | lemmas about loops, in the form the provers can use: see section 4 |

How they fit: `Dissemination` is implemented by `SmsEchoClient` and run by
`SmsMain`, which shows that its initial states are the ones main produces.
`FileVectors` shows that the sets and the choices of `SmsEchoClient` are what
vectors, bytes and loops do; `SmsApplication` that what `SmsEchoClient` assumes
of timers (one pending event of each kind, zero delays first, the guard
`MayOvertakeRequest`) is what events, handles and delays do.

### SmsEchoClient: state

| Variable | Code |
|---|---|
| `files[n]` | ids of the records in the vector `files` of node n |
| `chunks[n][f]`, `received[n][f]`, `holders[n][f]` | `chunks`, `num_of_received_chunks`, `nodes_who_have_file` of n's record of f; empty for a file n does not know |
| `seen_nodes[n]`, `maximum_full_files_seen[n]` | the same fields |
| `sendEvent[n]`, `requestEvent[n]`, `replyEvent[n]` | is `m_sendEvent`, `m_requestEvent`, `m_replyEvent` pending, and with which arguments |
| `queue[n]` | packets given to the interface and not yet sent |
| `radio` | the frame that is arriving, and the nodes that have yet to receive it |
| `aborted` | some node has called `abort()` |

### SmsEchoClient: actions

| Action | Code |
|---|---|
| `Send(n)` | `Send` with `EncodeFilesForAdv`: what is full *when the timer expires* is advertised |
| `RequestPacket(n)`, `Reply(n)` | `request_packet`, `reply` |
| `HandleAdvertisement`, `HandleRequest`, `HandleReply` | the three branches of `HandleRead`, each as one step with everything it calls: `addNodeToSeenList`, `DecodeFilesForAdv`, `add_new_chunk`, `getFileToRequest`, `cancel_all_events`, `Simulator::Schedule` |
| `Transmit(s, R)` | the radio: the first packet of s reaches exactly the nodes in R |

Time is abstracted to what decides the order of steps:

- an event with delay 0 (`reply`, and the request after a reply) runs before
  anything that needs time to pass (`InstantDone`, `TimePasses`);
- a frame takes under a microsecond to reach nodes within 25 m, all delays of
  timers are milliseconds, and one frame occupies the channel at a time: no
  timer expires and no other frame starts between the first and the last
  reception of one frame;
- timers of different nodes, and the radio, are otherwise free;
- of one node's timers, `Send` and `request_packet` may be armed by the same
  handler. The advertisement is due after
  `maximum_full_files_seen + 10 + 50/full + [0, 15]` ms, the request after
  `full + 1 + [0, 10]` ms, so `Send` may come first only if the shortest of the
  former is below the longest of the latter (`MayOvertakeRequest`, in integers
  by multiplying with `full`). `full <= maximum_full_files_seen` always holds
  (`MaximumCoversOwnFiles`), so in the code overtaking needs more than 50 full
  files. The 50 is the constant `Multiplier`. `two_nodes` lowers it to 0, so that a
  node with one full file may overtake its request: with two files a node that
  waits to ask has one full file, and one is not enough for any larger value.
  `application` lowers it to 1 and has two full files. The other runs keep 50, and
  in them no advertisement overtakes; the proofs hold for every value.

Two more abstractions. The order of the vector `files` only breaks ties in
`getFileToRequest`; the model picks any of the best files. Two nodes at exactly
the same distance from the sender receive at the same instant, and the zero
delay event of the first then runs after the reception of the second; the model
runs it before. The two steps are of different nodes and touch different state,
so the order shows only in which of two queues is filled first.

A node whose position changes, fading and collisions all come down to the set
`R` of nodes that a frame reaches. `Unreliable` names the nodes at which frames
may be lost; it is a constant so that a run can keep one node reliable, and the
proofs hold for every value of it, `Node` included.

### The abstract specification

`Dissemination` has two actions: a node learns that another has some files, all
of which that node really has in full; or it obtains one chunk it misses from a
node that has the whole file, and notes that node as a holder. Nothing is lost.
Under the mapping `held <- chunks`, `known <- holders` an advertisement that is
heard is a `Learn`, a reply with a new chunk an `Obtain`, and everything else a
stuttering step. This says that no schedule, loss, overhearing or delay gives a
node a false idea of who has a file, or a chunk from someone who does not have
the file in full.

### FileSMSChunks

One node collects one file of `size` KB; chunks arrive as replies to its own
requests (always for the first missing chunk) or are overheard in any order.
`bytes` counts the chunk data of the replies it kept, as given by
`get_size_of_chunk`. `SmsEchoClient` treats chunks as ids and needs no sizes,
so this arithmetic is kept apart.

### FileVectors

`files[n]` is the vector, with records as in the code: id, size, bitmap,
counter and list of holders. `EncodeFilesForAdv` and `DecodeFilesForAdv` work
on the fields of the packet, cut to `FieldWidth` and `CountWidth`;
each loop of the code is a recursive function that gives its variable after k
rounds (`FullAmong`, `CollectedAfter`, `LowestAfter`), the last with the dummy
record `NoFile` (size 0, full) as its start. Packets are heard as soon as they
are sent, since delays and loss are the subject of `SmsEchoClient`.
`HandlersAgree` is the refinement: under the mapping from vectors to sets,
every change is one that a handler of `SmsEchoClient` makes.

### SmsApplication and EchoBuffer

| Variable | Code |
|---|---|
| `now`, `events`, `next_uid` | the ns-3 scheduler: events run by time, and those of one time by uid |
| `handle[w]` | the uids that `m_sendEvent`, `m_requestEvent`, `m_replyEvent` name, also of events that have run |
| `open` | both sockets exist |
| `files`, `full`, `maximum_full_files_seen` | the numbers the delays and the packet depend on |
| `status` | running, ended, destroyed, or where it crashed: in which callback a null socket was used, or in the assertion of `Send` (551) |
| `m_data`, `m_dataSize`, `m_size` | the buffer; `Junk` is a byte that was never written |

A packet may be heard at any time between two events and changes the counts in
any way a packet of its kind can. Each handler cancels what the handles name
and arms in the order of the code, so that events of equal times run in the
order of their uids. A tick is 1/`TicksPerMs` ms, and 50/full is rounded down.
`Simulator::Stop` is called before the nodes are initialised and so has a
smaller uid than the stop of an application: with main's equal times the
simulation ends first and `StopApplication` never runs. Nothing hangs on that
order: no timer can run between two events of one time, in either order.

The attributes `MaxPackets` and `Interval` that main sets are never read
(`m_count`, `m_interval` appear only in comments and in `GetTypeId`). The
comments at 582-593 and 604 give other delay formulas than the code; the model
has the code's.

### SmsMain

The loops of main over the nodes are actions, one round per step (and one step
per id that is drawn); `NextPart` is the end of a loop. A drawn id that the list
already holds is a stuttering step, and fairness says that a new one is drawn at
some time: the Zipf distribution gives every id a positive chance.

`Run` takes the steps of `Dissemination`, which every behaviour of
`SmsEchoClient` implements, up to any moment: `Stop` is the event of
`Simulator::Stop`. `Dissemination` speaks of files and not of records, but main
counts records. `records[n][f]` is how many of file f are in the vector of node
n: `SetFiles` makes one of each *entry* of the node's list, so a list with a file
twice would give two, and the run appends one when a node without any hears of
the file (`AppendRecords`; that each node searches its vector first is the
subject of `FileVectors`). `CountFullFiles` counts the full records of one node.

## 3. Runs

| Run | Instance | Checks |
|---|---|---|
| `two_nodes` | 2 nodes, every distribution of 2 files of 2 chunks, any loss, overtaking possible | `TypeOK`, `CounterMatchesBitmap`, `HoldersHaveFile`, `MaximumCoversOwnFiles`, `FullFilesAreKept`, `ImplementsDissemination` |
| `three_nodes` | 3 nodes, n1 the only source of f1, loss at n2 and n3, the code's delays (no overtaking) | `ExchangesAreServable`, `NeverAborts`, `RequestsAreFresh`, `CounterMatchesBitmap`, `AsksWheneverItCan` |
| `reliable_two` | 2 nodes, every distribution, no loss, weak fairness | `EventuallyDisseminated`, `RequestsAreAnswered` |
| `reliable_three` | 3 nodes, a file of 2 chunks and one of 1, no loss | `NeverSilent`, `RequestsAreFresh`, `ImplementsDissemination` |
| `jitter_three` | 3 nodes, 2 files of 1 chunk, no loss, strong fairness of timers | `EventuallyDisseminated` |
| `silent_after_loss` | 2 nodes, any loss | `NeverSilent` is **violated** (finding 1) |
| `chunk_sizes` | files of 1 to 15 KB, the first five chunks may be overheard | `TypeOK`, `RequestNamesAChunk`, `FullFileIsComplete` |
| `whole_chunks` | a file of 29 KB | `FullFileIsComplete` is **violated** (finding 2) |
| `file_vectors` | 3 nodes, n1 collects 2 files from two nodes that have all 3; ids and count reach the last value their fields hold | `NothingIsListedTwice`, `RecordsFitTheirFile`, `ChoiceIsAllowed`, `HandlersAgree` |
| `application` | one node with 2 full files, 3 packets at any of several times, both kinds of stop, 2 fills before the start | `TypeOK`, `HandlesNameEvents`, `OvertakesOnlyIfAllowed`, `CrashOnlyIfStoppedEarly`, `BufferIsExact`, `DecodedBytesAreWritten`, `FillsRepeatThePattern` |
| `uninitialised` | the counter may hold 200000 | `AdvertisementInTime` is **violated** (finding 3) |
| `main_driver` | 2 nodes, 3 files of 2 chunks, lists of up to all 3 | `TypeOK`, `UniqueFilesKept`, `TotalsConsistent`, `StartsTheExchange`, `MainReturns` |

What the safety properties say:

- `CounterMatchesBitmap`: `is_full()` reads a counter; the bitmap is kept
  separately. They agree, although a chunk may arrive any number of times. In
  `two_nodes` one asks twice while the first request is still queued; in
  `three_nodes` replies to others are overheard, also for a file the node did
  not know (146-152).
- `HoldersHaveFile`: whoever is in `nodes_who_have_file` has the whole file.
- `ExchangesAreServable`: every request that is pending, queued or arriving is
  for a chunk its receiver has, every reply is of a chunk its sender has, every
  advertisement lists only full files. This is what makes the missing checks of
  `HandleRead` harmless. `NeverAborts` follows.
- `RequestsAreFresh`: the chunk that a pending request will name, taken from a
  copy of the record, is still the first missing one when the timer expires.
- `AsksWheneverItCan`: a node that hears an advertisement, or the answer to its
  own request, has a request to the sender pending afterwards if it knows the
  sender to hold a file it has not finished. Were the sender not noted in
  `seen_nodes` first, the popularity in `getFileToRequest` would divide by zero,
  every file would be infinitely popular and none be asked for.
- `RequestsAreAnswered`: whenever a request is on the air its reply is later on
  the air, also if the requester has got the chunk meanwhile. It does not follow
  from dissemination: a request may be repeated before the first is answered.
- `MaximumCoversOwnFiles`: the counter that delays advertisements is never
  behind the node's own full files, not even when the last chunk of a file
  comes by an overheard reply. On both depend the delays of the two timers.
- `NeverSilent`: without loss some timer is armed or some packet is under way.
- `FullFilesAreKept`: a node never loses a file it has in full, and as it starts
  with one, the delay (608) never divides by zero.
- `NothingIsListedTwice`: one record per file and one entry per node, whichever
  packets announced them; searches stop at the first match, popularity counts
  entries.
- `RecordsFitTheirFile`: a record has its file's size, whether an advertisement
  with 16 bits or a reply with 32 made it. It rests on the assumption that ids
  and sizes keep within 16 bits (and `HandlersAgree` also on fewer full files than
  a byte counts), which the code does not check; main's do. What happens beyond
  these widths is therefore not covered by any property.
- `ChoiceIsAllowed`: the loops of `getFileToRequest` return one of the files
  that `SmsEchoClient` allows, and the dummy exactly if there is none.
- `HandlesNameEvents`: each pending timer is the one its handle names, so
  `cancel_all_events` reaches it, and the assertion of `Send` holds.
- `OvertakesOnlyIfAllowed`: the delay formulas imply the guard that
  `SmsEchoClient` has in place of time: the model allows every overtaking the
  code has. It may allow more, which is sound for safety.
- `CrashOnlyIfStoppedEarly`: a null socket is used only by a request that waits
  while its application is stopped before the end of the simulation; by no
  advertisement and no reply, and never with the times of main.
- `BufferIsExact`, `FillsRepeatThePattern`: after any sequence of fills and
  resizes the buffer has its size and is the pattern repeated.
- `DecodedBytesAreWritten`: an advertisement has room for all records and only
  those of full files are written; what the count in its header covers is.
- `UniqueFilesKept`, `TotalsConsistent`: what main prints at the beginning and
  at the end fits together: no copy of the beginning is missing, and no node is
  credited with a file twice, which it would be if its list had one twice.
  `StartsTheExchange`: the set-up ends in an initial
  state of `Dissemination`. `MainReturns`: the drawing loop ends and so does main.

Every property of a passing run has a mutant in its module (definitions marked
`Mutant:`): a plausible bug in the code it maps to, under which TLC finds the
property violated. They are listed in `PROJECT.json`.

### Bounds

- `MaxFrames` packets may be queued at a node before its *timers* wait; the
  zero-delay answers never do. It cuts the runs in which the radio is starved
  while a node goes on queueing; with 1 or 2 queued packets per node, packets
  still get stale before they are sent, which is the case that matters.
- Two chunks make a file that is neither empty nor full; three nodes are the
  fewest with a bystander, or with a third node that cancels timers. Two files
  give `getFileToRequest` a choice. Where three nodes have files of one chunk,
  the state space with longer files is beyond the time of a run; the proofs
  below cover every size.
- `Leftover = {0}`: the uninitialised value only feeds a delay. The proofs take
  any set of naturals.
- `Distributions`: all of them with two nodes; with three, one node alone has
  one of the files, so that the file must travel and be passed on.
- Sizes of 1 to 15 KB give 1 to 11 chunks.
- `file_vectors`: fields of 2 bits (`FieldWidth`, `CountWidth` = 4), so that three
  files bring ids and counts to the last value that fits. Files of one and two
  chunks give the choice by missing chunks and the tie by popularity.
- `application`: three packets (`MaxHeard`) are enough for a handler to cancel
  what an earlier one armed before and after each of its timers ran;
  `Multiplier` = 1 lets an advertisement overtake with two files; the random
  parts take their extremes, `Gaps` a short and a long pause; 6 ticks to the
  millisecond make the division by up to 3 files exact. Two fills (`MaxFills`)
  of patterns shorter and longer than the buffer, with and without reallocation.
  The proofs cover all values.
- `main_driver`: as many ids to draw as there are, the case in which the search
  for a new one is hardest. With two nodes lists overlap, are disjoint or equal.

Deadlock is not checked where frames may be lost, since the exchange really
stops there (finding 1), nor for a chunk record, which is done when it is full.
In the runs without loss it is checked, as it is for `main_driver`, where only
`Returned` stutters. A node of `application` is done when it is destroyed.

### Fairness

- `ReliableSpec`: an armed timer expires, a queued packet is sent, a frame is
  received: weak fairness, since ns-3 runs every event that is not cancelled.
- With three nodes that is not enough: two of them may keep exchanging packets,
  each of which re-arms the third's timer. Under weak fairness alone TLC shows
  a schedule in which the third never advertises. The code counts on chance
  here: every armed delay has a fresh random part (606, 614), so of two timers
  that are armed again and again by the same packets each comes first at some
  time, **if the ranges of their delays overlap**. `JitterSpec` states that as
  strong fairness of `Send`, `RequestPacket` and of the radio (whose contention
  has a random back-off). Zero-delay events and receptions need only weak
  fairness.

  The ranges overlap in `jitter_three`. Requests of nodes with one and two full
  files are due after 2 to 12 and 3 to 13 ms, before any advertisement.
  Advertisements of nodes with equal counts have equal ranges; with different
  counts they do not overlap, since 50/1 and 50/2 differ by more than the 15 ms
  of jitter. But there a node with one full file is behind only while another
  with two is about to advertise, hears it, and then asks: it need not win. Once
  all have both files all counts are equal. For more files this is no general
  argument, and the strong fairness is claimed for this instance only: a node
  with few full files may be held back by nodes with many for as long as these
  keep advertising.

- `SmsMain`: each statement of main is weakly fair, since nothing else runs; the
  draws as a whole, not one id; and the stop, since simulated time goes on.

No fairness makes up for loss: see finding 1.

## 4. Proofs

The theorems about the exchange hold for every finite set of at least two nodes, at most 255
files, any positive numbers of chunks, any initial distribution of non-empty
sets of files, any `Unreliable`, `Multiplier`, `Leftover` and `MaxFrames`.

| Theorem | States |
|---|---|
| `TypeCorrect` | `Spec => []TypeOK`, of `SmsEchoClient`, `FileSMSChunks`, `SmsApplication` and `SmsMain`, each in its own proof module |
| `InvAlways` | the inductive invariant `Inv` |
| `CountersAreRight`, `HoldersAreRight`, `RequestsAreServable`, `NoAbort` | the conjuncts of `Inv` that the runs check |
| `Implements` | `Spec => ImplementsDissemination` |
| `PendingRequestsAreFresh` | `Spec => []RequestsAreFresh` |
| `ReliableIsNeverSilent` | `ReliableSpec => []NeverSilent` |
| `RequestsNameChunks` | `get_first_missing_chunk` ends at a chunk of a file that is not full |
| `FullFilesAreComplete` | a full file has all its bytes, **if no size is a multiple of 29 KB** |
| `FullFilesStay` | `Spec => FullFilesAreKept` |
| `MaximumIsNeverBehind` | `Spec => []MaximumCoversOwnFiles` |
| `NodesAskWheneverTheyCan` | `Spec => AsksWheneverItCan` |
| `HandlesAreNeverLost` | `Spec => []HandlesNameEvents`, of `SmsApplication` |
| `AdvertisementsOvertakeOnlyIfAllowed` | `Spec => OvertakesOnlyIfAllowed` |
| `CrashesTakeAnEarlyStop` | `Spec => []CrashOnlyIfStoppedEarly` |
| `BuffersAreExact` | `Spec => []BufferIsExact` |
| `PatternsAreRepeated` | `Spec => FillsRepeatThePattern` |
| `InitialisedNodesAdvertiseInTime` | `Spec => []AdvertisementInTime`, **if the counts, the uninitialised one included, are small** (at most 89925 for `Multiplier` 50) |
| `NoJunkIsDecoded` | `Spec => []DecodedBytesAreWritten` |
| `NoFileIsLost` | `Spec => []UniqueFilesKept`, of `SmsMain` |
| `MainStartsTheExchange` | `Spec => StartsTheExchange` |
| `TotalsFitTogether` | `Spec => []TotalsConsistent` |
| `ListsHaveNoDuplicates` | `Spec => []NothingIsListedTwice`, of `FileVectors` |
| `RecordsAreRight` | `Spec => []RecordsFitTheirFile` |
| `ChoiceIsRight` | `Spec => []ChoiceIsAllowed` |
| `VectorsImplementSets` | `Spec => HandlersAgree`: each step maps to one of `SmsEchoClient` |
| `InitialVectorsAgree` | initial vectors map to initial sets of `SmsEchoClient` |

The safety properties of the exchange are not inductive one by one, which is
why `Inv` is their conjunction:

- that a node only asks a node that can answer (`ExchangesAreServable`) needs
  that the holders it chooses from have the file (`HoldersHaveFile`);
- that needs that what an advertisement on the air lists is still full when it
  is heard (again `ExchangesAreServable`), that a reply came from a holder, and
  that a full file stays full;
- a full file stays full because a full bitmap takes no new chunk
  (`FullMeansAllChunks`), which needs the counter to agree with the bitmap
  (`CounterMatchesBitmap`); that in turn needs replies to name existing chunks;
- `NoSelfReception` (UDP does not loop a broadcast back) keeps a node from
  noting itself as a holder in the refinement;
- `NeverAborts`: a node that is asked has the file in full, so it knows it.

`ServableStep` is the central lemma: if full files stay full and a step adds
only servable events and packets, all exchanges stay servable. Each handler
then has one lemma that shows it keeps `Inv`. The refinement adds to `Inv` only
the mapping of `HandleAdvertisement` to `Learn` and of `HandleReply` to
`Obtain`. Freshness of requests holds because the bitmap of a node changes only
in `HandleReply` of that node, which cancels its request first. `NeverSilent`
is carried by `Send`: it arms nothing, but puts a packet on the air, and
whoever hears a packet has its advertisement armed afterwards.

For `FullFilesAreComplete`, 1000 KB x kb is a multiple of 1450 exactly when 29
divides kb. `main` uses files of 1000 KB, which 29 does not divide.

`MaximumIsNeverBehind` needs that a file without a record is not full, since
`SetFiles` and `add_new_chunk` take the maximum over records.
`NodesAskWheneverTheyCan` has two parts. The two loops of `getFileToRequest` leave
a file if the first collects any and `seen_nodes` is not empty
(`ThereIsAFileToRequest`): among finitely many files one has the fewest missing
chunks, and of these one is least popular. And `seen_nodes` is not empty: whoever
is asked, and whoever answers, was first heard advertising
(`RequesterHasSeenHolder`, an invariant of its own), and nodes seen are never
forgotten.

The theorems of `SmsApplication` hold for any delays, gaps, numbers of files,
times with start < stop <= end, and (but for `InitialisedNodesAdvertiseInTime`)
any values the uninitialised counter may hold. The inductive invariant
`TimerInv` says that uids are unique and smaller than the next, that there are no timers before the start, that the handles name
the timers, and (`ArmedTogether`) that an advertisement pending beside a request
was armed at one time t with a later uid and with the counts of *now*: every
handler that changes them rearms both. The two due times then compare as the
delays do, and `EarlierMeansFewerSeen` turns that into the guard. `LifeInv` adds
what the order of uids gives: the end is pending under a uid no handle has, a
reply runs at the time it was armed and so before a later stop, and whoever is
closed while the simulation runs has not started, or was stopped before the end
and has neither an advertisement nor a reply pending.

`InitialisedNodesAdvertiseInTime` takes a limit that all counts respect. `WaitInv`
says that no pending event is overdue, that `full` and `maximum_full_files_seen`
respect the limit, and that a pending advertisement is at most (limit +
`Multiplier` + 25) ms away, which is what the delay formula can give
(`AdvertisementDelayIsBounded`). TLC found `WaitInv` to hold in all states of
`application`, with the limit 9. The count in a packet is a byte and `main`
distributes far fewer files than 89925, so finding 3 is due to the uninitialised
memory alone.

The theorems of `SmsMain` hold for any numbers of nodes, files and chunks with
at most as many files per node as there are. `MainInv` follows the phases: a
list never names a file twice, so its length bounds what it holds and it is a
legal share; in the set-up the nodes below the loop variable have exactly their
lists; in the run every node keeps what it drew and nobody has a chunk of a file
that nobody drew.

What main prints at the end is a count of records. `RecordsInv` says that no list
has a file twice, which `std::find` in the drawing loop sees to, hence that
`SetFiles` makes at most one record of a file, that the run appends one only where
there is none, and that whatever a node has it has in a record. With it
`CountFullFilesCounts` shows that each round of the last loop adds as many as
node i has full files, so that main has counted the pairs of a node and a full
file of the nodes it has been at (`CountInv`). The total of the beginning is the
number of pairs of a node and a file in its stored list (`TotalInv`). In the run
every such pair stays full, and the full pairs of the end lie within the nodes
times the files drawn: from this follow `NoFileIsLost` and `TotalsFitTogether`.

The buffer is its own part of `SmsApplication`. `DataInv` says that the buffer
is null with size 0 or exactly as long as `m_dataSize` says (`BufferInv`), that the
counts from which packets are made are numbers (`CountsOK`), and that what the
header of a packet counts is written (`DecodedBytesAreWritten`).
`EchoBufferProofs` shows what the fills write: after k rounds of the loop the
first k copies of the pattern are in place (`AfterRoundsIsRepeated`), the loop
ends with no more than one pattern to go, and the last copy completes the buffer
(`FillIsRepeated`), for patterns and buffers of any length.

### Loops

The induction theorems of the library take operators, which the provers cannot
use. `Loops` states induction for sets: a set that holds 0 and with k also k + 1,
up to n, holds all of 0 .. n (`LoopInduction`, from the least element of a set of
naturals). For a loop the set is that of the rounds after which its variable is
right. `LoopHasStates` shows, by the same induction, that a recursive function
over the rounds has a value, without which nothing follows from its definition.
The loops of `EchoBuffer` and `FileVectors` are such functions, and what they
compute is proved for all lengths: that of `SetFill`, the two over an advertisement
(`EncodeFilesEffect`, `DecodeFilesEffect`) and the two of `getFileToRequest`
(`CollectedAreFewest`, `LowestIsLeastPopular`).

### Vectors and sets

The theorems of `FileVectors` hold for every set of nodes and every catalogue
whose ids and sizes fit into a field of an advertisement and whose number fits
into its count (`FieldAssumption`, `CountAssumption`), and for initial lists
without duplicates, which `getInitialFileList` gives (`ListsAssumption`;
`SmsMain` has the loop that does). The inductive invariant `VecInv` says that a
vector holds records of the catalogue's files, each with its file's size and
bitmap and with a list of holders without duplicates, and no two of one file;
that `seen_nodes` has no duplicates; and that the maximum covers the node's own
full files. The first makes `getFileById` find *the* record of a file, so that a
vector is a function from ids to records (`Known`, `PutType`); the last is what
lets an advertisement leave its sender's maximum unchanged, as `HandlersAgree`
says. `HearAdvertisementEffect` and `HearReplyEffect` state each action in terms
of `Known`, and from these follow both the invariant and the agreement with the
handlers of `SmsEchoClient`. `ChoiceIsRight` rests on the two loop lemmas and on
lists without duplicates, since popularity counts entries and `SmsEchoClient`
counts nodes. TLC found `VecInv` to hold in all states of `file_vectors` before
it was proved.

Only model-checked: the liveness properties (`EventuallyDisseminated`,
`RequestsAreAnswered`, `MainReturns`), which are out of the prover's reach, as is
whatever needs fairness or ENABLED. Every invariant and every action property of
the passing runs is a theorem.

## 5. Findings

1. **The exchange can stop for good** (`silent_after_loss`). `Send()` used to
   re-arm itself; the call is commented out (576-579), so a node's timer is
   armed only when it hears something. If the last frame under way is lost, all
   timers have expired and no node ever transmits again, with unfinished files
   and all nodes in range. The comment at 692 assumes that nodes go on
   advertising for ever, and `sms-main.cc:81` that all files are distributed
   after some 90 seconds.
2. **Files of a whole number of chunks lose their last chunk** (`whole_chunks`).
   `size_of_last_chunk = (1000*size) % CHUNK_SIZE` is 0 when 1450 divides the
   size, that is for sizes divisible by 29 KB; the last reply carries no data
   and the file is still counted as full. `sms-helpers.h:61` says that files may
   have different sizes.
3. **An uninitialised counter delays advertisements** (`uninitialised`). The
   constructor (341-352) does not set `maximum_full_files_seen`, `SetFiles` takes
   the maximum of it and the number of files (332), and each unit of it adds a
   millisecond to every advertisement after the first (599). Memory that is not
   zero can silence a node for the whole run. Safety does not depend on it: the
   other theorems hold for every value. Without it no advertisement is late
   (`InitialisedNodesAdvertiseInTime`).

Everything else that was checked holds. Two things that a reader might expect to
fail do not, for reasons that lie elsewhere: the null sockets after
`StopApplication` are never used because the simulation ends when the
applications are stopped, and the unwritten end of an advertisement is never
decoded because the count in its header is that of the full files.

## 6. Not modelled

- ns-3 itself: positions, rates, contention and the size of the interface queue
  (a full queue drops packets, which is covered by a `Transmit` to nobody).
  `installWifi` and `installMobility` only set its parameters.
- Ids and sizes of more than 16 bits and catalogues of more than 255 files: the
  fields of an advertisement are modelled, and the assumptions of `FileVectors`
  and `SmsEchoClient` keep within them, as main's 100 files of 1000 KB do.
- Packets of an unknown type (758-763) and truncated packets: no sender in the
  repository makes them.
- The weights of the Zipf distribution, and the distributions of the delays:
  both are choices over their range.
- `SetFill` with an empty pattern, which does not return (522), and the record at
  index -1 that `add_new_chunk` reads when logging is turned up (163).
- The warning of `get_time_request` (617), which compares with a fresh random
  delay; logging, `results.txt` beyond its totals, and pcap output.
- The attribute system, `GetTypeId`, the look-up of nodes by name in the helper,
  and the build scripts.

## 7. What could follow

- A composition of `SmsApplication` for several nodes over one radio, with time:
  it would replace the strong fairness of `JitterSpec` by the delays themselves.
  The state space is beyond TLC with three nodes, and a proof needs a bound on
  the delays of the radio, which is not in the repository.
- One specification of `SmsEchoClient` over vectors: `FileVectors` with the timers
  and the radio, implementing `SmsEchoClient` in one step instead of sharing its
  handlers.
