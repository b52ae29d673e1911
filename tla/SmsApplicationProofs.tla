------------------------ MODULE SmsApplicationProofs ------------------------
(***************************************************************************)
(* The timers of one node, for every delay, every gap between packets and  *)
(* every number of files: no handle loses its event, an advertisement      *)
(* overtakes a request only where SmsEchoClient.tla lets it, and what a    *)
(* null socket takes; and of its packet buffer, for every length of the     *)
(* patterns and every number of files, what the fills leave in it.         *)
(***************************************************************************)
EXTENDS SmsApplication, EchoBufferProofs, TLAPS

\* The part of the type invariant that is about events, handles and counts.
EventsOK ==
  /\ now \in Nat
  /\ events \subseteq Event
  /\ next_uid \in Nat \ {0}
  /\ handle \in [Timer -> Nat]
  /\ full \in Nat \ {0}
  /\ maximum_full_files_seen \in Nat

\* A uid names one event, and those to come are larger.
UidsAreUnique ==
  /\ \A e \in events : e.uid < next_uid
  /\ \A d, e \in events : d.uid = e.uid => d = e

\* Of one kind of timer there is one event at most, the one its handle names.
OneEventPerTimer == \A e \in events : e.what \in Timer => e.uid = handle[e.what]

\* Until the application starts it has no timers and no socket.
NothingBeforeStart ==
  \A e \in events : e.what = "start" =>
    /\ e.uid = 2 /\ e.at = StartTime
    /\ ~open
    /\ \A d \in events : d.what \notin Timer

\* d and e may have been armed at time t by one handler.
ArmedAt(t, d, e) ==
  /\ d.uid > e.uid
  /\ \E p \in SendJitter :
       d.at = t + AdvertisementDelay(FALSE, full, maximum_full_files_seen, p)
  /\ e.at <= t + RequestDelay(full, 10 * TicksPerMs)

\* The advertisement of a node with a pending request was armed with it.
ArmedTogether ==
  \A d, e \in events :
    d.what = "send" /\ e.what = "request" => \E t \in Nat : ArmedAt(t, d, e)

TimerInv ==
  /\ EventsOK
  /\ UidsAreUnique
  /\ OneEventPerTimer
  /\ NothingBeforeStart
  /\ ArmedTogether
  /\ status # "assertion"

-----------------------------------------------------------------------------
(* Facts about delays and about Schedule.                                  *)

LEMMA LargerIsNat ==
  ASSUME NEW a \in Nat, NEW b \in Nat
  PROVE  Larger(a, b) \in Nat
BY DEF Larger

LEMMA DivIsNat ==
  ASSUME NEW a \in Nat, NEW b \in Nat \ {0}
  PROVE  a \div b \in Nat
BY SMT

LEMMA DivBound ==
  ASSUME NEW a \in Nat, NEW b \in Nat \ {0}, NEW c \in Int, a \div b < c
  PROVE  a < b * c
BY SMT

LEMMA ProductIsNat ==
  ASSUME NEW a \in Nat, NEW b \in Nat
  PROVE  a * b \in Nat
OBVIOUS

LEMMA SumIsNat ==
  ASSUME NEW a \in Nat, NEW b \in Nat
  PROVE  a + b \in Nat
OBVIOUS

LEMMA SumWithZero ==
  ASSUME NEW a \in Nat
  PROVE  a + 0 = a
OBVIOUS

LEMMA LessAfterSum ==
  ASSUME NEW t \in Nat, NEW a \in Nat, NEW b \in Nat, NEW c \in Nat,
         t + a < c, c <= t + b
  PROVE  a < b
OBVIOUS

LEMMA NextProductIsNat ==
  ASSUME NEW a \in Nat \ {0}, NEW b \in Nat
  PROVE  (a + 1) * b \in Nat
<1>1. a + 1 \in Nat
  OBVIOUS
<1> QED BY <1>1, ProductIsNat

LEMMA RequestDelayIsNat ==
  ASSUME NEW own \in Nat \ {0}, NEW q \in 0 .. 10 * TicksPerMs
  PROVE  /\ RequestDelay(own, q) \in Nat
         /\ RequestDelay(own, 10 * TicksPerMs) \in Nat
         /\ RequestDelay(own, q) <= RequestDelay(own, 10 * TicksPerMs)
<1>1. TicksPerMs \in Nat /\ q \in Nat /\ q <= 10 * TicksPerMs
  BY DelaysAssumption
<1>2. (own + 1) * TicksPerMs \in Nat
  BY <1>1, NextProductIsNat
<1> QED BY <1>1, <1>2 DEF RequestDelay

LEMMA LongestRequestDelayIsNat ==
  ASSUME NEW own \in Nat \ {0}
  PROVE  RequestDelay(own, 10 * TicksPerMs) \in Nat
<1>1. 0 \in 0 .. 10 * TicksPerMs
  BY DelaysAssumption
<1> QED BY <1>1, RequestDelayIsNat

LEMMA AdvertisementDelayIsNat ==
  ASSUME NEW own \in Nat \ {0}, NEW seen \in Nat, NEW p \in SendJitter,
         NEW start \in BOOLEAN
  PROVE  AdvertisementDelay(start, own, seen, p) \in Nat
<1>1. TicksPerMs \in Nat /\ Multiplier \in Nat /\ p \in Nat
  BY DelaysAssumption
<1>2. Multiplier * TicksPerMs \in Nat /\ (seen + 10) * TicksPerMs \in Nat
  BY <1>1, ProductIsNat
<1>3. (Multiplier * TicksPerMs) \div own \in Nat
  BY <1>2, DivIsNat
<1> QED BY <1>1, <1>2, <1>3 DEF AdvertisementDelay

LEMMA ScheduleSend ==
  ASSUME NEW rest, NEW delay, EventsOK,
         Schedule(rest, <<[what |-> "send", delay |-> delay]>>)
  PROVE  /\ events' = rest \cup {[uid |-> next_uid, what |-> "send",
                                   at |-> now' + delay]}
         /\ next_uid' = next_uid + 1
         /\ handle' = [handle EXCEPT !["send"] = next_uid]
<1> DEFINE calls == <<[what |-> "send", delay |-> delay]>>
<1>1. DOMAIN calls = {1} /\ Len(calls) = 1 /\ calls[1].what = "send"
      /\ calls[1].delay = delay
  OBVIOUS
<1>2. next_uid \in Nat /\ next_uid + 1 - 1 = next_uid /\ next_uid - 1 + 1 = next_uid
  BY DEF EventsOK
<1> HIDE DEF calls
<1>3. events' = rest \cup {[uid |-> next_uid, what |-> "send", at |-> now' + delay]}
  BY <1>1, <1>2 DEF Schedule, calls
<1>4. next_uid' = next_uid + 1
  BY <1>1 DEF Schedule, calls
<1>5. handle' = [w \in Timer |-> IF w = "send" THEN next_uid ELSE handle[w]]
  <2>1. ASSUME NEW w \in Timer
        PROVE  handle'[w] = IF w = "send" THEN next_uid ELSE handle[w]
    BY <1>1, <1>2 DEF Schedule, calls
  <2>2. handle' = [w \in Timer |-> handle'[w]]
    BY DEF Schedule
  <2> QED BY <2>1, <2>2
<1>6. handle = [w \in Timer |-> handle[w]]
  BY DEF EventsOK
<1> QED BY <1>3, <1>4, <1>5, <1>6

LEMMA ScheduleTwo ==
  ASSUME NEW rest, NEW what \in {"request", "reply"}, NEW first, NEW second,
         EventsOK,
         Schedule(rest, <<[what |-> what, delay |-> first],
                          [what |-> "send", delay |-> second]>>)
  PROVE  /\ events' = rest \cup
              {[uid |-> next_uid, what |-> what, at |-> now' + first],
               [uid |-> next_uid + 1, what |-> "send", at |-> now' + second]}
         /\ next_uid' = next_uid + 2
         /\ handle' = [handle EXCEPT ![what] = next_uid, !["send"] = next_uid + 1]
<1> DEFINE calls == <<[what |-> what, delay |-> first],
                      [what |-> "send", delay |-> second]>>
<1>1. /\ DOMAIN calls = {1, 2} /\ Len(calls) = 2
      /\ calls[1].what = what /\ calls[1].delay = first
      /\ calls[2].what = "send" /\ calls[2].delay = second
      /\ what # "send"
  OBVIOUS
<1>2. /\ next_uid \in Nat /\ next_uid + 1 - 1 = next_uid /\ next_uid - 1 + 1 = next_uid
      /\ next_uid + 2 - 1 = next_uid + 1 /\ next_uid - 1 + 2 = next_uid + 1
  BY DEF EventsOK
<1> HIDE DEF calls
<1>3. events' = rest \cup
              {[uid |-> next_uid, what |-> what, at |-> now' + first],
               [uid |-> next_uid + 1, what |-> "send", at |-> now' + second]}
  BY <1>1, <1>2 DEF Schedule, calls
<1>4. next_uid' = next_uid + 2
  BY <1>1 DEF Schedule, calls
<1>5. ASSUME NEW w \in Timer
      PROVE  handle'[w] = IF w = "send" THEN next_uid + 1
                          ELSE IF w = what THEN next_uid ELSE handle[w]
  <2>1. CASE w = "send"
    <3>1. (CHOOSE i \in DOMAIN calls : calls[i].what = w) = 2
      BY <1>1, <2>1
    <3> QED BY <1>1, <1>2, <2>1, <3>1 DEF Schedule, calls
  <2>2. CASE w = what
    <3>1. (CHOOSE i \in DOMAIN calls : calls[i].what = w) = 1
      BY <1>1, <2>2
    <3> QED BY <1>1, <1>2, <2>2, <3>1 DEF Schedule, calls
  <2>3. CASE w # what /\ w # "send"
    BY <1>1, <2>3 DEF Schedule, calls
  <2> QED BY <2>1, <2>2, <2>3
<1>6. handle' = [w \in Timer |-> handle'[w]]
  BY DEF Schedule
<1>7. handle \in [Timer -> Nat]
  BY DEF EventsOK
<1> QED BY <1>1, <1>3, <1>4, <1>5, <1>6, <1>7 DEF Timer

-----------------------------------------------------------------------------
(* What the handlers of packets arm.                                       *)

\* The advertisement, with the random part p of its delay.
SendArmed(uid, p) ==
  [uid |-> uid, what |-> "send",
   at |-> now' + AdvertisementDelay(FALSE, full', maximum_full_files_seen', p)]

ArmsSend(p) ==
  /\ events' = CancelAllEvents \cup {SendArmed(next_uid, p)}
  /\ next_uid' = next_uid + 1
  /\ handle' = [handle EXCEPT !["send"] = next_uid]

\* A request or a reply before it.
ArmsTwo(what, delay, p) ==
  /\ events' = CancelAllEvents \cup {[uid |-> next_uid, what |-> what,
                                      at |-> now' + delay],
                                     SendArmed(next_uid + 1, p)}
  /\ next_uid' = next_uid + 2
  /\ handle' = [handle EXCEPT ![what] = next_uid, !["send"] = next_uid + 1]

\* The delays a handler gives to what it arms before the advertisement.
Delays(what) ==
  IF what = "reply" THEN {0} ELSE 0 .. RequestDelay(full', 10 * TicksPerMs)

Rearms ==
  \E p \in SendJitter :
    \/ ArmsSend(p)
    \/ \E what \in {"request", "reply"} : \E delay \in Delays(what) :
         ArmsTwo(what, delay, p)

LEMMA ResendArms ==
  ASSUME EventsOK, Resend
  PROVE  \E p \in SendJitter : ArmsSend(p)
<1>1. PICK p \in SendJitter : Schedule(CancelAllEvents, <<SendCall(p)>>)
  BY DEF Resend
<1> DEFINE delay == AdvertisementDelay(FALSE, full', maximum_full_files_seen', p)
<1>2. Schedule(CancelAllEvents, <<[what |-> "send", delay |-> delay]>>)
  BY <1>1 DEF SendCall
<1> HIDE DEF delay
<1>3. ArmsSend(p)
  <2>1. /\ events' = CancelAllEvents \cup {[uid |-> next_uid, what |-> "send",
                                            at |-> now' + delay]}
        /\ next_uid' = next_uid + 1
        /\ handle' = [handle EXCEPT !["send"] = next_uid]
    BY <1>2, ScheduleSend
  <2> QED BY <2>1 DEF ArmsSend, SendArmed, delay
<1> QED BY <1>3

LEMMA ResendAfterArms ==
  ASSUME EventsOK, NEW what \in {"request", "reply"}, NEW delay,
         ResendAfter(what, delay)
  PROVE  \E p \in SendJitter : ArmsTwo(what, delay, p)
<1>1. PICK p \in SendJitter :
        Schedule(CancelAllEvents, <<[what |-> what, delay |-> delay], SendCall(p)>>)
  BY DEF ResendAfter
<1> DEFINE second == AdvertisementDelay(FALSE, full', maximum_full_files_seen', p)
<1>2. Schedule(CancelAllEvents, <<[what |-> what, delay |-> delay],
                                  [what |-> "send", delay |-> second]>>)
  BY <1>1 DEF SendCall
<1> HIDE DEF second
<1>3. ArmsTwo(what, delay, p)
  <2>1. events' = CancelAllEvents \cup
               {[uid |-> next_uid, what |-> what, at |-> now' + delay],
                [uid |-> next_uid + 1, what |-> "send", at |-> now' + second]}
    BY <1>2, ScheduleTwo
  <2>2. /\ next_uid' = next_uid + 2
        /\ handle' = [handle EXCEPT ![what] = next_uid, !["send"] = next_uid + 1]
    BY <1>2, ScheduleTwo
  <2> QED BY <2>1, <2>2 DEF ArmsTwo, SendArmed, second
<1> QED BY <1>3

LEMMA HandlerEffect ==
  ASSUME EventsOK, HandleAdvertisement \/ HandleRequest \/ HandleReply
  PROVE  /\ Hear
         /\ now' \in Nat
         /\ full' \in Nat \ {0} /\ maximum_full_files_seen' \in Nat
         /\ Rearms
<1>1. Hear
  BY DEF HandleAdvertisement, HandleRequest, HandleReply
<1>2. now' \in Nat
  BY <1>1, TimesAssumption DEF Hear, EventsOK
<1>3. full' \in Nat \ {0} /\ maximum_full_files_seen' \in Nat
  <2>1. CASE HandleAdvertisement
    BY <2>1, LargerIsNat, CountsAssumption DEF HandleAdvertisement, EventsOK
  <2>2. CASE HandleRequest
    BY <2>2 DEF HandleRequest, counts, EventsOK
  <2>3. CASE HandleReply
    <3>1. CASE UNCHANGED counts
      BY <3>1 DEF counts, EventsOK
    <3>2. CASE /\ full' \in {full, full + 1}
               /\ maximum_full_files_seen' = Larger(maximum_full_files_seen, full')
      <4>1. full' \in Nat \ {0}
        BY <3>2 DEF EventsOK
      <4> QED BY <3>2, <4>1, LargerIsNat DEF EventsOK
    <3> QED BY <2>3, <3>1, <3>2 DEF HandleReply, AddNewChunk
  <2> QED BY <2>1, <2>2, <2>3
<1>4. \A q \in 0 .. 10 * TicksPerMs :
        RequestDelay(full', q) \in 0 .. RequestDelay(full', 10 * TicksPerMs)
  <2> TAKE q \in 0 .. 10 * TicksPerMs
  <2> QED BY <1>3, RequestDelayIsNat
<1>5. 0 \in 0 .. RequestDelay(full', 10 * TicksPerMs)
  BY <1>3, LongestRequestDelayIsNat
<1>6. ASSUME Resend
      PROVE  Rearms
  <2>1. PICK p \in SendJitter : ArmsSend(p)
    BY <1>6, ResendArms
  <2> QED BY <2>1 DEF Rearms
<1>7. ASSUME NEW what \in {"request", "reply"}, NEW delay \in Delays(what),
             ResendAfter(what, delay)
      PROVE  Rearms
  <2>1. PICK p \in SendJitter : ArmsTwo(what, delay, p)
    BY <1>7, ResendAfterArms
  <2> QED BY <2>1 DEF Rearms
<1>8. 0 \in Delays("reply") /\ 0 \in Delays("request")
  BY <1>5 DEF Delays
<1>9. Rearms
  <2>1. CASE HandleAdvertisement
    <3>1. ASSUME NEW jitter \in RequestJitter
          PROVE  RequestDelay(full', jitter) \in Delays("request")
      BY <1>4, DelaysAssumption DEF Delays
    <3>2. \/ Resend
          \/ \E jitter \in RequestJitter :
               ResendAfter("request", RequestDelay(full', jitter))
      BY <2>1 DEF HandleAdvertisement
    <3> QED BY <1>6, <1>7, <3>1, <3>2
  <2>2. CASE HandleRequest
    <3>1. Resend \/ ResendAfter("reply", 0)
      BY <2>2 DEF HandleRequest
    <3> QED BY <1>6, <1>7, <1>8, <3>1
  <2>3. CASE HandleReply
    <3>1. Resend \/ ResendAfter("request", 0)
      BY <2>3 DEF HandleReply
    <3> QED BY <1>6, <1>7, <1>8, <3>1
  <2> QED BY <2>1, <2>2, <2>3
<1> QED BY <1>1, <1>2, <1>3, <1>9

-----------------------------------------------------------------------------
(* The invariant.                                                          *)

\* A step that only lets events run or drops them.
LEMMA Removal ==
  ASSUME TimerInv,
         events' \subseteq events, UNCHANGED <<next_uid, handle, full>>,
         now' \in Nat, maximum_full_files_seen' \in Nat,
         \/ maximum_full_files_seen' = maximum_full_files_seen
         \/ \A d \in events' : d.what # "send",
         open' => open,
         status' # "assertion"
  PROVE  TimerInv'
<1>1. EventsOK'
  BY DEF TimerInv, EventsOK
<1>2. UidsAreUnique' /\ OneEventPerTimer'
  BY DEF TimerInv, UidsAreUnique, OneEventPerTimer
<1>3. NothingBeforeStart'
  BY DEF TimerInv, NothingBeforeStart
<1>4. ArmedTogether'
  <2>1. CASE maximum_full_files_seen' = maximum_full_files_seen
    <3> SUFFICES ASSUME NEW d \in events', NEW e \in events',
                        d.what = "send", e.what = "request"
                 PROVE  \E t \in Nat : ArmedAt(t, d, e)'
      BY DEF ArmedTogether
    <3>1. PICK t \in Nat : ArmedAt(t, d, e)
      BY DEF TimerInv, ArmedTogether
    <3>2. ArmedAt(t, d, e)'
      BY <2>1, <3>1 DEF ArmedAt
    <3> QED BY <3>2
  <2>2. CASE \A d \in events' : d.what # "send"
    BY <2>2 DEF ArmedTogether
  <2> QED BY <2>1, <2>2
<1> QED BY <1>1, <1>2, <1>3, <1>4 DEF TimerInv

\* cancel_all_events reaches every timer.
LEMMA CancelsAllTimers ==
  ASSUME TimerInv
  PROVE  /\ CancelAllEvents \subseteq events
         /\ \A e \in CancelAllEvents : e.what \notin Timer
BY DEF TimerInv, OneEventPerTimer, CancelAllEvents

\* The new advertisement is an event.
LEMMA SendArmedIsEvent ==
  ASSUME NEW uid \in Nat \ {0}, NEW p \in SendJitter,
         now' \in Nat, full' \in Nat \ {0}, maximum_full_files_seen' \in Nat
  PROVE  SendArmed(uid, p) \in Event
<1>1. AdvertisementDelay(FALSE, full', maximum_full_files_seen', p) \in Nat
  BY AdvertisementDelayIsNat
<1>2. now' + AdvertisementDelay(FALSE, full', maximum_full_files_seen', p) \in Nat
  BY <1>1, SumIsNat
<1> QED BY <1>2 DEF SendArmed, Event, Timer

LEMMA RearmsKeeps ==
  ASSUME TimerInv, Hear, Rearms,
         now' \in Nat, full' \in Nat \ {0}, maximum_full_files_seen' \in Nat
  PROVE  TimerInv'
<1>1. open /\ open' /\ status' # "assertion"
  BY DEF Hear
<1>2. \A e \in CancelAllEvents : e \in events /\ e.what \notin Timer
                                  /\ e.what # "start" /\ e.uid < next_uid
  BY <1>1, CancelsAllTimers DEF TimerInv, NothingBeforeStart, UidsAreUnique
<1>3. /\ \A e \in events : e \in Event
      /\ next_uid \in Nat \ {0} /\ handle \in [Timer -> Nat]
  BY DEF TimerInv, EventsOK
<1>4. ASSUME NEW p \in SendJitter, ArmsSend(p)
      PROVE  TimerInv'
  <2> DEFINE s == SendArmed(next_uid, p)
  <2>1. s \in Event /\ s.uid = next_uid /\ s.what = "send"
    BY <1>3, SendArmedIsEvent DEF SendArmed
  <2>2. events' = CancelAllEvents \cup {s} /\ next_uid' = next_uid + 1
        /\ handle' = [handle EXCEPT !["send"] = next_uid]
    BY <1>4 DEF ArmsSend
  <2> HIDE DEF s
  <2>3. EventsOK'
    BY <1>2, <1>3, <2>1, <2>2 DEF EventsOK, Timer
  <2>4. UidsAreUnique'
    BY <1>2, <1>3, <2>1, <2>2 DEF UidsAreUnique, Event, TimerInv
  <2>5. OneEventPerTimer'
    BY <1>2, <1>3, <2>1, <2>2 DEF OneEventPerTimer, Timer
  <2>6. NothingBeforeStart'
    BY <1>2, <2>1, <2>2 DEF NothingBeforeStart
  <2>7. ArmedTogether'
    BY <1>2, <2>1, <2>2 DEF ArmedTogether, Timer
  <2> QED BY <1>1, <2>3, <2>4, <2>5, <2>6, <2>7 DEF TimerInv
<1>5. ASSUME NEW p \in SendJitter, NEW what \in {"request", "reply"},
             NEW delay \in Delays(what), ArmsTwo(what, delay, p)
      PROVE  TimerInv'
  <2> DEFINE s == SendArmed(next_uid + 1, p)
             r == [uid |-> next_uid, what |-> what, at |-> now' + delay]
  <2>1. delay \in Nat /\ (what = "request" => delay <= RequestDelay(full', 10 * TicksPerMs))
    <3>1. RequestDelay(full', 10 * TicksPerMs) \in Nat
      BY LongestRequestDelayIsNat
    <3> QED BY <3>1 DEF Delays
  <2>2. next_uid + 1 \in Nat \ {0}
    BY <1>3
  <2>3. s \in Event /\ s.uid = next_uid + 1 /\ s.what = "send"
    BY <2>2, SendArmedIsEvent DEF SendArmed
  <2>4. r \in Event /\ r.uid = next_uid /\ r.what = what /\ r.at = now' + delay
    <3>1. now' + delay \in Nat
      BY <2>1, SumIsNat
    <3> QED BY <1>3, <3>1 DEF Event, Timer
  <2>5. events' = CancelAllEvents \cup {r, s} /\ next_uid' = next_uid + 2
        /\ handle' = [handle EXCEPT ![what] = next_uid, !["send"] = next_uid + 1]
    BY <1>5 DEF ArmsTwo
  <2>6. s.at = now' + AdvertisementDelay(FALSE, full', maximum_full_files_seen', p)
    BY DEF SendArmed
  <2> HIDE DEF s, r
  <2>7. EventsOK'
    BY <1>2, <1>3, <2>2, <2>3, <2>4, <2>5 DEF EventsOK, Timer
  <2>8. UidsAreUnique'
    BY <1>2, <1>3, <2>3, <2>4, <2>5 DEF UidsAreUnique, Event, TimerInv
  <2>9. OneEventPerTimer'
    BY <1>2, <1>3, <2>3, <2>4, <2>5 DEF OneEventPerTimer, Timer
  <2>10. NothingBeforeStart'
    BY <1>2, <2>3, <2>4, <2>5 DEF NothingBeforeStart
  <2>11. ArmedTogether'
    <3>1. SUFFICES ASSUME NEW d \in events', NEW e \in events',
                          d.what = "send", e.what = "request"
                   PROVE  \E t \in Nat : ArmedAt(t, d, e)'
      BY DEF ArmedTogether
    <3>2. d = s /\ e = r /\ what = "request"
      BY <1>2, <2>3, <2>4, <2>5, <3>1 DEF Timer
    <3>3. r.at <= now' + RequestDelay(full', 10 * TicksPerMs)
      <4>1. RequestDelay(full', 10 * TicksPerMs) \in Nat
        BY LongestRequestDelayIsNat
      <4> QED BY <2>1, <2>4, <3>2, <4>1
    <3>4. s.uid > r.uid
      BY <1>3, <2>3, <2>4
    <3> QED BY <2>6, <3>2, <3>3, <3>4 DEF ArmedAt
  <2> QED BY <1>1, <2>7, <2>8, <2>9, <2>10, <2>11 DEF TimerInv
<1> QED BY <1>4, <1>5 DEF Rearms

LEMMA InitTimerInv == Init => TimerInv
<1> SUFFICES ASSUME Init PROVE TimerInv
  OBVIOUS
<1>1. m_stopTime \in Nat /\ StartTime \in Nat /\ EndTime \in Nat
  BY TimesAssumption DEF Init
<1>2. full \in Nat \ {0} /\ maximum_full_files_seen \in Nat
  BY CountsAssumption, LargerIsNat DEF Init
<1>3. EventsOK
  <2>1. handle \in [Timer -> Nat]
    BY DEF Init
  <2>2. events \subseteq Event
    BY <1>1 DEF Init, Event
  <2> QED BY <1>2, <2>1, <2>2 DEF Init, EventsOK
<1>4. UidsAreUnique
  BY DEF Init, UidsAreUnique
<1>5. OneEventPerTimer /\ ArmedTogether
  BY DEF Init, OneEventPerTimer, ArmedTogether, Timer
<1>6. NothingBeforeStart
  BY DEF Init, NothingBeforeStart, Timer
<1> QED BY <1>3, <1>4, <1>5, <1>6 DEF TimerInv, Init

LEMMA StartKeeps ==
  ASSUME TimerInv, StartApplication
  PROVE  TimerInv'
<1>1. PICK e \in events, jitter \in SendJitter :
        /\ Expires(e, "start")
        /\ Schedule(events \ {e}, <<[what |-> "send",
             delay |-> AdvertisementDelay(TRUE, full, maximum_full_files_seen, jitter)]>>)
  BY DEF StartApplication
<1> DEFINE delay == AdvertisementDelay(TRUE, full, maximum_full_files_seen, jitter)
           s == [uid |-> next_uid, what |-> "send", at |-> now' + delay]
<1>2. /\ \A d \in events : d \in Event
      /\ next_uid \in Nat \ {0} /\ handle \in [Timer -> Nat]
      /\ full \in Nat \ {0} /\ maximum_full_files_seen \in Nat
  BY DEF TimerInv, EventsOK
<1>3. now' \in Nat
  BY <1>1, <1>2 DEF Expires, Event
<1>4. delay \in Nat
  BY <1>2, AdvertisementDelayIsNat
<1>5. Schedule(events \ {e}, <<[what |-> "send", delay |-> delay]>>)
  BY <1>1
<1> HIDE DEF delay
<1>6. /\ events' = (events \ {e}) \cup {s}
      /\ next_uid' = next_uid + 1
      /\ handle' = [handle EXCEPT !["send"] = next_uid]
  BY <1>5, ScheduleSend DEF TimerInv
<1>7. s \in Event /\ s.uid = next_uid /\ s.what = "send"
  <2>1. now' + delay \in Nat
    BY <1>3, <1>4, SumIsNat
  <2> QED BY <1>2, <2>1 DEF Event, Timer
<1> HIDE DEF s
<1>8. /\ \A d \in events \ {e} : d.what \notin Timer /\ d.what # "start"
                                 /\ d.uid < next_uid
  <2>1. e.what = "start"
    BY <1>1 DEF Expires
  <2>2. \A d \in events : d.what \notin Timer
    BY <2>1 DEF TimerInv, NothingBeforeStart
  <2>3. ASSUME NEW d \in events, d.what = "start"
        PROVE  d = e
    BY <2>1, <2>3 DEF TimerInv, NothingBeforeStart, UidsAreUnique
  <2> QED BY <2>2, <2>3 DEF TimerInv, UidsAreUnique
<1>9. UNCHANGED <<full, maximum_full_files_seen, status>>
  BY DEF StartApplication, counts
<1>10. EventsOK'
  BY <1>2, <1>3, <1>6, <1>7, <1>9 DEF EventsOK, Timer
<1>11. UidsAreUnique'
  BY <1>2, <1>6, <1>7, <1>8 DEF UidsAreUnique, Event, TimerInv
<1>12. OneEventPerTimer' /\ ArmedTogether' /\ NothingBeforeStart'
  BY <1>2, <1>6, <1>7, <1>8
     DEF OneEventPerTimer, ArmedTogether, NothingBeforeStart, Timer
<1> QED BY <1>9, <1>10, <1>11, <1>12 DEF TimerInv

LEMMA SendKeeps ==
  ASSUME TimerInv, Send
  PROVE  TimerInv'
<1>1. PICK e \in events : /\ Expires(e, "send") /\ events' = events \ {e}
                          /\ IF \E d \in events \ {e} : d.uid = handle["send"]
                               THEN status' = "assertion" /\ UNCHANGED maximum_full_files_seen
                               ELSE /\ status' = IF open THEN status ELSE "send"
                                    /\ maximum_full_files_seen' =
                                         Larger(maximum_full_files_seen, full)
  BY DEF Send
<1>2. /\ \A d \in events : d \in Event
      /\ full \in Nat \ {0} /\ maximum_full_files_seen \in Nat
  BY DEF TimerInv, EventsOK
<1>3. e.what = "send" /\ now' = e.at
  BY <1>1 DEF Expires
<1>4. now' \in Nat
  BY <1>2, <1>3 DEF Event
<1>5. \A d \in events \ {e} : d.what # "send" /\ d.uid # handle["send"]
  BY <1>3 DEF TimerInv, OneEventPerTimer, UidsAreUnique, Timer
<1>6. status' # "assertion" /\ maximum_full_files_seen' \in Nat
  BY <1>1, <1>2, <1>5, LargerIsNat DEF TimerInv
<1>7. UNCHANGED <<next_uid, handle, open, full>>
  BY DEF Send
<1> QED BY <1>1, <1>4, <1>5, <1>6, <1>7, Removal

LEMMA TimerInvIsInductive == TimerInv /\ [Next]_vars => TimerInv'
<1> SUFFICES ASSUME TimerInv, [Next]_vars PROVE TimerInv'
  OBVIOUS
<1>1. now \in Nat /\ maximum_full_files_seen \in Nat /\ status # "assertion"
  BY DEF TimerInv, EventsOK
<1>2. \A e \in events : e.at \in Nat
  BY DEF TimerInv, EventsOK, Event
<1>3. CASE Configure \/ UNCHANGED vars
  <2>1. UNCHANGED <<now, events, next_uid, handle, open, full,
                    maximum_full_files_seen, status>>
    BY <1>3 DEF Configure, vars, counts
  <2> QED BY <1>1, <2>1, Removal
<1>4. CASE StartApplication
  BY <1>4, StartKeeps
<1>5. CASE Send
  BY <1>5, SendKeeps
<1>6. ASSUME NEW what \in {"request", "reply"}, SendPacket(what)
      PROVE  TimerInv'
  <2>1. PICK e \in events : Expires(e, what) /\ events' = events \ {e}
    BY <1>6 DEF SendPacket
  <2>2. now' \in Nat
    BY <1>2, <2>1 DEF Expires
  <2>3. /\ UNCHANGED <<next_uid, handle, open, full, maximum_full_files_seen>>
        /\ status' # "assertion"
    BY <1>1, <1>6 DEF SendPacket, counts
  <2> QED BY <1>1, <2>1, <2>2, <2>3, Removal
<1>7. CASE HandleAdvertisement \/ HandleRequest \/ HandleReply
  <2>1. EventsOK
    BY DEF TimerInv
  <2> QED BY <1>7, <2>1, HandlerEffect, RearmsKeeps
<1>8. CASE StopApplication
  <2>1. PICK e \in events : Expires(e, "stop") /\ events' = EventsAfterStop(e)
    BY <1>8 DEF StopApplication
  <2>2. events' \subseteq events /\ now' \in Nat
    BY <1>2, <2>1 DEF Expires, EventsAfterStop
  <2>3. /\ UNCHANGED <<next_uid, handle, full, maximum_full_files_seen, status>>
        /\ ~open'
    BY <1>8 DEF StopApplication, counts
  <2> QED BY <1>1, <2>2, <2>3, Removal
<1>9. CASE End
  <2>1. PICK e \in events : Expires(e, "end") /\ events' = events \ {e}
    BY <1>9 DEF End
  <2>2. now' \in Nat
    BY <1>2, <2>1 DEF Expires
  <2>3. /\ UNCHANGED <<next_uid, handle, open, full, maximum_full_files_seen>>
        /\ status' # "assertion"
    BY <1>9 DEF End, counts
  <2> QED BY <1>1, <2>1, <2>2, <2>3, Removal
<1>10. CASE Destroy
  <2>1. /\ UNCHANGED <<now, next_uid, handle, full, maximum_full_files_seen>>
        /\ status' # "assertion" /\ events' = {} /\ ~open'
    BY <1>10 DEF Destroy, counts
  <2> QED BY <1>1, <2>1, Removal
<1> QED BY <1>3, <1>4, <1>5, <1>6, <1>7, <1>8, <1>9, <1>10
        DEF Next, RequestPacket, Reply

LEMMA TimerInvHolds == Spec => []TimerInv
<1>1. Init => TimerInv
  BY InitTimerInv
<1>2. TimerInv /\ [Next]_vars => TimerInv'
  BY TimerInvIsInductive
<1> QED BY <1>1, <1>2, PTL DEF Spec

-----------------------------------------------------------------------------
(* The theorems.                                                           *)

\* Whatever arrives between the timers and whatever the random delays are,
\* each pending event is the one its handle names: cancel_all_events reaches
\* it, and the assertion of Send holds (sms-echo-client.cc:551, 624-628).
THEOREM HandlesAreNeverLost == Spec => []HandlesNameEvents
<1>1. TimerInv => HandlesNameEvents
  BY DEF TimerInv, OneEventPerTimer, HandlesNameEvents
<1> QED BY <1>1, TimerInvHolds, PTL

LEMMA CancelFactor ==
  ASSUME NEW a \in Int, NEW b \in Int, NEW k \in Nat \ {0}, a * k < b * k
  PROVE  a < b
<1>1. CASE b <= a
  <2>1. PICK n \in Nat : a = b + n
    BY <1>1
  <2>2. n * k \in Nat
    BY <2>1, ProductIsNat
  <2>3. a * k = b * k + n * k
    BY <2>1
  <2>4. b * k \in Int
    OBVIOUS
  <2> QED BY <2>2, <2>3, <2>4
<1> QED BY <1>1

\* What the difference of two due times says of the counts.
LEMMA EarlierMeansFewerSeen ==
  ASSUME NEW own \in Nat \ {0}, NEW seen \in Nat, NEW p \in SendJitter,
         AdvertisementDelay(FALSE, own, seen, p) < RequestDelay(own, 10 * TicksPerMs)
  PROVE  own * (seen + 10) + Multiplier < own * (own + 11)
<1> DEFINE T == TicksPerMs
           M == Multiplier
           part == (M * T) \div own
<1>1. T \in Nat \ {0} /\ M \in Nat /\ p \in Nat
  BY DelaysAssumption
<1>2. M * T \in Nat
  BY <1>1, ProductIsNat
<1>3. part \in Nat
  BY <1>2, DivIsNat
<1>4. (seen + 10) * T + part + p < (own + 1) * T + 10 * T
  BY DEF AdvertisementDelay, RequestDelay
<1>5. part < (own + 1 - seen) * T
  <2> HIDE DEF part
  <2>1. (seen + 10) * T \in Nat /\ (own + 1) * T \in Nat
    BY <1>1, ProductIsNat
  <2>2. part < (own + 1) * T + 10 * T - (seen + 10) * T
    BY <1>1, <1>3, <1>4, <2>1
  <2>3. (own + 1) * T + 10 * T - (seen + 10) * T = (own + 1 - seen) * T
    BY <1>1
  <2> QED BY <2>2, <2>3
<1>6. (own + 1 - seen) * T \in Int
  BY <1>1
<1>7. M * T < own * ((own + 1 - seen) * T)
  BY <1>2, <1>5, <1>6, DivBound
<1>8. own * ((own + 1 - seen) * T) = (own * (own + 1 - seen)) * T
  BY <1>1
<1>9. own * (own + 1 - seen) \in Int
  OBVIOUS
<1>10. M < own * (own + 1 - seen)
  BY <1>1, <1>7, <1>8, <1>9, CancelFactor
<1>11. own * (own + 1 - seen) = own * (own + 11) - own * (seen + 10)
  OBVIOUS
<1>12. own * (own + 11) \in Nat /\ own * (seen + 10) \in Nat
  BY ProductIsNat
<1> QED BY <1>1, <1>10, <1>11, <1>12

\* The guard that SmsEchoClient.tla puts on Send in place of the delays is
\* what the delays give: the advertisement runs first only if own * (seen +
\* 10) + multiplier < own * (own + 11) (sms-echo-client.cc:595-622, 696-697).
THEOREM AdvertisementsOvertakeOnlyIfAllowed == Spec => OvertakesOnlyIfAllowed
<1>1. TimerInv /\ Send /\ RequestPending => MayOvertakeRequest
  <2> SUFFICES ASSUME TimerInv, Send, RequestPending
               PROVE  MayOvertakeRequest
    OBVIOUS
  <2>1. PICK d \in events : Expires(d, "send")
    BY DEF Send
  <2>2. PICK e \in events : e.what = "request"
    BY DEF RequestPending
  <2>3. PICK t \in Nat : ArmedAt(t, d, e)
    BY <2>1, <2>2 DEF TimerInv, ArmedTogether, Expires
  <2>4. d.uid \in Nat /\ e.uid \in Nat /\ d.at \in Nat /\ e.at \in Nat
        /\ full \in Nat \ {0} /\ maximum_full_files_seen \in Nat
    BY DEF TimerInv, EventsOK, Event
  <2>5. d.at < e.at
    <3>1. d.uid > e.uid
      BY <2>3 DEF ArmedAt
    <3>2. d.at < e.at \/ (d.at = e.at /\ d.uid <= e.uid)
      BY <2>1 DEF Expires
    <3> QED BY <2>4, <3>1, <3>2
  <2>6. PICK p \in SendJitter :
          d.at = t + AdvertisementDelay(FALSE, full, maximum_full_files_seen, p)
    BY <2>3 DEF ArmedAt
  <2>7. e.at <= t + RequestDelay(full, 10 * TicksPerMs)
    BY <2>3 DEF ArmedAt
  <2>8. AdvertisementDelay(FALSE, full, maximum_full_files_seen, p) \in Nat
        /\ RequestDelay(full, 10 * TicksPerMs) \in Nat
    BY <2>4, AdvertisementDelayIsNat, LongestRequestDelayIsNat
  <2>9. AdvertisementDelay(FALSE, full, maximum_full_files_seen, p)
          < RequestDelay(full, 10 * TicksPerMs)
    <3>1. t + AdvertisementDelay(FALSE, full, maximum_full_files_seen, p) < e.at
      BY <2>5, <2>6
    <3> QED BY <2>4, <2>7, <2>8, <3>1, LessAfterSum
  <2> QED BY <2>4, <2>9, EarlierMeansFewerSeen DEF MayOvertakeRequest
<1>2. TimerInv /\ [Next]_vars => [Send /\ RequestPending => MayOvertakeRequest]_vars
  BY <1>1
<1> QED BY <1>2, TimerInvHolds, PTL DEF Spec, OvertakesOnlyIfAllowed

-----------------------------------------------------------------------------
(* The end of the application.                                             *)

\* Until it is run, the event of Simulator::Stop is pending: no handle names it.
EndIsPending ==
  /\ next_uid > 3 /\ \A w \in Timer : handle[w] # 1
  /\ status = "running" =>
       \E e \in events : e.uid = 1 /\ e.what = "end" /\ e.at = EndTime

StopIsAtStopTime ==
  /\ m_stopTime \in Nat
  /\ \A e \in events : e.what = "stop" => e.uid = 3 /\ e.at = m_stopTime

\* A reply runs at the time it was armed, and no packet comes at the stop.
ReplyBeforeStop ==
  \A d, e \in events : d.what = "stop" /\ e.what = "reply" => e.at < d.at

\* Without sockets, the application waits for its start, or it was stopped
\* before the end and only a request can still run.
ClosedIsIdle ==
  status = "running" /\ ~open =>
    \/ \E e \in events : e.what = "start"
    \/ m_stopTime < EndTime /\ \A e \in events : e.what \notin {"send", "reply"}

LifeInv ==
  /\ EndIsPending /\ StopIsAtStopTime /\ ReplyBeforeStop /\ ClosedIsIdle
  /\ CrashOnlyIfStoppedEarly

LEMMA InitLifeInv == Init => LifeInv
<1> SUFFICES ASSUME Init PROVE LifeInv
  OBVIOUS
<1>1. m_stopTime \in Nat
  BY TimesAssumption DEF Init
<1>2. EndIsPending
  BY DEF Init, EndIsPending
<1>3. StopIsAtStopTime /\ ReplyBeforeStop /\ ClosedIsIdle
  BY <1>1 DEF Init, StopIsAtStopTime, ReplyBeforeStop, ClosedIsIdle
<1>4. CrashOnlyIfStoppedEarly
  BY DEF Init, CrashOnlyIfStoppedEarly, Timer
<1> QED BY <1>2, <1>3, <1>4 DEF LifeInv

\* A timer that runs takes its event away.
LEMMA TimerKeepsLife ==
  ASSUME TimerInv, LifeInv, NEW what \in Timer, NEW e \in events,
         Expires(e, what), events' = events \ {e},
         UNCHANGED <<next_uid, handle, open, m_stopTime>>,
         \/ status' = IF open THEN status ELSE what
         \/ status' = "assertion"
  PROVE  LifeInv'
<1>1. e.what = what /\ what # "start" /\ what # "end" /\ status = "running"
  BY DEF Expires, Timer
<1>2. EndIsPending'
  BY <1>1 DEF LifeInv, EndIsPending
<1>3. StopIsAtStopTime' /\ ReplyBeforeStop'
  BY DEF LifeInv, StopIsAtStopTime, ReplyBeforeStop
<1>4. ~open => what = "request" /\ m_stopTime < EndTime
  BY <1>1 DEF LifeInv, ClosedIsIdle, TimerInv, NothingBeforeStart, Timer
<1>5. ClosedIsIdle'
  BY <1>1 DEF LifeInv, ClosedIsIdle
<1>6. CrashOnlyIfStoppedEarly'
  BY <1>1, <1>4 DEF CrashOnlyIfStoppedEarly, Timer
<1> QED BY <1>2, <1>3, <1>5, <1>6 DEF LifeInv

\* What a handler schedules: timers, and a reply for now.
AddsTimersOnly ==
  /\ CancelAllEvents \subseteq events'
  /\ \A e \in events' \ CancelAllEvents :
       e.what \in Timer /\ (e.what = "reply" => e.at = now')
  /\ next_uid' > 3 /\ \A w \in Timer : handle'[w] # 1

LEMMA HandlerKeepsLife ==
  ASSUME TimerInv, LifeInv, Hear, Rearms, now' \in Nat
  PROVE  LifeInv'
<1>1. /\ open' /\ UNCHANGED <<m_stopTime, status>> /\ status = "running"
      /\ \A e \in events : e.what \notin Timer => now' < e.at
  BY DEF Hear
<1>2. next_uid \in Nat \ {0} /\ handle \in [Timer -> Nat]
  BY DEF TimerInv, EventsOK
<1>3. /\ CancelAllEvents \subseteq events
      /\ \A e \in CancelAllEvents : e.what \notin Timer
  BY CancelsAllTimers
<1>4. \A e \in events : e.uid = 1 => e \in CancelAllEvents
  BY DEF LifeInv, EndIsPending, CancelAllEvents
<1>5. AddsTimersOnly
  <2>1. next_uid > 3 /\ \A w \in Timer : handle[w] # 1
    BY DEF LifeInv, EndIsPending
  <2>2. ASSUME NEW p \in SendJitter, ArmsSend(p)
        PROVE  AddsTimersOnly
    <3>1. SendArmed(next_uid, p).what = "send"
      BY DEF SendArmed
    <3> QED BY <1>2, <2>1, <2>2, <3>1 DEF AddsTimersOnly, ArmsSend, Timer
  <2>3. ASSUME NEW p \in SendJitter, NEW what \in {"request", "reply"},
               NEW delay \in Delays(what), ArmsTwo(what, delay, p)
        PROVE  AddsTimersOnly
    <3> DEFINE s == SendArmed(next_uid + 1, p)
               r == [uid |-> next_uid, what |-> what, at |-> now' + delay]
    <3>1. s.what = "send"
      BY DEF SendArmed
    <3>2. r.what = what /\ (what = "reply" => r.at = now')
      <4>1. what = "reply" => delay = 0
        BY DEF Delays
      <4> QED BY <4>1, SumWithZero
    <3>3. events' = CancelAllEvents \cup {r, s}
      BY <2>3 DEF ArmsTwo
    <3> HIDE DEF r, s
    <3>4. next_uid' > 3 /\ \A w \in Timer : handle'[w] # 1
      BY <1>2, <2>1, <2>3 DEF ArmsTwo, Timer
    <3> QED BY <3>1, <3>2, <3>3, <3>4 DEF AddsTimersOnly, Timer
  <2> QED BY <2>2, <2>3 DEF Rearms
<1>6. EndIsPending'
  BY <1>1, <1>4, <1>5 DEF AddsTimersOnly, LifeInv, EndIsPending
<1>7. StopIsAtStopTime'
  BY <1>1, <1>3, <1>5 DEF AddsTimersOnly, LifeInv, StopIsAtStopTime, Timer
<1>8. ReplyBeforeStop'
  <2> SUFFICES ASSUME NEW d \in events', NEW e \in events',
                      d.what = "stop", e.what = "reply"
               PROVE  e.at < d.at
    BY DEF ReplyBeforeStop
  <2>1. d \in CancelAllEvents /\ e \notin CancelAllEvents
    BY <1>3, <1>5 DEF AddsTimersOnly, Timer
  <2>2. now' < d.at
    BY <1>1, <1>3, <2>1
  <2> QED BY <1>5, <2>1, <2>2 DEF AddsTimersOnly
<1>9. ClosedIsIdle'
  BY <1>1 DEF ClosedIsIdle
<1>10. CrashOnlyIfStoppedEarly'
  BY <1>1 DEF LifeInv, CrashOnlyIfStoppedEarly
<1> QED BY <1>6, <1>7, <1>8, <1>9, <1>10 DEF LifeInv

LEMMA StartKeepsLife ==
  ASSUME TimerInv, LifeInv, StartApplication
  PROVE  LifeInv'
<1>1. PICK e \in events, jitter \in SendJitter :
        /\ Expires(e, "start")
        /\ Schedule(events \ {e}, <<[what |-> "send",
             delay |-> AdvertisementDelay(TRUE, full, maximum_full_files_seen, jitter)]>>)
  BY DEF StartApplication
<1> DEFINE delay == AdvertisementDelay(TRUE, full, maximum_full_files_seen, jitter)
           s == [uid |-> next_uid, what |-> "send", at |-> now' + delay]
<1>2. Schedule(events \ {e}, <<[what |-> "send", delay |-> delay]>>)
  BY <1>1
<1> HIDE DEF delay
<1>3. EventsOK
  BY DEF TimerInv
<1>4. /\ events' = (events \ {e}) \cup {s}
      /\ next_uid' = next_uid + 1
      /\ handle' = [handle EXCEPT !["send"] = next_uid]
  BY <1>2, <1>3, ScheduleSend
<1>5. s.what = "send"
  OBVIOUS
<1> HIDE DEF s
<1>6. e.what = "start" /\ open' /\ UNCHANGED <<m_stopTime, status>>
  BY <1>1 DEF StartApplication, Expires
<1>7. next_uid \in Nat \ {0} /\ handle \in [Timer -> Nat]
  BY <1>3 DEF EventsOK
<1>8. EndIsPending'
  <2>1. next_uid' > 3 /\ \A w \in Timer : handle'[w] # 1
    BY <1>4, <1>7 DEF LifeInv, EndIsPending, Timer
  <2>2. \A d \in events : d.what = "end" => d \in events'
    BY <1>4, <1>6
  <2> QED BY <1>6, <2>1, <2>2 DEF LifeInv, EndIsPending
<1>9. StopIsAtStopTime' /\ ReplyBeforeStop'
  BY <1>4, <1>5, <1>6 DEF LifeInv, StopIsAtStopTime, ReplyBeforeStop
<1>10. ClosedIsIdle' /\ CrashOnlyIfStoppedEarly'
  BY <1>6 DEF LifeInv, ClosedIsIdle, CrashOnlyIfStoppedEarly
<1> QED BY <1>8, <1>9, <1>10 DEF LifeInv

LEMMA StopKeepsLife ==
  ASSUME TimerInv, LifeInv, StopApplication
  PROVE  LifeInv'
<1>1. PICK e \in events : Expires(e, "stop") /\ events' = EventsAfterStop(e)
  BY DEF StopApplication
<1>2. /\ e.what = "stop" /\ e.uid = 3 /\ e.at = m_stopTime /\ status = "running"
      /\ \A d \in events : e.at < d.at \/ (e.at = d.at /\ e.uid <= d.uid)
  BY <1>1 DEF Expires, LifeInv, StopIsAtStopTime
<1>3. /\ UNCHANGED <<next_uid, handle, m_stopTime, status>>
      /\ events' = {d \in events \ {e} : d.uid # handle["send"]}
  BY <1>1 DEF StopApplication, EventsAfterStop
<1>4. PICK f \in events : f.uid = 1 /\ f.what = "end" /\ f.at = EndTime
  BY <1>2 DEF LifeInv, EndIsPending
<1>5. m_stopTime < EndTime
  <2>1. e.at < f.at
    BY <1>2, <1>4
  <2> QED BY <1>2, <1>4, <2>1
<1>6. \A w \in Timer : handle[w] # 1
  BY DEF LifeInv, EndIsPending
<1>7. EndIsPending'
  <2>1. f \in events'
    BY <1>2, <1>3, <1>4, <1>6 DEF Timer
  <2> QED BY <1>3, <1>4, <2>1 DEF LifeInv, EndIsPending
<1>8. StopIsAtStopTime' /\ ReplyBeforeStop' /\ CrashOnlyIfStoppedEarly'
  BY <1>3 DEF LifeInv, StopIsAtStopTime, ReplyBeforeStop, CrashOnlyIfStoppedEarly
<1>9. \A d \in events' : d.what \notin {"send", "reply"}
  <2>1. \A d \in events' : d.what # "send"
    BY <1>3 DEF TimerInv, OneEventPerTimer, Timer
  <2>2. ASSUME NEW d \in events, d.what = "reply"
        PROVE  FALSE
    <3>1. d.at < e.at
      BY <1>2, <2>2 DEF LifeInv, ReplyBeforeStop
    <3>2. d.at \in Nat /\ e.at \in Nat
      BY DEF TimerInv, EventsOK, Event
    <3> QED BY <1>2, <3>1, <3>2
  <2> QED BY <1>3, <2>1, <2>2
<1>10. ClosedIsIdle'
  BY <1>3, <1>5, <1>9 DEF ClosedIsIdle
<1> QED BY <1>7, <1>8, <1>10 DEF LifeInv

LEMMA LifeInvIsInductive == TimerInv /\ LifeInv /\ [Next]_vars => LifeInv'
<1> SUFFICES ASSUME TimerInv, LifeInv, [Next]_vars PROVE LifeInv'
  OBVIOUS
<1>1. CASE Configure \/ UNCHANGED vars
  <2>1. UNCHANGED <<events, next_uid, handle, open, m_stopTime, status>>
    BY <1>1 DEF Configure, vars, counts
  <2> QED BY <2>1 DEF LifeInv, EndIsPending, StopIsAtStopTime, ReplyBeforeStop,
                      ClosedIsIdle, CrashOnlyIfStoppedEarly
<1>2. CASE StartApplication
  BY <1>2, StartKeepsLife
<1>3. CASE Send
  <2>1. PICK e \in events :
          /\ Expires(e, "send") /\ events' = events \ {e}
          /\ status' = (IF open THEN status ELSE "send") \/ status' = "assertion"
    BY <1>3 DEF Send
  <2>2. UNCHANGED <<next_uid, handle, open, m_stopTime>> /\ "send" \in Timer
    BY <1>3 DEF Send, Timer
  <2> QED BY <2>1, <2>2, TimerKeepsLife
<1>4. ASSUME NEW what \in {"request", "reply"}, SendPacket(what)
      PROVE  LifeInv'
  <2>1. PICK e \in events : Expires(e, what) /\ events' = events \ {e}
    BY <1>4 DEF SendPacket
  <2>2. /\ UNCHANGED <<next_uid, handle, open, m_stopTime>> /\ what \in Timer
        /\ status' = IF open THEN status ELSE what
    BY <1>4 DEF SendPacket, Timer
  <2> QED BY <2>1, <2>2, TimerKeepsLife
<1>5. CASE HandleAdvertisement \/ HandleRequest \/ HandleReply
  <2>1. EventsOK
    BY DEF TimerInv
  <2> QED BY <1>5, <2>1, HandlerEffect, HandlerKeepsLife
<1>6. CASE StopApplication
  BY <1>6, StopKeepsLife
<1>7. CASE End \/ Destroy
  <2>1. /\ events' \subseteq events /\ UNCHANGED <<next_uid, handle, m_stopTime>>
        /\ status' \in {"ended", "destroyed"}
    BY <1>7 DEF End, Destroy
  <2> QED BY <2>1 DEF LifeInv, EndIsPending, StopIsAtStopTime, ReplyBeforeStop,
                      ClosedIsIdle, CrashOnlyIfStoppedEarly, Timer
<1> QED BY <1>1, <1>2, <1>3, <1>4, <1>5, <1>6, <1>7 DEF Next, RequestPacket, Reply

\* Only a request that waits while the application is stopped before the end
\* uses a null socket; with main's equal times nothing does
\* (sms-echo-client.cc:417-434, sms-main.cc:79-83).
THEOREM CrashesTakeAnEarlyStop == Spec => []CrashOnlyIfStoppedEarly
<1>1. Init => LifeInv
  BY InitLifeInv
<1>2. TimerInv /\ LifeInv /\ [Next]_vars => LifeInv'
  BY LifeInvIsInductive
<1>3. LifeInv => CrashOnlyIfStoppedEarly
  BY DEF LifeInv
<1> QED BY <1>1, <1>2, <1>3, TimerInvHolds, PTL DEF Spec

-----------------------------------------------------------------------------
(* The packet buffer.                                                      *)

\* The counts with which the buffer is filled.
CountsOK == files \in Nat /\ full \in Nat \ {0}

DataInv == CountsOK /\ BufferInv /\ DecodedBytesAreWritten

\* In a buffer without an unwritten byte there is none to decode.
LEMMA FullyWritten ==
  ASSUME m_data' = NoData \/ \A i \in DOMAIN m_data' : m_data'[i] \in Byte
  PROVE  DecodedBytesAreWritten'
BY JunkAssumption DEF DecodedBytesAreWritten

LEMMA RepeatedBytes ==
  ASSUME NEW fill \in Seq(Byte), fill # <<>>, NEW dataSize \in Nat,
         m_data' = Repeated(fill, dataSize)
  PROVE  \A i \in DOMAIN m_data' : m_data'[i] \in Byte
<1>1. m_data' \in [1 .. dataSize -> Byte]
  BY RepeatedType
<1> QED BY <1>1

LEMMA InitDataInv == Init => DataInv
<1> SUFFICES ASSUME Init PROVE DataInv
  OBVIOUS
<1>1. m_data = NoData /\ m_dataSize = 0 /\ m_size \in Nat
  BY BufferAssumption DEF Init, BufferInit
<1>2. CountsOK
  BY CountsAssumption DEF Init, CountsOK
<1> QED BY <1>1, <1>2 DEF DataInv, BufferInv, BufferTypeOK, BufferIsExact,
                          DecodedBytesAreWritten

LEMMA ConfigureKeepsData ==
  ASSUME DataInv, Configure
  PROVE  DataInv'
<1>1. CountsOK' /\ BufferInv
  BY DEF Configure, DataInv, CountsOK, counts
<1>2. \A fill \in Pattern : fill \in Seq(Byte) /\ fill \in Seq(Cell)
  <2>1. Seq(Byte) \subseteq Seq(Cell)
    BY DEF Cell
  <2> QED BY <2>1, BufferAssumption
<1>3. ASSUME NEW fill \in Pattern, NEW size \in DataSize, SetFillPattern(fill, size)
      PROVE  BufferInv' /\ DecodedBytesAreWritten'
  <2>1. /\ fill \in Seq(Byte) /\ fill \in Seq(Cell) /\ size \in Nat
        /\ fill # <<>>
    BY <1>2, <1>3, BufferAssumption DEF SetFillPattern
  <2>2. /\ BufferInv'
        /\ size # 0 => m_data' = Repeated(fill, size)
        /\ size = 0 => m_data' \in {<<>>, NoData}
    BY <1>1, <1>3, <2>1, SetFillPatternWrites
  <2>3. m_data' = NoData \/ \A i \in DOMAIN m_data' : m_data'[i] \in Byte
    BY <2>1, <2>2, RepeatedBytes
  <2> QED BY <2>2, <2>3, FullyWritten
<1>4. ASSUME NEW fill \in Pattern, SetFillString(fill)
      PROVE  BufferInv' /\ DecodedBytesAreWritten'
  <2>1. BufferInv' /\ m_data' \in Seq(Byte)
    BY <1>1, <1>2, <1>4, SetFillStringWrites
  <2>2. \A i \in DOMAIN m_data' : m_data'[i] \in Byte
    BY <2>1
  <2> QED BY <2>1, <2>2, FullyWritten
<1>5. ASSUME NEW size \in DataSize, SetFillByte(7, size)
      PROVE  BufferInv' /\ DecodedBytesAreWritten'
  <2>1. 7 \in Byte /\ size \in Nat
    BY BufferAssumption DEF Byte
  <2>2. /\ BufferInv'
        /\ size # 0 => m_data' = [k \in 1 .. size |-> 7]
        /\ size = 0 => m_data' \in {<<>>, NoData}
    BY <1>1, <1>5, <2>1, SetFillByteWrites
  <2>3. m_data' = NoData \/ \A i \in DOMAIN m_data' : m_data'[i] \in Byte
    BY <2>1, <2>2
  <2> QED BY <2>2, <2>3, FullyWritten
<1>6. ASSUME NEW size \in DataSize, SetDataSize(size)
      PROVE  BufferInv' /\ DecodedBytesAreWritten'
  <2>1. BufferInv' /\ m_data' = NoData
    BY <1>6, BufferAssumption, SetDataSizeForgets
  <2> QED BY <2>1, FullyWritten
<1> QED BY <1>1, <1>3, <1>4, <1>5, <1>6 DEF Configure, DataInv

\* The advertisement: as many records as the count in its header tells, and no
\* more than those, are certain to be written.
LEMMA AdvertisementIsWritten ==
  ASSUME CountsOK
  PROVE  /\ AdvertisementPacket \in Seq(Cell)
         /\ AdvertisementPacket # <<>>
         /\ Repeated(AdvertisementPacket, 2 + 4 * files) = AdvertisementPacket
         /\ \A i \in DOMAIN AdvertisementPacket :
              AdvertisementPacket[i] = Junk => i > 2 + 4 * AdvertisementPacket[2]
<1> DEFINE n == 2 + 4 * files
           packet == AdvertisementPacket
<1>1. n \in Nat /\ n >= 2 /\ full \in Nat
  BY DEF CountsOK
<1>2. full % 256 \in Byte /\ full % 256 <= full /\ 0 \in Byte /\ 1 \in Byte
  BY <1>1 DEF Byte
<1>3. packet = [i \in 1 .. n |->
        IF i = 1 THEN 0 ELSE IF i = 2 THEN full % 256
        ELSE IF i <= 2 + 4 * full THEN 1 ELSE Junk]
  BY DEF AdvertisementPacket
<1> HIDE DEF n, packet
<1>4. packet \in [1 .. n -> Cell]
  BY <1>2, <1>3 DEF Cell
<1>5. packet \in Seq(Cell) /\ Len(packet) = n
  BY <1>1, <1>4
<1>6. packet # <<>>
  BY <1>1, <1>5
<1>7. Repeated(packet, n) = packet
  <2>1. ASSUME NEW i \in 1 .. n PROVE ((i - 1) % n) + 1 = i
    <3>1. i - 1 \in 0 .. n - 1
      BY <1>1
    <3>2. (i - 1) % n = i - 1
      BY <1>1, <3>1
    <3> QED BY <1>1, <3>2
  <2>2. Repeated(packet, n) = [i \in 1 .. n |-> packet[i]]
    BY <1>5, <2>1 DEF Repeated
  <2> QED BY <1>4, <2>2
<1>8. packet[2] = full % 256
  <2>1. 2 \in 1 .. n /\ 2 # 1
    BY <1>1
  <2> QED BY <1>3, <2>1
<1>9. ASSUME NEW i \in DOMAIN packet, packet[i] = Junk
      PROVE  i > 2 + 4 * packet[2]
  <2>1. i \in 1 .. n /\ i \in Nat
    BY <1>4
  <2>2. ~(i <= 2 + 4 * full)
    BY <1>2, <1>3, <1>9, <2>1, JunkAssumption
  <2>3. full % 256 \in Nat
    BY <1>1
  <2> QED BY <1>1, <1>2, <1>8, <2>1, <2>2, <2>3
<1> QED BY <1>5, <1>6, <1>7, <1>9 DEF packet, n

LEMMA SendKeepsData ==
  ASSUME DataInv, Send
  PROVE  DataInv'
<1>1. CountsOK /\ CountsOK' /\ BufferInv
  BY DEF Send, DataInv, CountsOK
<1>2. UNCHANGED buffer \/ SetFillPattern(AdvertisementPacket, 2 + 4 * files)
  BY DEF Send
<1>3. CASE UNCHANGED buffer
  BY <1>1, <1>3 DEF DataInv, BufferInv, BufferTypeOK, BufferIsExact,
                    DecodedBytesAreWritten, buffer
<1>4. CASE SetFillPattern(AdvertisementPacket, 2 + 4 * files)
  <2>1. 2 + 4 * files \in Nat /\ 2 + 4 * files # 0
    BY <1>1 DEF CountsOK
  <2>2. BufferInv' /\ m_data' = Repeated(AdvertisementPacket, 2 + 4 * files)
    BY <1>1, <1>4, <2>1, AdvertisementIsWritten, SetFillPatternWrites
  <2>3. m_data' = AdvertisementPacket
    BY <1>1, <2>2, AdvertisementIsWritten
  <2>4. DecodedBytesAreWritten'
    BY <1>1, <2>3, AdvertisementIsWritten DEF DecodedBytesAreWritten
  <2> QED BY <1>1, <2>2, <2>4 DEF DataInv
<1> QED BY <1>2, <1>3, <1>4

\* The handlers of packets only change the counts.
LEMMA HandlersKeepCounts ==
  ASSUME CountsOK, HandleAdvertisement \/ HandleRequest \/ HandleReply
  PROVE  CountsOK' /\ UNCHANGED buffer
<1>1. UNCHANGED buffer
  BY DEF HandleAdvertisement, HandleRequest, HandleReply, Hear
<1>2. CASE HandleAdvertisement
  BY <1>1, <1>2, BoundsAssumption DEF HandleAdvertisement, CountsOK
<1>3. CASE HandleRequest
  BY <1>1, <1>3 DEF HandleRequest, CountsOK, counts
<1>4. CASE HandleReply
  BY <1>1, <1>4 DEF HandleReply, AddNewChunk, CountsOK, counts
<1> QED BY <1>2, <1>3, <1>4

LEMMA DataInvIsInductive == DataInv /\ [Next]_vars => DataInv'
<1> SUFFICES ASSUME DataInv, [Next]_vars PROVE DataInv'
  OBVIOUS
<1>1. ASSUME CountsOK', UNCHANGED buffer PROVE DataInv'
  BY <1>1 DEF DataInv, BufferInv, BufferTypeOK, BufferIsExact,
              DecodedBytesAreWritten, buffer
<1>2. ASSUME UNCHANGED counts PROVE CountsOK'
  BY <1>2 DEF DataInv, CountsOK, counts
<1>3. CASE StartApplication \/ RequestPacket \/ Reply \/ StopApplication \/ End
           \/ UNCHANGED vars
  BY <1>1, <1>2, <1>3 DEF StartApplication, RequestPacket, Reply, SendPacket,
                          StopApplication, End, vars
<1>4. CASE HandleAdvertisement \/ HandleRequest \/ HandleReply
  BY <1>1, <1>4, HandlersKeepCounts DEF DataInv
<1>5. CASE Destroy
  BY <1>2, <1>5 DEF Destroy, DataInv, BufferInv, BufferTypeOK, BufferIsExact,
                    DecodedBytesAreWritten
<1> QED BY <1>3, <1>4, <1>5, ConfigureKeepsData, SendKeepsData DEF Next

LEMMA DataInvHolds == Spec => []DataInv
<1>1. Init => DataInv
  BY InitDataInv
<1>2. DataInv /\ [Next]_vars => DataInv'
  BY DataInvIsInductive
<1> QED BY <1>1, <1>2, PTL DEF Spec

\* However the helper sizes and fills the buffer, and whatever Send writes
\* into it later, m_dataSize is the length of the memory that goes into the
\* packet (sms-echo-client.cc:436-540).
THEOREM BuffersAreExact == Spec => []BufferIsExact
<1>1. DataInv => BufferIsExact
  BY DEF DataInv, BufferInv
<1> QED BY <1>1, DataInvHolds, PTL

\* A receiver that decodes as many records as the header tells reads no byte
\* that was never written, also where the count wraps around at 256 files
\* (sms-echo-client.cc:687-712).
THEOREM NoJunkIsDecoded == Spec => []DecodedBytesAreWritten
<1>1. DataInv => DecodedBytesAreWritten
  BY DEF DataInv
<1> QED BY <1>1, DataInvHolds, PTL

\* For every pattern and every size the loop and the two special copies of
\* SetFill leave the pattern repeated (sms-echo-client.cc:500-540).
THEOREM PatternsAreRepeated == Spec => FillsRepeatThePattern
<1>1. DataInv => \A fill \in Pattern, size \in DataSize :
                   FillRepeatsThePattern(fill, size)
  <2> SUFFICES ASSUME DataInv, NEW fill \in Pattern, NEW size \in DataSize,
                      SetFillPattern(fill, size), size > 0
               PROVE  m_data' = Repeated(fill, size)
    BY DEF FillRepeatsThePattern
  <2>1. Seq(Byte) \subseteq Seq(Cell)
    BY DEF Cell
  <2>2. fill \in Seq(Cell) /\ size \in Nat /\ size # 0 /\ BufferInv
    BY <2>1, BufferAssumption DEF DataInv
  <2> QED BY <2>2, SetFillPatternWrites
<1> QED BY <1>1, DataInvHolds, PTL DEF FillsRepeatThePattern

-----------------------------------------------------------------------------
(* How late an advertisement may be.                                       *)

\* The offset, Multiplier / own and the random part, at most.
LongestWait(limit) == (limit + Multiplier + 25) * TicksPerMs

\* No event is overdue, no count is larger than limit, and the advertisement
\* that is armed is at most the longest delay away.
WaitInv(limit) ==
  /\ \A e \in events : now <= e.at
  /\ full <= limit /\ maximum_full_files_seen <= limit
  /\ \A e \in events : e.what = "send" => e.at <= now + LongestWait(limit)

LEMMA DivIsSmaller ==
  ASSUME NEW a \in Nat, NEW b \in Nat \ {0}
  PROVE  a \div b <= a
<1>1. a < b * (a + 1)
  <2>1. PICK c \in Nat : b = c + 1
    <3>1. b - 1 \in Nat /\ b = (b - 1) + 1
      OBVIOUS
    <3> QED BY <3>1
  <2>2. c * (a + 1) \in Nat
    BY <2>1, SumIsNat, ProductIsNat
  <2>3. b * (a + 1) = c * (a + 1) + (a + 1)
    BY <2>1
  <2> QED BY <2>2, <2>3
<1> QED BY <1>1, SMT

LEMMA SumIsNotSmaller ==
  ASSUME NEW a \in Nat, NEW b \in Nat
  PROVE  a <= a + b
OBVIOUS

LEMMA ProductIsMonotone ==
  ASSUME NEW a \in Nat, NEW b \in Nat, NEW c \in Nat, a <= b
  PROVE  a * c <= b * c
<1>1. PICK d \in Nat : b = a + d
  <2>1. b - a \in Nat /\ b = a + (b - a)
    OBVIOUS
  <2> QED BY <2>1
<1>2. b * c = a * c + d * c
  BY <1>1
<1>3. a * c \in Nat /\ d * c \in Nat
  BY <1>1, ProductIsNat
<1> QED BY <1>2, <1>3

LEMMA AdvertisementDelayIsBounded ==
  ASSUME NEW limit \in Nat, NEW own \in Nat \ {0}, NEW seen \in 0 .. limit,
         NEW p \in SendJitter, NEW start \in BOOLEAN
  PROVE  AdvertisementDelay(start, own, seen, p) \in 0 .. LongestWait(limit)
<1> DEFINE t == TicksPerMs
<1>1. t \in Nat /\ Multiplier \in Nat /\ p \in Nat /\ p <= 15 * t
  BY DelaysAssumption
<1>2. (seen + 10) * t \in Nat /\ (seen + 10) * t <= (limit + 10) * t
  BY <1>1, ProductIsMonotone, ProductIsNat
<1>3. /\ Multiplier * t \in Nat /\ (Multiplier * t) \div own \in Nat
      /\ (Multiplier * t) \div own <= Multiplier * t
  BY <1>1, ProductIsNat, DivIsNat, DivIsSmaller
<1>4. LongestWait(limit) = (limit + 10) * t + Multiplier * t + 15 * t
  BY <1>1 DEF LongestWait
<1>5. (limit + 10) * t \in Nat
  BY <1>1, ProductIsNat
<1>6. AdvertisementDelay(start, own, seen, p)
        = (IF start THEN 0 ELSE (seen + 10) * t) + (Multiplier * t) \div own + p
  BY DEF AdvertisementDelay
<1> HIDE DEF t
<1> QED BY <1>1, <1>2, <1>3, <1>4, <1>5, <1>6

\* A step in which the clock does not pass an event, no count passes the limit
\* and an advertisement that is new is armed no later than the longest delay.
LEMMA WaitIsKept ==
  ASSUME TimerInv, NEW limit \in Nat, WaitInv(limit),
         now' \in Nat, now <= now', full' <= limit, maximum_full_files_seen' <= limit,
         \A e \in events' :
           \/ e \in events /\ now' <= e.at
           \/ \E wait \in Nat : /\ e.at = now' + wait
                                /\ e.what = "send" => wait <= LongestWait(limit)
  PROVE  WaitInv(limit)'
<1>1. now \in Nat /\ LongestWait(limit) \in Nat
  <2>1. limit + Multiplier + 25 \in Nat /\ TicksPerMs \in Nat
    BY DelaysAssumption
  <2> QED BY <2>1, ProductIsNat DEF LongestWait, TimerInv, EventsOK
<1>2. LongestWait(limit)' = LongestWait(limit)
  BY DEF LongestWait
<1>3. ASSUME NEW e \in events'
      PROVE  now' <= e.at /\ (e.what = "send" => e.at <= now' + LongestWait(limit))
  <2>1. CASE e \in events /\ now' <= e.at
    <3>1. e.at \in Nat
      BY <2>1 DEF TimerInv, EventsOK, Event
    <3> QED BY <1>1, <2>1, <3>1 DEF WaitInv
  <2>2. ASSUME NEW wait \in Nat, e.at = now' + wait,
               e.what = "send" => wait <= LongestWait(limit)
        PROVE  now' <= e.at /\ (e.what = "send" => e.at <= now' + LongestWait(limit))
    <3>1. now' <= e.at
      <4>1. e.at = now' + wait
        BY <2>2
      <4>2. now' <= now' + wait
        BY SumIsNotSmaller
      <4> QED BY <4>1, <4>2
    <3>2. ASSUME e.what = "send"
          PROVE  e.at <= now' + LongestWait(limit)
      <4>1. wait <= LongestWait(limit)
        BY <2>2, <3>2
      <4> QED BY <1>1, <2>2, <4>1
    <3> QED BY <3>1, <3>2
  <2> QED BY <2>1, <2>2
<1> QED BY <1>2, <1>3 DEF WaitInv

\* What the event that runs leaves is not overdue.
LEMMA NextEventIsFirst ==
  ASSUME TimerInv, NEW limit \in Nat, WaitInv(limit),
         NEW e \in events, NEW what, Expires(e, what)
  PROVE  now' \in Nat /\ now <= now' /\ \A d \in events : now' <= d.at
<1>1. now \in Nat /\ \A d \in events : d.at \in Nat
  BY DEF TimerInv, EventsOK, Event
<1> QED BY <1>1 DEF Expires, WaitInv

\* Steps that run an event and arm nothing.
LEMMA RunningKeepsWait ==
  ASSUME TimerInv, NEW limit \in Nat, WaitInv(limit),
         Send \/ RequestPacket \/ Reply \/ StopApplication \/ End
  PROVE  WaitInv(limit)'
<1>1. PICK e \in events, what \in {"send", "request", "reply", "stop", "end"} :
        Expires(e, what)
  BY DEF Send, RequestPacket, Reply, SendPacket, StopApplication, End
<1>2. events' \subseteq events
  BY DEF Send, RequestPacket, Reply, SendPacket, StopApplication, End, EventsAfterStop
<1>3. full' = full
  BY DEF Send, RequestPacket, Reply, SendPacket, StopApplication, End, counts
<1>4. maximum_full_files_seen' \in {maximum_full_files_seen,
                                    Larger(maximum_full_files_seen, full)}
  BY DEF Send, RequestPacket, Reply, SendPacket, StopApplication, End, counts
<1>5. full' <= limit /\ maximum_full_files_seen' <= limit
  BY <1>3, <1>4 DEF WaitInv, Larger
<1> QED BY <1>1, <1>2, <1>5, NextEventIsFirst, WaitIsKept

LEMMA StartKeepsWait ==
  ASSUME TimerInv, NEW limit \in Nat, WaitInv(limit), StartApplication
  PROVE  WaitInv(limit)'
<1>1. PICK e \in events, jitter \in SendJitter :
        /\ Expires(e, "start")
        /\ Schedule(events \ {e}, <<[what |-> "send",
             delay |-> AdvertisementDelay(TRUE, full, maximum_full_files_seen, jitter)]>>)
  BY DEF StartApplication
<1> DEFINE delay == AdvertisementDelay(TRUE, full, maximum_full_files_seen, jitter)
<1>2. delay \in 0 .. LongestWait(limit)
  <2>1. full \in Nat \ {0} /\ maximum_full_files_seen \in 0 .. limit
    BY DEF TimerInv, EventsOK, WaitInv
  <2> QED BY <2>1, AdvertisementDelayIsBounded
<1>3. Schedule(events \ {e}, <<[what |-> "send", delay |-> delay]>>)
  BY <1>1
<1> HIDE DEF delay
<1>4. events' = (events \ {e}) \cup {[uid |-> next_uid, what |-> "send",
                                      at |-> now' + delay]}
  BY <1>3, ScheduleSend DEF TimerInv
<1>5. delay \in Nat /\ delay <= LongestWait(limit)
  BY <1>2
<1>6. full' <= limit /\ maximum_full_files_seen' <= limit
  BY DEF StartApplication, counts, WaitInv
<1> QED BY <1>1, <1>4, <1>5, <1>6, NextEventIsFirst, WaitIsKept

\* The counts of a node: what it has, what it hears of, and what replies add.
LEMMA HandlersKeepLimit ==
  ASSUME EventsOK, NEW limit \in Nat, full <= limit, maximum_full_files_seen <= limit,
         AdvertisedCounts \subseteq 0 .. limit, MaxFiles <= limit, files \in Nat,
         HandleAdvertisement \/ HandleRequest \/ HandleReply
  PROVE  full' <= limit /\ maximum_full_files_seen' <= limit
<1>1. CASE HandleAdvertisement
  <2>1. PICK num \in AdvertisedCounts :
          maximum_full_files_seen' = Larger(maximum_full_files_seen, num)
    BY <1>1 DEF HandleAdvertisement
  <2>2. num <= limit /\ full' = full
    BY <1>1 DEF HandleAdvertisement
  <2> QED BY <2>1, <2>2 DEF Larger
<1>2. CASE HandleRequest
  BY <1>2 DEF HandleRequest, counts
<1>3. CASE HandleReply
  <2>1. CASE UNCHANGED counts
    BY <2>1 DEF counts
  <2>2. CASE /\ files' \in {files, files + 1} /\ files' <= MaxFiles
             /\ full' \in {full, full + 1} /\ full' <= files'
             /\ maximum_full_files_seen' = Larger(maximum_full_files_seen, full')
    <3>1. full' <= limit
      BY <2>2, BoundsAssumption DEF EventsOK
    <3> QED BY <2>2, <3>1 DEF Larger
  <2> QED BY <1>3, <2>1, <2>2 DEF HandleReply, AddNewChunk
<1> QED BY <1>1, <1>2, <1>3

LEMMA HandlersKeepWait ==
  ASSUME TimerInv, NEW limit \in Nat, WaitInv(limit), files \in Nat,
         AdvertisedCounts \subseteq 0 .. limit, MaxFiles <= limit,
         HandleAdvertisement \/ HandleRequest \/ HandleReply
  PROVE  WaitInv(limit)'
<1>1. /\ Hear /\ Rearms
      /\ now' \in Nat /\ full' \in Nat \ {0} /\ maximum_full_files_seen' \in Nat
  BY HandlerEffect DEF TimerInv
<1>2. full' <= limit /\ maximum_full_files_seen' <= limit
  BY HandlersKeepLimit DEF TimerInv, WaitInv
<1>3. now <= now'
  BY <1>1, TimesAssumption DEF Hear, TimerInv, EventsOK
<1>4. \A e \in events : now' <= e.at
  <2>1. \A e \in events : e.at \in Nat
    BY DEF TimerInv, EventsOK, Event
  <2>2. \A e \in events : now' <= e.at \/ now' < e.at
    BY <1>1 DEF Hear
  <2> QED BY <1>1, <2>1, <2>2
<1>5. CancelAllEvents \subseteq events
  BY CancelsAllTimers
<1>6. ASSUME NEW p \in SendJitter, NEW uid
      PROVE  \E wait \in Nat : /\ SendArmed(uid, p).at = now' + wait
                               /\ wait <= LongestWait(limit)
  <2> DEFINE wait == AdvertisementDelay(FALSE, full', maximum_full_files_seen', p)
  <2>1. wait \in 0 .. LongestWait(limit)
    <3>1. maximum_full_files_seen' \in 0 .. limit /\ full' \in Nat \ {0}
      BY <1>1, <1>2
    <3>2. FALSE \in BOOLEAN
      OBVIOUS
    <3> QED BY <3>1, <3>2, AdvertisementDelayIsBounded
  <2>2. SendArmed(uid, p).at = now' + wait
    BY DEF SendArmed
  <2> HIDE DEF wait
  <2> QED BY <2>1, <2>2
<1>7. ASSUME NEW what \in {"request", "reply"}, NEW delay \in Delays(what)
      PROVE  delay \in Nat /\ what # "send"
  <2>1. RequestDelay(full', 10 * TicksPerMs) \in Nat
    BY <1>1, LongestRequestDelayIsNat
  <2> QED BY <2>1 DEF Delays
<1>8. CASE \E p \in SendJitter : ArmsSend(p)
  BY <1>1, <1>2, <1>3, <1>4, <1>5, <1>6, <1>8, WaitIsKept DEF ArmsSend
<1>9. ASSUME NEW p \in SendJitter, NEW what \in {"request", "reply"},
             NEW delay \in Delays(what), ArmsTwo(what, delay, p)
      PROVE  WaitInv(limit)'
  <2> DEFINE r == [uid |-> next_uid, what |-> what, at |-> now' + delay]
             s == SendArmed(next_uid + 1, p)
  <2>1. events' = CancelAllEvents \cup {r, s}
    BY <1>9 DEF ArmsTwo
  <2>2. r.what # "send" /\ r.at = now' + delay /\ delay \in Nat
    BY <1>7
  <2>3. \E wait \in Nat : s.at = now' + wait /\ wait <= LongestWait(limit)
    BY <1>6
  <2> HIDE DEF r, s
  <2> QED BY <1>1, <1>2, <1>3, <1>4, <1>5, <2>1, <2>2, <2>3, WaitIsKept
<1> QED BY <1>1, <1>8, <1>9 DEF Rearms

LEMMA WaitInvIsInductive ==
  ASSUME NEW limit \in Nat, AdvertisedCounts \subseteq 0 .. limit, MaxFiles <= limit
  PROVE  TimerInv /\ CountsOK /\ WaitInv(limit) /\ [Next]_vars => WaitInv(limit)'
<1> SUFFICES ASSUME TimerInv, CountsOK, WaitInv(limit), [Next]_vars
             PROVE  WaitInv(limit)'
  OBVIOUS
<1>1. CASE Configure \/ UNCHANGED vars
  <2>1. UNCHANGED <<now, events, full, maximum_full_files_seen>>
    BY <1>1 DEF Configure, vars, counts
  <2> QED BY <2>1 DEF WaitInv, LongestWait
<1>2. CASE Destroy
  <2>1. UNCHANGED <<now, full, maximum_full_files_seen>> /\ events' = {}
    BY <1>2 DEF Destroy, counts
  <2> QED BY <2>1 DEF WaitInv, LongestWait
<1> QED BY <1>1, <1>2, RunningKeepsWait, StartKeepsWait, HandlersKeepWait
        DEF Next, CountsOK

\* A node whose counts are numbers of files it has or hears of, and not what
\* the memory held, never waits longer for its next advertisement than the
\* 90 s of sms-main.cc:81 (get_time_advertisement, sms-echo-client.cc:584-611).
THEOREM InitialisedNodesAdvertiseInTime ==
  ASSUME NEW limit \in Nat, limit + Multiplier + 25 <= 90000,
         FullCounts \cup Leftover \cup AdvertisedCounts \subseteq 0 .. limit,
         MaxFiles <= limit
  PROVE  Spec => []AdvertisementInTime
<1>1. Init => WaitInv(limit)
  <2> SUFFICES ASSUME Init PROVE WaitInv(limit)
    OBVIOUS
  <2>1. full \in 0 .. limit /\ maximum_full_files_seen <= limit
    BY CountsAssumption DEF Init, Larger
  <2>2. \A e \in events : now <= e.at /\ e.what # "send"
    BY TimesAssumption DEF Init
  <2> QED BY <2>1, <2>2 DEF WaitInv
<1>2. TimerInv /\ CountsOK /\ WaitInv(limit) /\ [Next]_vars => WaitInv(limit)'
  BY WaitInvIsInductive
<1>3. TimerInv /\ WaitInv(limit) => AdvertisementInTime
  <2> SUFFICES ASSUME TimerInv, WaitInv(limit), NEW e \in events, e.what = "send"
               PROVE  e.at <= now + 90000 * TicksPerMs
    BY DEF AdvertisementInTime
  <2>1. TicksPerMs \in Nat /\ limit + Multiplier + 25 \in Nat
    BY DelaysAssumption
  <2>2. LongestWait(limit) \in Nat /\ LongestWait(limit) <= 90000 * TicksPerMs
    BY <2>1, ProductIsMonotone, ProductIsNat DEF LongestWait
  <2>3. now \in Nat /\ e.at \in Nat /\ e.at <= now + LongestWait(limit)
    BY DEF TimerInv, EventsOK, Event, WaitInv
  <2> QED BY <2>1, <2>2, <2>3
<1>4. DataInv => CountsOK
  BY DEF DataInv
<1> QED BY <1>1, <1>2, <1>3, <1>4, TimerInvHolds, DataInvHolds, PTL DEF Spec
-----------------------------------------------------------------------------
(* Types.                                                                  *)

\* The variables TimerInv and DataInv leave out.
RestTyped ==
  /\ open \in BOOLEAN
  /\ m_stopTime \in StopTimes
  /\ heard \in Nat /\ fills \in Nat
  /\ status \in {"running", "ended", "destroyed", "assertion"} \cup Timer

LEMMA RestTypedIsInductive == RestTyped /\ [Next]_vars => RestTyped'
<1> SUFFICES ASSUME RestTyped, [Next]_vars PROVE RestTyped'
  OBVIOUS
<1>1. CASE Configure \/ StartApplication \/ UNCHANGED vars
  <2>1. /\ open' = open \/ open' = TRUE
        /\ m_stopTime' = m_stopTime /\ heard' = heard /\ status' = status
        /\ fills' = fills \/ fills' = fills + 1
    BY <1>1 DEF Configure, StartApplication, vars
  <2>2. open' \in BOOLEAN
    BY <2>1, Zenon DEF RestTyped
  <2> QED BY <2>1, <2>2 DEF RestTyped
<1>2. CASE Send
  BY <1>2 DEF RestTyped, Send, Timer
<1>3. CASE RequestPacket \/ Reply
  BY <1>3 DEF RestTyped, RequestPacket, Reply, SendPacket, Timer
<1>4. CASE HandleAdvertisement \/ HandleRequest \/ HandleReply
  BY <1>4 DEF RestTyped, HandleAdvertisement, HandleRequest, HandleReply, Hear
<1>5. CASE StopApplication \/ End \/ Destroy
  BY <1>5 DEF RestTyped, StopApplication, End, Destroy
<1> QED BY <1>1, <1>2, <1>3, <1>4, <1>5 DEF Next

\* Every variable keeps its type, whatever is scheduled, filled and heard.
THEOREM TypeCorrect == Spec => []TypeOK
<1>1. Init => RestTyped
  <2> SUFFICES ASSUME Init PROVE RestTyped
    OBVIOUS
  <2>1. open \in BOOLEAN
    BY Zenon DEF Init
  <2> QED BY <2>1 DEF Init, RestTyped
<1>2. RestTyped /\ [Next]_vars => RestTyped'
  BY RestTypedIsInductive
<1>3. TimerInv /\ DataInv /\ RestTyped => TypeOK
  BY DEF TimerInv, EventsOK, DataInv, CountsOK, BufferInv, RestTyped, TypeOK
<1> QED BY <1>1, <1>2, <1>3, TimerInvHolds, DataInvHolds, PTL DEF Spec
=============================================================================
