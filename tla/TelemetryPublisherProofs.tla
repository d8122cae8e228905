------------------------ MODULE TelemetryPublisherProofs ------------------------
(***************************************************************************)
(* Theorems about TelemetryPublisher, for a queue of any size, any viewers  *)
(* and filters, and any number of offers, changes and faults.               *)
(***************************************************************************)
EXTENDS TelemetryPublisher, FiniteSetTheorems, TLAPS

-----------------------------------------------------------------------------
(* The inductive invariant.                                                 *)

\* The queue holds what came last, and what left it came before that.
OlderHasLeft ==
    /\ NewestAreQueued
    /\ \A i \in DOMAIN published : published[i].offer <= offers - Len(events)
    /\ \A i, j \in DOMAIN published : i < j => published[i].offer < published[j].offer

\* What is being sent comes after what is sent and before what is queued.
SendingIsBetween ==
    /\ event_task # "sending" => envelope = <<>>
    /\ event_task = "sending" =>
         /\ envelope[1].offer <= offers - Len(events)
         /\ \A i \in DOMAIN published : published[i].offer < envelope[1].offer

\* The messages of topic t among the first n of s.
Among(s, t, n) == {j \in 1..n : s[j].topic = t}

\* The numbers that a topic has given out are those of its messages, the one that
\* is being sent included; a task that failed sends nothing more.
NumbersAreCounted ==
    /\ event_task = "getting" =>
         \A t \in Topics : sequences[t] = Cardinality(Among(published, t, Len(published)))
    /\ event_task = "sending" =>
         \A t \in Topics :
            sequences[t] = Cardinality(Among(published, t, Len(published)))
                             + IF t = envelope[1].topic THEN 1 ELSE 0
    /\ event_task = "sending" => envelope[1].sequence + 1 = sequences[envelope[1].topic]
    /\ \A i \in DOMAIN published :
         published[i].sequence = Cardinality(Among(published, published[i].topic, i - 1))

\* What the filters become when every notice is read: the last one about f counts.
WillFollow(f) ==
    \/ \E i \in DOMAIN notices :
         /\ notices[i].prefix = f /\ notices[i].subscribe
         /\ \A j \in DOMAIN notices : i < j => notices[j].prefix # f
    \/ f \in frame_filters /\ \A i \in DOMAIN notices : notices[i].prefix # f

Watched(f) == \E v \in Viewers : f \in interest[v]

\* Filters and notices together say what the viewers want, until the end.
NoticesTellAll ==
    subscription_task # "none" => \A f \in FrameFilters : WillFollow(f) <=> Watched(f)

\* The tasks are gone once the publisher is closed, and not before.
ClosedIsOver == phase = "closed" <=> subscription_task = "none"

IInv ==
    /\ TypeOK
    /\ OlderHasLeft
    /\ SendingIsBetween
    /\ NumbersAreCounted
    /\ NoticesTellAll
    /\ ClosedIsOver

-----------------------------------------------------------------------------
(* Lemmas about counting the messages of a topic.                           *)

\* There are only so many of them.
LEMMA CountIsNat ==
  ASSUME NEW s, NEW t, NEW n \in Nat
  PROVE  /\ IsFiniteSet(Among(s, t, n))
         /\ Cardinality(Among(s, t, n)) \in Nat
<1>1. IsFiniteSet(1..n)
  BY FS_Interval
<1>2. Among(s, t, n) \in SUBSET (1..n)
  BY DEF Among
<1>3. IsFiniteSet(Among(s, t, n))
  BY <1>1, <1>2, FS_Subset
<1> QED
  BY <1>3, FS_CardinalityType

\* One more message does not change the count of those before it.
LEMMA CountOfPrefix ==
  ASSUME NEW E, NEW s \in Seq(E), NEW e \in E, NEW t, NEW n \in 0..Len(s)
  PROVE  Among(Append(s, e), t, n) = Among(s, t, n)
<1>1. \A j \in 1..n : Append(s, e)[j] = s[j]
  OBVIOUS
<1> QED
  BY <1>1 DEF Among

\* One more message is one more of its topic.
LEMMA CountOneMore ==
  ASSUME NEW E, NEW s \in Seq(E), NEW e \in E, NEW t
  PROVE  Cardinality(Among(Append(s, e), t, Len(s) + 1)) =
           Cardinality(Among(s, t, Len(s))) + IF t = e.topic THEN 1 ELSE 0
<1> DEFINE n == Len(s)
           a == Append(s, e)
           old == Among(s, t, n)
<1>1. n \in Nat /\ a[n + 1] = e /\ \A j \in 1..n : a[j] = s[j]
  OBVIOUS
<1>2. IsFiniteSet(old) /\ Cardinality(old) \in Nat
  BY <1>1, CountIsNat
<1>3. (n + 1) \notin old
  BY <1>1 DEF Among
<1>4. 1..(n + 1) = (1..n) \union {n + 1}
  BY <1>1
<1>5. CASE t = e.topic
  <2>1. Among(a, t, n + 1) = old \union {n + 1}
    <3>1. Among(a, t, n + 1) = {j \in (1..n) \union {n + 1} : a[j].topic = t}
      BY <1>4 DEF Among
    <3> HIDE DEF a
    <3> QED
      BY <3>1, <1>1, <1>5 DEF Among
  <2>2. Cardinality(old \union {n + 1}) = Cardinality(old) + 1
    BY <1>2, <1>3, FS_AddElement
  <2> QED
    BY <2>1, <2>2, <1>5
<1>6. CASE t # e.topic
  <2>1. Among(a, t, n + 1) = old
    <3>1. Among(a, t, n + 1) = {j \in (1..n) \union {n + 1} : a[j].topic = t}
      BY <1>4 DEF Among
    <3> HIDE DEF a
    <3> QED
      BY <3>1, <1>1, <1>6 DEF Among
  <2> QED
    BY <2>1, <1>2, <1>6
<1> QED
  BY <1>5, <1>6

-----------------------------------------------------------------------------
(* What an offer and a take make of the queue.                              *)

\* The queue after an offer has its limit, and holds the newest.
LEMMA OfferedQueue ==
  ASSUME TypeOK, NewestAreQueued, NEW topic \in Topics, Offer(topic)
  PROVE  /\ events' \in Seq(Message) /\ Len(events') <= event_queue_size
         /\ NewestAreQueued'
         /\ offers' = offers + 1
         /\ Len(events') \in 1..(Len(events) + 1)
<1>1. PICK m : m = [topic |-> topic, offer |-> offers + 1]
  OBVIOUS
<1>2. m \in Message /\ m.offer = offers + 1
  BY <1>1, PublisherAssumption DEF Message, TypeOK, Offer
<1>3. offers \in Nat /\ events \in Seq(Message) /\ Len(events) \in Nat /\ event_queue_size \in Nat \ {0}
  BY PublisherAssumption DEF TypeOK
<1>4. offers' = offers + 1
  BY DEF Offer
<1>5. \A i \in 1..Len(events) : events[i].offer = offers - Len(events) + i
  BY <1>3 DEF NewestAreQueued
<1>6. CASE Len(events) < event_queue_size
  <2>1. events' = Append(events, m)
    BY <1>1, <1>6 DEF Offer
  <2>2. /\ events' \in Seq(Message) /\ Len(events') = Len(events) + 1
        /\ events'[Len(events) + 1] = m
        /\ \A i \in 1..Len(events) : events'[i] = events[i]
    BY <2>1, <1>2, <1>3
  <2>3. \A i \in 1..(Len(events) + 1) : i \in 1..Len(events) \/ i = Len(events) + 1
    BY <1>3
  <2>4. \A i \in DOMAIN events' : events'[i].offer = offers' - Len(events') + i
    BY <2>2, <2>3, <1>2, <1>3, <1>4, <1>5
  <2> QED
    BY <2>2, <2>4, <1>3, <1>4, <1>6 DEF NewestAreQueued
<1>7. CASE ~(Len(events) < event_queue_size)
  <2>1. Len(events) = event_queue_size /\ Len(events) >= 1
    BY <1>7, <1>3 DEF TypeOK
  <2>2. PICK rest : rest = Tail(events)
    OBVIOUS
  <2>3. /\ rest \in Seq(Message) /\ Len(rest) = Len(events) - 1
        /\ \A i \in 1..Len(rest) : rest[i] = events[i + 1]
    BY <2>1, <2>2, <1>3
  <2>4. events' = Append(rest, m)
    BY <1>1, <1>7, <2>2 DEF Offer
  <2>5. /\ events' \in Seq(Message) /\ Len(events') = Len(events)
        /\ events'[Len(events)] = m
        /\ \A i \in 1..Len(rest) : events'[i] = rest[i]
    BY <2>3, <2>4, <1>2, <1>3, <2>1
  <2>6. \A i \in 1..Len(events) : i \in 1..Len(rest) \/ i = Len(events)
    BY <1>3, <2>3
  <2>7. \A i \in 1..Len(rest) : events'[i].offer = offers - Len(events) + (i + 1)
    <3>1. \A i \in 1..Len(rest) : i + 1 \in 1..Len(events) /\ events'[i] = events[i + 1]
      BY <2>3, <2>5, <1>3
    <3> QED
      BY <3>1, <1>5
  <2>8. \A i \in DOMAIN events' : events'[i].offer = offers' - Len(events') + i
    BY <2>5, <2>6, <2>7, <1>2, <1>3, <1>4
  <2> QED
    BY <2>1, <2>5, <2>8, <1>3, <1>4 DEF NewestAreQueued
<1> QED
  BY <1>6, <1>7

\* What is taken is the oldest in the queue, and what stays is the newest.
LEMMA TakenQueue ==
  ASSUME TypeOK, NewestAreQueued, events # <<>>, events' = Tail(events), offers' = offers
  PROVE  /\ events' \in Seq(Message) /\ Len(events') = Len(events) - 1
         /\ Len(events) \in Nat \ {0} /\ Len(events') <= event_queue_size
         /\ NewestAreQueued'
         /\ Head(events) \in Message /\ Head(events).offer = offers - Len(events) + 1
<1>1. offers \in Nat /\ events \in Seq(Message) /\ Len(events) \in Nat \ {0} /\ event_queue_size \in Nat
  BY PublisherAssumption DEF TypeOK
<1>2. /\ events' \in Seq(Message) /\ Len(events') = Len(events) - 1
      /\ \A i \in 1..Len(events') : events'[i] = events[i + 1]
  BY <1>1
<1>3. \A i \in 1..Len(events) : events[i].offer = offers - Len(events) + i
  BY <1>1 DEF NewestAreQueued
<1>4. Head(events) = events[1] /\ events[1] \in Message
  BY <1>1
<1>5. \A i \in 1..Len(events') : events'[i].offer = offers - Len(events) + (i + 1)
  BY <1>1, <1>2, <1>3
<1>6. \A i \in DOMAIN events' : events'[i].offer = offers' - Len(events') + i
  BY <1>1, <1>2, <1>5
<1>7. Len(events') <= event_queue_size
  BY <1>1, <1>2 DEF TypeOK
<1> QED
  BY <1>1, <1>2, <1>3, <1>4, <1>6, <1>7 DEF NewestAreQueued

-----------------------------------------------------------------------------
(* Lemmas about the notices.                                                *)

\* A notice more decides about its filter, and about no other.
LEMMA LastNoticeCounts ==
  ASSUME notices \in Seq(Notice), NEW notice \in Notice, NEW f,
         notices' = Append(notices, notice), frame_filters' = frame_filters
  PROVE  WillFollow(f)' <=> IF notice.prefix = f THEN notice.subscribe ELSE WillFollow(f)
<1> DEFINE n == Len(notices)
<1>1. /\ n \in Nat /\ DOMAIN notices = 1..n /\ DOMAIN notices' = 1..(n + 1)
      /\ notices'[n + 1] = notice /\ \A i \in 1..n : notices'[i] = notices[i]
  OBVIOUS
<1>2. \A i \in 1..(n + 1) : i \in 1..n \/ i = n + 1
  BY <1>1
<1>3. \A i \in 1..n : i \in 1..(n + 1) /\ i < n + 1 /\ ~ (n + 1 < i)
  BY <1>1
<1>4. n + 1 \in 1..(n + 1) /\ ~ (n + 1 < n + 1)
  BY <1>1
<1>5. WillFollow(f)' <=>
        \/ \E i \in 1..(n + 1) :
             /\ notices'[i].prefix = f /\ notices'[i].subscribe
             /\ \A j \in 1..(n + 1) : i < j => notices'[j].prefix # f
        \/ f \in frame_filters /\ \A i \in 1..(n + 1) : notices'[i].prefix # f
  BY <1>1 DEF WillFollow
<1>6. WillFollow(f) <=>
        \/ \E i \in 1..n :
             /\ notices[i].prefix = f /\ notices[i].subscribe
             /\ \A j \in 1..n : i < j => notices[j].prefix # f
        \/ f \in frame_filters /\ \A i \in 1..n : notices[i].prefix # f
  BY <1>1 DEF WillFollow
<1> HIDE DEF n
<1>7. CASE notice.prefix = f
  BY <1>1, <1>2, <1>3, <1>4, <1>5, <1>7
<1>8. CASE notice.prefix # f
  BY <1>1, <1>2, <1>3, <1>4, <1>5, <1>6, <1>8
<1> QED
  BY <1>7, <1>8

\* Reading a notice changes the filters, and nothing of what they will become.
LEMMA ReadingTellsNothingNew ==
  ASSUME notices \in Seq(Notice), notices # <<>>, NEW f \in FrameFilters,
         notices' = Tail(notices),
         frame_filters' = IF Head(notices).prefix \in FrameFilters
                          THEN Followed(Head(notices)) ELSE frame_filters
  PROVE  WillFollow(f)' <=> WillFollow(f)
<1> DEFINE n == Len(notices)
<1>1. PICK notice : notice = Head(notices)
  OBVIOUS
<1>2. /\ n \in Nat \ {0} /\ DOMAIN notices = 1..n /\ DOMAIN notices' = 1..(n - 1)
      /\ notices[1] = notice /\ \A i \in 1..(n - 1) : notices'[i] = notices[i + 1]
      /\ notice \in Notice
  BY <1>1
<1>3. \A i \in 1..n : i = 1 \/ (i - 1 \in 1..(n - 1) /\ notices[i] = notices'[i - 1])
  <2>1. \A i \in 1..n : i = 1 \/ (i - 1 \in 1..(n - 1) /\ (i - 1) + 1 = i)
    BY <1>2
  <2> QED
    BY <2>1, <1>2
<1>4. \A i \in 1..(n - 1) : i + 1 \in 1..n /\ 1 < i + 1 /\ notices'[i] = notices[i + 1]
  BY <1>2
<1>5. f \in frame_filters' <=>
        IF notice.prefix = f THEN notice.subscribe ELSE f \in frame_filters
  BY <1>1, <1>2 DEF Followed, Notice
<1>6. WillFollow(f)' <=>
        \/ \E i \in 1..(n - 1) :
             /\ notices'[i].prefix = f /\ notices'[i].subscribe
             /\ \A j \in 1..(n - 1) : i < j => notices'[j].prefix # f
        \/ f \in frame_filters' /\ \A i \in 1..(n - 1) : notices'[i].prefix # f
  BY <1>2 DEF WillFollow
<1>7. WillFollow(f) <=>
        \/ \E i \in 1..n :
             /\ notices[i].prefix = f /\ notices[i].subscribe
             /\ \A j \in 1..n : i < j => notices[j].prefix # f
        \/ f \in frame_filters /\ \A i \in 1..n : notices[i].prefix # f
  BY <1>2 DEF WillFollow
<1>8. ASSUME WillFollow(f)'
      PROVE  WillFollow(f)
  <2>1. ASSUME NEW i \in 1..(n - 1), notices'[i].prefix = f, notices'[i].subscribe,
               \A j \in 1..(n - 1) : i < j => notices'[j].prefix # f
        PROVE  WillFollow(f)
    <3>1. ASSUME NEW j \in 1..n, i + 1 < j
          PROVE  notices[j].prefix # f
      <4>1. j - 1 \in 1..(n - 1) /\ i < j - 1 /\ notices[j] = notices'[j - 1]
        BY <1>2, <1>3, <3>1, <2>1
      <4> QED
        BY <4>1, <2>1
    <3> QED
      BY <3>1, <2>1, <1>4, <1>7
  <2>2. ASSUME f \in frame_filters', \A i \in 1..(n - 1) : notices'[i].prefix # f
        PROVE  WillFollow(f)
    <3>1. ASSUME NEW j \in 1..n, 1 < j
          PROVE  notices[j].prefix # f
      <4>1. j - 1 \in 1..(n - 1) /\ notices[j] = notices'[j - 1]
        BY <1>3, <3>1
      <4> QED
        BY <4>1, <2>2
    <3>2. CASE notice.prefix = f
      <4>1. 1 \in 1..n /\ notices[1].prefix = f /\ notices[1].subscribe
        BY <1>2, <1>5, <2>2, <3>2
      <4> QED
        BY <4>1, <3>1, <1>7
    <3>3. CASE notice.prefix # f
      <4>1. f \in frame_filters
        BY <1>5, <2>2, <3>3
      <4>2. \A j \in 1..n : notices[j].prefix # f
        BY <1>2, <1>3, <3>1, <3>3
      <4> QED
        BY <4>1, <4>2, <1>7
    <3> QED
      BY <3>2, <3>3
  <2> QED
    BY <2>1, <2>2, <1>6, <1>8
<1>9. ASSUME WillFollow(f)
      PROVE  WillFollow(f)'
  <2>1. ASSUME NEW i \in 1..n, notices[i].prefix = f, notices[i].subscribe,
               \A j \in 1..n : i < j => notices[j].prefix # f
        PROVE  WillFollow(f)'
    <3>1. CASE i = 1
      <4>1. \A j \in 1..(n - 1) : notices'[j].prefix # f
        BY <1>4, <2>1, <3>1
      <4>2. f \in frame_filters'
        BY <1>2, <1>5, <2>1, <3>1
      <4> QED
        BY <4>1, <4>2, <1>6
    <3>2. CASE i # 1
      <4>1. i - 1 \in 1..(n - 1) /\ notices[i] = notices'[i - 1]
        BY <1>3, <3>2
      <4>2. ASSUME NEW j \in 1..(n - 1), i - 1 < j
            PROVE  notices'[j].prefix # f
        <5>1. j + 1 \in 1..n /\ i < j + 1 /\ notices'[j] = notices[j + 1]
          BY <1>2, <1>4, <4>2
        <5> QED
          BY <5>1, <2>1
      <4> QED
        BY <4>1, <4>2, <2>1, <1>6
    <3> QED
      BY <3>1, <3>2
  <2>2. ASSUME f \in frame_filters, \A i \in 1..n : notices[i].prefix # f
        PROVE  WillFollow(f)'
    <3>1. \A j \in 1..(n - 1) : notices'[j].prefix # f
      BY <1>4, <2>2
    <3>2. f \in frame_filters'
      BY <1>2, <1>5, <2>2
    <3> QED
      BY <3>1, <3>2, <1>6
  <2> QED
    BY <2>1, <2>2, <1>7, <1>9
<1> QED
  BY <1>8, <1>9

-----------------------------------------------------------------------------
(* The queue, the task that sends, and the numbers.                         *)

QueueInv == OlderHasLeft /\ SendingIsBetween /\ NumbersAreCounted

\* The sequences that the queue's parts are, and the envelope that is one of them.
LEMMA QueueParts ==
  ASSUME TypeOK
  PROVE  /\ offers \in Nat /\ Len(events) \in Nat /\ Len(published) \in Nat
         /\ DOMAIN published = 1..Len(published) /\ DOMAIN events = 1..Len(events)
         /\ \A i \in 1..Len(published) :
              published[i] \in Envelope /\ published[i].offer \in Nat
         /\ event_task = "sending" => /\ Len(envelope) = 1 /\ envelope = <<envelope[1]>>
                                      /\ envelope[1] \in Envelope
<1>1. event_task = "sending" => Len(envelope) = 1 /\ envelope \in Seq(Envelope)
  BY DEF TypeOK
<1>2. event_task = "sending" => envelope = <<envelope[1]>> /\ envelope[1] \in Envelope
  <2> HIDE DEF Envelope
  <2> QED
    BY <1>1
<1>3. published \in Seq(Envelope) /\ events \in Seq(Message) /\ offers \in Nat
  BY PublisherAssumption DEF TypeOK
<1>4. \A m \in Envelope : m.offer \in Nat
  BY PublisherAssumption DEF Envelope
<1> QED
  BY <1>1, <1>2, <1>3, <1>4

LEMMA OfferKeepsQueue ==
  ASSUME TypeOK, QueueInv, NEW topic \in Topics, Offer(topic)
  PROVE  QueueInv'
<1>1. /\ NewestAreQueued' /\ offers' = offers + 1 /\ Len(events') \in 1..(Len(events) + 1)
  BY OfferedQueue DEF QueueInv, OlderHasLeft
<1>2. UNCHANGED <<sequences, event_task, envelope, published>>
  BY DEF Offer
<1>3. Len(events) \in Nat /\ offers \in Nat
  BY QueueParts
<1>4. offers - Len(events) <= offers' - Len(events')
  BY <1>1, <1>3
<1>5. \A m \in Nat : m <= offers - Len(events) => m <= offers' - Len(events')
  BY <1>1, <1>3, <1>4
<1>6. OlderHasLeft'
  <2>1. \A i \in DOMAIN published : published[i].offer \in Nat
    BY QueueParts
  <2> QED
    BY <1>1, <1>2, <1>5, <2>1 DEF QueueInv, OlderHasLeft
<1>7. SendingIsBetween'
  <2>1. event_task = "sending" => envelope[1].offer \in Nat
    BY QueueParts, PublisherAssumption DEF Envelope
  <2> QED
    BY <1>2, <1>5, <2>1 DEF QueueInv, SendingIsBetween
<1>8. NumbersAreCounted'
  BY <1>2 DEF QueueInv, NumbersAreCounted
<1> QED
  BY <1>6, <1>7, <1>8 DEF QueueInv

LEMMA TakeKeepsQueue ==
  ASSUME TypeOK, QueueInv, TakeEvent
  PROVE  QueueInv'
<1>1. /\ event_task = "getting" /\ events # <<>> /\ events' = Tail(events)
      /\ UNCHANGED <<offers, published>>
  BY DEF TakeEvent
<1>2. PICK m : m = Head(events)
  OBVIOUS
<1>3. /\ NewestAreQueued' /\ Len(events') = Len(events) - 1 /\ Len(events) \in Nat \ {0}
      /\ m \in Message /\ m.offer = offers - Len(events) + 1
  BY <1>1, <1>2, TakenQueue DEF QueueInv, OlderHasLeft
<1>4. /\ offers \in Nat /\ Len(published) \in Nat /\ DOMAIN published = 1..Len(published)
      /\ \A i \in DOMAIN published : published[i].offer \in Nat
  BY QueueParts
<1>5. \A i \in DOMAIN published : published[i].offer <= offers - Len(events)
  BY DEF QueueInv, OlderHasLeft
<1>6. OlderHasLeft'
  <2>1. \A i \in DOMAIN published : published[i].offer <= offers - Len(events')
    BY <1>3, <1>4, <1>5
  <2> QED
    BY <1>1, <1>3, <2>1 DEF QueueInv, OlderHasLeft
<1>7. CASE UNCHANGED <<sequences, event_task, envelope>>
  <2>1. SendingIsBetween'
    BY <1>1, <1>7 DEF QueueInv, SendingIsBetween
  <2>2. NumbersAreCounted'
    BY <1>1, <1>7 DEF QueueInv, NumbersAreCounted
  <2> QED
    BY <1>6, <2>1, <2>2 DEF QueueInv
<1>8. CASE ~ UNCHANGED <<sequences, event_task, envelope>>
  <2>1. PICK e : e = [topic |-> m.topic, offer |-> m.offer, sequence |-> sequences[m.topic]]
    OBVIOUS
  <2>2. /\ sequences' = [sequences EXCEPT ![m.topic] = sequences[m.topic] + 1]
        /\ envelope' = <<e>> /\ event_task' = "sending"
    BY <1>2, <1>8, <2>1 DEF TakeEvent
  <2>3. e.topic = m.topic /\ e.offer = m.offer /\ e.sequence = sequences[m.topic]
    BY <2>1
  <2>4. envelope'[1] = e
    BY <2>2
  <2>5. m.topic \in Topics /\ sequences \in [Topics -> Nat]
    BY <1>3 DEF Message, TypeOK
  <2>6. SendingIsBetween'
    <3>1. e.offer <= offers - Len(events')
      BY <1>3, <1>4, <2>3
    <3>2. \A i \in DOMAIN published : published[i].offer < e.offer
      BY <1>3, <1>4, <1>5, <2>3
    <3> QED
      BY <1>1, <2>2, <2>4, <3>1, <3>2 DEF SendingIsBetween
  <2>7. NumbersAreCounted'
    <3>1. \A t \in Topics : sequences[t] = Cardinality(Among(published, t, Len(published)))
      BY <1>1 DEF QueueInv, NumbersAreCounted
    <3>2. \A t \in Topics : sequences'[t] = sequences[t] + IF t = e.topic THEN 1 ELSE 0
      BY <2>2, <2>3, <2>5
    <3>3. sequences'[e.topic] = e.sequence + 1
      BY <2>2, <2>3, <2>5
    <3> QED
      BY <1>1, <2>2, <2>4, <3>1, <3>2, <3>3 DEF QueueInv, NumbersAreCounted
  <2> QED
    BY <1>6, <2>6, <2>7 DEF QueueInv
<1> QED
  BY <1>7, <1>8

LEMMA SendKeepsQueue ==
  ASSUME TypeOK, QueueInv, SendEvent
  PROVE  QueueInv'
<1>1. /\ event_task = "sending" /\ published' = published \o envelope
      /\ envelope' = <<>> /\ event_task' = "getting" /\ UNCHANGED <<offers, events, sequences>>
  BY DEF SendEvent
<1>2. PICK e : e = envelope[1]
  OBVIOUS
<1>3. e \in Envelope /\ published \in Seq(Envelope) /\ envelope = <<e>>
  BY <1>1, <1>2, QueueParts DEF TypeOK
<1>4. published' = Append(published, e)
  <2> HIDE DEF Envelope
  <2> QED
    BY <1>1, <1>3
<1> DEFINE n == Len(published)
<1>5. /\ n \in Nat /\ DOMAIN published = 1..n /\ DOMAIN published' = 1..(n + 1)
      /\ published'[n + 1] = e /\ \A i \in 1..n : published'[i] = published[i]
      /\ Len(published') = n + 1
  <2> HIDE DEF Envelope
  <2> QED
    BY <1>3, <1>4
<1>6. \A i \in 1..(n + 1) : i \in 1..n \/ i = n + 1
  BY <1>5
<1>7. OlderHasLeft'
  <2>1. /\ e.offer <= offers - Len(events)
        /\ \A i \in 1..n : published[i].offer < e.offer
    BY <1>1, <1>2, <1>5 DEF QueueInv, SendingIsBetween
  <2>2. \A i \in 1..(n + 1) : published'[i].offer <= offers - Len(events)
    BY <1>5, <1>6, <2>1 DEF QueueInv, OlderHasLeft
  <2>3. ASSUME NEW i \in 1..(n + 1), NEW j \in 1..(n + 1), i < j
        PROVE  published'[i].offer < published'[j].offer
    <3>1. i \in 1..n
      BY <1>5, <2>3
    <3>2. CASE j = n + 1
      BY <1>5, <2>1, <3>1, <3>2
    <3>3. CASE j \in 1..n
      BY <1>5, <2>3, <3>1, <3>3 DEF QueueInv, OlderHasLeft
    <3> QED
      BY <1>6, <3>2, <3>3
  <2>4. NewestAreQueued'
    BY <1>1 DEF QueueInv, OlderHasLeft, NewestAreQueued
  <2> QED
    BY <1>1, <1>5, <2>2, <2>3, <2>4 DEF OlderHasLeft
<1>8. SendingIsBetween'
  BY <1>1 DEF SendingIsBetween
<1>9. NumbersAreCounted'
  <2>1. /\ \A t \in Topics :
             sequences[t] = Cardinality(Among(published, t, n)) + IF t = e.topic THEN 1 ELSE 0
        /\ e.sequence + 1 = sequences[e.topic]
    BY <1>1, <1>2 DEF QueueInv, NumbersAreCounted
  <2>2. \A t : Cardinality(Among(published', t, n + 1)) =
                 Cardinality(Among(published, t, n)) + IF t = e.topic THEN 1 ELSE 0
    <3> HIDE DEF Envelope
    <3> QED
      BY <1>3, <1>4, CountOneMore
  <2>3. \A t : \A i \in 0..n : Among(published', t, i) = Among(published, t, i)
    <3> HIDE DEF Envelope
    <3> QED
      BY <1>3, <1>4, CountOfPrefix
  <2>4. ASSUME NEW i \in 1..(n + 1)
        PROVE  published'[i].sequence = Cardinality(Among(published', published'[i].topic, i - 1))
    <3>1. CASE i \in 1..n
      <4>1. published[i].sequence = Cardinality(Among(published, published[i].topic, i - 1))
        BY <1>5, <3>1 DEF QueueInv, NumbersAreCounted
      <4>2. i - 1 \in 0..n
        BY <1>5, <3>1
      <4> QED
        BY <1>5, <2>3, <3>1, <4>1, <4>2
    <3>2. CASE i = n + 1
      <4>1. e.topic \in Topics /\ e.sequence \in Nat
        BY <1>3 DEF Envelope
      <4>2. Cardinality(Among(published, e.topic, n)) \in Nat
        BY <1>5, CountIsNat
      <4>3. e.sequence = Cardinality(Among(published, e.topic, n))
        BY <2>1, <4>1, <4>2
      <4>4. Among(published', e.topic, n) = Among(published, e.topic, n)
        BY <1>5, <2>3
      <4>5. i - 1 = n
        BY <1>5, <3>2
      <4> QED
        BY <1>5, <3>2, <4>3, <4>4, <4>5
    <3> QED
      BY <1>6, <3>1, <3>2
  <2> QED
    BY <1>1, <1>5, <2>1, <2>2, <2>4 DEF NumbersAreCounted
<1> QED
  BY <1>7, <1>8, <1>9 DEF QueueInv

\* What fails, or is closed, sends nothing more.
LEMMA StoppingKeepsQueue ==
  ASSUME QueueInv, event_task' \in {"failed", "none"}, envelope' = <<>>,
         UNCHANGED <<offers, events, published>>
  PROVE  QueueInv'
<1>1. OlderHasLeft'
  BY DEF QueueInv, OlderHasLeft, NewestAreQueued
<1>2. SendingIsBetween'
  BY DEF SendingIsBetween
<1>3. NumbersAreCounted'
  BY DEF QueueInv, NumbersAreCounted
<1> QED
  BY <1>1, <1>2, <1>3 DEF QueueInv

LEMMA RestKeepsQueue ==
  ASSUME QueueInv, UNCHANGED queue_vars
  PROVE  QueueInv'
BY DEF QueueInv, queue_vars, OlderHasLeft, NewestAreQueued, SendingIsBetween, NumbersAreCounted

-----------------------------------------------------------------------------
(* The subscriptions.                                                       *)

InterestInv == NoticesTellAll /\ ClosedIsOver

\* A viewer that changes its mind tells of it exactly when it was alone with it.
LEMMA ChangeKeepsInterest ==
  ASSUME TypeOK, InterestInv, NEW v \in Viewers, NEW f \in Filters, NEW on \in BOOLEAN,
         (f \in interest[v]) # on,
         Change(v, IF on THEN interest[v] \union {f} ELSE interest[v] \ {f},
                IF Alone(v, f) THEN <<[subscribe |-> on, prefix |-> f]>> ELSE <<>>)
  PROVE  InterestInv' /\ notices' \in Seq(Notice) /\ interest' \in [Viewers -> SUBSET Filters]
<1>1. PICK notice : notice = [subscribe |-> on, prefix |-> f]
  OBVIOUS
<1>2. notice \in Notice /\ notice.subscribe = on /\ notice.prefix = f
  BY <1>1 DEF Notice
<1>3. /\ notices \in Seq(Notice) /\ interest \in [Viewers -> SUBSET Filters]
      /\ FrameFilters \subseteq Filters
  BY PublisherAssumption DEF TypeOK
<1>4. /\ UNCHANGED <<phase, subscription_task, frame_filters>>
      /\ interest' = [interest EXCEPT ![v] = IF on THEN interest[v] \union {f}
                                                   ELSE interest[v] \ {f}]
      /\ notices' = notices \o (IF Alone(v, f) THEN <<notice>> ELSE <<>>)
  BY <1>1 DEF Change
<1>5. interest' \in [Viewers -> SUBSET Filters]
  BY <1>3, <1>4
<1>6. \A w \in Viewers, g \in Filters :
        g \in interest'[w] <=> IF w = v /\ g = f THEN on ELSE g \in interest[w]
  BY <1>3, <1>4
<1>7. ClosedIsOver'
  BY <1>4 DEF InterestInv, ClosedIsOver
<1>8. CASE Alone(v, f)
  <2>1. notices' = Append(notices, notice) /\ notices' \in Seq(Notice)
    <3> HIDE DEF Notice
    <3> QED
      BY <1>2, <1>3, <1>4, <1>8
  <2>2. Watched(f)' <=> on
    BY <1>3, <1>6, <1>8 DEF Watched, Alone
  <2>3. \A g \in FrameFilters : g # f => (Watched(g)' <=> Watched(g))
    BY <1>3, <1>6 DEF Watched
  <2>4. \A g : WillFollow(g)' <=> IF notice.prefix = g THEN notice.subscribe ELSE WillFollow(g)
    <3> HIDE DEF Notice
    <3> QED
      BY <1>2, <1>3, <1>4, <2>1, LastNoticeCounts
  <2>5. NoticesTellAll'
    BY <1>2, <1>4, <2>2, <2>3, <2>4 DEF InterestInv, NoticesTellAll
  <2> QED
    BY <1>5, <1>7, <2>1, <2>5 DEF InterestInv
<1>9. CASE ~ Alone(v, f)
  <2>1. notices' = notices
    <3> HIDE DEF Notice
    <3> QED
      BY <1>3, <1>4, <1>9
  <2>2. PICK w \in Viewers \ {v} : f \in interest[w]
    BY <1>9 DEF Alone
  <2>3. \A g \in FrameFilters : Watched(g)' <=> Watched(g)
    BY <1>3, <1>6, <2>2 DEF Watched
  <2>4. \A g : WillFollow(g)' <=> WillFollow(g)
    BY <1>4, <2>1 DEF WillFollow
  <2>5. NoticesTellAll'
    BY <1>4, <2>3, <2>4 DEF InterestInv, NoticesTellAll
  <2> QED
    BY <1>3, <1>5, <1>7, <2>1, <2>5 DEF InterestInv
<1> QED
  BY <1>8, <1>9

LEMMA SubscribeKeepsInterest ==
  ASSUME TypeOK, InterestInv, NEW v \in Viewers, NEW f \in Filters,
         Subscribe(v, f) \/ Unsubscribe(v, f)
  PROVE  InterestInv' /\ notices' \in Seq(Notice) /\ interest' \in [Viewers -> SUBSET Filters]
<1>1. CASE Subscribe(v, f)
  <2>1. Change(v, IF TRUE THEN interest[v] \union {f} ELSE interest[v] \ {f},
               IF Alone(v, f) THEN <<[subscribe |-> TRUE, prefix |-> f]>> ELSE <<>>)
    BY <1>1 DEF Subscribe
  <2>2. f \notin interest[v]
    BY <1>1 DEF Subscribe
  <2> QED
    BY <2>1, <2>2, ChangeKeepsInterest
<1>2. CASE Unsubscribe(v, f)
  <2>1. Change(v, IF FALSE THEN interest[v] \union {f} ELSE interest[v] \ {f},
               IF Alone(v, f) THEN <<[subscribe |-> FALSE, prefix |-> f]>> ELSE <<>>)
    BY <1>2 DEF Unsubscribe
  <2>2. f \in interest[v]
    BY <1>2 DEF Unsubscribe
  <2> QED
    BY <2>1, <2>2, ChangeKeepsInterest
<1> QED
  BY <1>1, <1>2

LEMMA ReadKeepsInterest ==
  ASSUME TypeOK, InterestInv, ReadNotice
  PROVE  InterestInv' /\ notices' \in Seq(Notice) /\ frame_filters' \in SUBSET FrameFilters
<1>1. /\ notices \in Seq(Notice) /\ notices # <<>> /\ notices' = Tail(notices)
      /\ frame_filters' = IF Head(notices).prefix \in FrameFilters
                          THEN Followed(Head(notices)) ELSE frame_filters
      /\ UNCHANGED <<phase, interest, subscription_task>>
  BY DEF ReadNotice, TypeOK
<1>2. notices' \in Seq(Notice)
  <2> HIDE DEF Notice
  <2> QED
    BY <1>1
<1>3. frame_filters' \in SUBSET FrameFilters
  BY <1>1 DEF Followed, TypeOK
<1>4. \A f \in FrameFilters : WillFollow(f)' <=> WillFollow(f)
  BY <1>1, ReadingTellsNothingNew
<1>5. \A f : Watched(f)' <=> Watched(f)
  BY <1>1 DEF Watched
<1> QED
  BY <1>1, <1>2, <1>3, <1>4, <1>5 DEF InterestInv, NoticesTellAll, ClosedIsOver

\* Nothing else touches what the viewers want and what is known of it.
LEMMA RestKeepsInterest ==
  ASSUME InterestInv,
         UNCHANGED <<interest, notices, frame_filters>>,
         \/ UNCHANGED <<phase, subscription_task>>
         \/ /\ phase # "closed" /\ phase' # "closed"
            /\ subscription_task # "none" /\ subscription_task' # "none"
         \/ phase' = "closed" /\ subscription_task' = "none"
  PROVE  InterestInv'
<1>1. \A f : (WillFollow(f)' <=> WillFollow(f)) /\ (Watched(f)' <=> Watched(f))
  BY DEF WillFollow, Watched
<1> QED
  BY <1>1 DEF InterestInv, NoticesTellAll, ClosedIsOver

-----------------------------------------------------------------------------
(* The invariant holds.                                                     *)

LEMMA InitInvariant == Init => IInv
<1> SUFFICES ASSUME Init PROVE IInv
  OBVIOUS
<1>1. TypeOK
  BY PublisherAssumption DEF Init, TypeOK
<1>2. OlderHasLeft /\ SendingIsBetween
  BY DEF Init, OlderHasLeft, NewestAreQueued, SendingIsBetween
<1>3. NumbersAreCounted
  <2>1. \A t : Among(<<>>, t, 0) = {}
    BY DEF Among
  <2>2. Len(<<>>) = 0
    OBVIOUS
  <2>3. \A t : Cardinality(Among(<<>>, t, Len(<<>>))) = 0
    BY <2>1, <2>2, FS_EmptySet
  <2> QED
    BY <2>3 DEF Init, NumbersAreCounted
<1>4. NoticesTellAll /\ ClosedIsOver
  BY DEF Init, NoticesTellAll, WillFollow, Watched, ClosedIsOver
<1> QED
  BY <1>1, <1>2, <1>3, <1>4 DEF IInv

LEMMA StepInvariant == IInv /\ [Next]_vars => IInv'
<1> SUFFICES ASSUME IInv, [Next]_vars PROVE IInv'
  OBVIOUS
<1>0. TypeOK /\ QueueInv /\ InterestInv
  BY DEF IInv, QueueInv, InterestInv
<1> USE PublisherAssumption
<1>1. ASSUME NEW topic \in Topics, Offer(topic)
      PROVE  IInv'
  <2>1. TypeOK'
    <3>1. events' \in Seq(Message) /\ Len(events') <= event_queue_size
      BY <1>0, <1>1, OfferedQueue DEF QueueInv, OlderHasLeft
    <3>2. offers' \in 0..MaxOffers
      BY <1>0, <1>1 DEF TypeOK, Offer
    <3> QED
      BY <1>0, <1>1, <3>1, <3>2 DEF TypeOK, Offer, interest_vars
  <2>2. QueueInv'
    BY <1>0, <1>1, OfferKeepsQueue
  <2>3. InterestInv'
    BY <1>0, <1>1, RestKeepsInterest DEF Offer, interest_vars
  <2> QED
    BY <2>1, <2>2, <2>3 DEF IInv, QueueInv, InterestInv
<1>2. CASE TakeEvent
  <2>1. TypeOK'
    <3>1. events' \in Seq(Message) /\ Len(events') <= event_queue_size
          /\ Head(events) \in Message
      BY <1>0, <1>2, TakenQueue DEF QueueInv, OlderHasLeft, TakeEvent
    <3>2. CASE UNCHANGED <<sequences, event_task, envelope>>
      BY <1>0, <1>2, <3>1, <3>2 DEF TypeOK, TakeEvent, interest_vars
    <3>3. CASE ~ UNCHANGED <<sequences, event_task, envelope>>
      <4>1. PICK m : m = Head(events)
        OBVIOUS
      <4>2. PICK e : e = [topic |-> m.topic, offer |-> m.offer, sequence |-> sequences[m.topic]]
        OBVIOUS
      <4>3. /\ sequences' = [sequences EXCEPT ![m.topic] = sequences[m.topic] + 1]
            /\ envelope' = <<e>> /\ event_task' = "sending"
        BY <1>2, <3>3, <4>1, <4>2 DEF TakeEvent
      <4>4. sequences \in [Topics -> Nat] /\ m.topic \in Topics /\ m.offer \in 1..MaxOffers
        BY <1>0, <3>1, <4>1 DEF TypeOK, Message
      <4>5. sequences' \in [Topics -> Nat]
        BY <4>3, <4>4
      <4>6. e \in Envelope
        BY <4>2, <4>4 DEF Envelope
      <4>7. envelope' \in Seq(Envelope) /\ Len(envelope') = 1
        <5> HIDE DEF Envelope
        <5> QED
          BY <4>3, <4>6
      <4> QED
        BY <1>0, <1>2, <3>1, <4>3, <4>5, <4>7 DEF TypeOK, TakeEvent, interest_vars
    <3> QED
      BY <3>2, <3>3
  <2>2. QueueInv'
    BY <1>0, <1>2, TakeKeepsQueue
  <2>3. InterestInv'
    BY <1>0, <1>2, RestKeepsInterest DEF TakeEvent, interest_vars
  <2> QED
    BY <2>1, <2>2, <2>3 DEF IInv, QueueInv, InterestInv
<1>3. CASE SendEvent
  <2>1. TypeOK'
    <3>1. published' \in Seq(Envelope)
      <4> HIDE DEF Envelope
      <4> QED
        BY <1>0, <1>3 DEF TypeOK, SendEvent
    <3> QED
      BY <1>0, <1>3, <3>1 DEF TypeOK, SendEvent, interest_vars
  <2>2. QueueInv'
    BY <1>0, <1>3, SendKeepsQueue
  <2>3. InterestInv'
    BY <1>0, <1>3, RestKeepsInterest DEF SendEvent, interest_vars
  <2> QED
    BY <2>1, <2>2, <2>3 DEF IInv, QueueInv, InterestInv
<1>4. CASE SendFails
  <2>1. TypeOK'
    BY <1>0, <1>4 DEF TypeOK, SendFails, interest_vars
  <2>2. QueueInv'
    BY <1>0, <1>4, StoppingKeepsQueue DEF SendFails
  <2>3. InterestInv'
    BY <1>0, <1>4, RestKeepsInterest DEF SendFails, interest_vars
  <2> QED
    BY <2>1, <2>2, <2>3 DEF IInv, QueueInv, InterestInv
<1>5. ASSUME NEW v \in Viewers, NEW f \in Filters, Subscribe(v, f) \/ Unsubscribe(v, f)
      PROVE  IInv'
  <2>1. InterestInv' /\ notices' \in Seq(Notice) /\ interest' \in [Viewers -> SUBSET Filters]
    BY <1>0, <1>5, SubscribeKeepsInterest
  <2>2. /\ changes < MaxChanges /\ changes' = changes + 1
        /\ UNCHANGED <<phase, queue_vars, subscription_task, frame_filters, faults>>
    BY <1>5 DEF Subscribe, Unsubscribe, Change
  <2>3. TypeOK'
    BY <1>0, <2>1, <2>2 DEF TypeOK, queue_vars
  <2>4. QueueInv'
    BY <1>0, <2>2, RestKeepsQueue
  <2> QED
    BY <2>1, <2>3, <2>4 DEF IInv, QueueInv, InterestInv
<1>6. CASE ReadNotice
  <2>1. InterestInv' /\ notices' \in Seq(Notice) /\ frame_filters' \in SUBSET FrameFilters
    BY <1>0, <1>6, ReadKeepsInterest
  <2>2. TypeOK'
    BY <1>0, <1>6, <2>1 DEF TypeOK, ReadNotice, queue_vars
  <2>3. QueueInv'
    BY <1>0, <1>6, RestKeepsQueue DEF ReadNotice
  <2> QED
    BY <2>1, <2>2, <2>3 DEF IInv, QueueInv, InterestInv
<1>7. CASE ReadFails
  <2>1. TypeOK'
    BY <1>0, <1>7 DEF TypeOK, ReadFails, queue_vars
  <2>2. QueueInv'
    BY <1>0, <1>7, RestKeepsQueue DEF ReadFails
  <2>3. phase # "closed"
    BY <1>0, <1>7 DEF InterestInv, ClosedIsOver, ReadFails
  <2>4. InterestInv'
    BY <1>0, <1>7, <2>3, RestKeepsInterest DEF ReadFails
  <2> QED
    BY <2>1, <2>2, <2>4 DEF IInv, QueueInv, InterestInv
<1>8. CASE Check \/ Leave
  <2>1. TypeOK'
    BY <1>0, <1>8 DEF TypeOK, Check, Leave, queue_vars, interest_vars
  <2>2. QueueInv'
    BY <1>0, <1>8, RestKeepsQueue DEF Check, Leave
  <2>3. subscription_task # "none"
    BY <1>0, <1>8 DEF InterestInv, ClosedIsOver, Check, Leave
  <2>4. InterestInv'
    BY <1>0, <1>8, <2>3, RestKeepsInterest DEF Check, Leave, interest_vars
  <2> QED
    BY <2>1, <2>2, <2>4 DEF IInv, QueueInv, InterestInv
<1>9. CASE Close
  <2>1. TypeOK'
    BY <1>0, <1>9 DEF TypeOK, Close
  <2>2. QueueInv'
    BY <1>0, <1>9, StoppingKeepsQueue DEF Close
  <2>3. InterestInv'
    BY <1>9 DEF Close, InterestInv, NoticesTellAll, ClosedIsOver
  <2> QED
    BY <2>1, <2>2, <2>3 DEF IInv, QueueInv, InterestInv
<1>10. CASE UNCHANGED vars
  <2>1. TypeOK'
    BY <1>0, <1>10 DEF TypeOK, vars, queue_vars, interest_vars
  <2>2. QueueInv'
    BY <1>0, <1>10, RestKeepsQueue DEF vars
  <2>3. InterestInv'
    BY <1>0, <1>10, RestKeepsInterest DEF vars, interest_vars
  <2> QED
    BY <2>1, <2>2, <2>3 DEF IInv, QueueInv, InterestInv
<1> QED
  BY <1>1, <1>2, <1>3, <1>4, <1>5, <1>6, <1>7, <1>8, <1>9, <1>10 DEF Next

THEOREM Invariance == Spec => []IInv
BY InitInvariant, StepInvariant, PTL DEF Spec

-----------------------------------------------------------------------------
(* What the runs check.                                                     *)

\* At its limit the queue drops its oldest message and no other (offer): what it
\* holds is always the newest there is, without a hole.
THEOREM QueueHoldsTheNewest == Spec => []QueueIsNewest
<1>1. IInv => QueueIsNewest
  BY DEF IInv, OlderHasLeft, QueueIsNewest
<1> QED
  BY <1>1, Invariance, PTL

\* Viewers receive what was offered in the order of the offers, and each topic
\* without a gap in its numbers (_event_loop), however much was dropped before.
THEOREM SentInTheOrderOfOffers == Spec => []SentAsOffered
<1>1. IInv => SentAsOffered
  <2> SUFFICES ASSUME IInv PROVE SentAsOffered
    OBVIOUS
  <2>1. TypeOK /\ OlderHasLeft /\ SendingIsBetween /\ NumbersAreCounted
    BY DEF IInv
  <2>2. SequencesHaveNoGaps
    <3>1. \A t, n : Among(published, t, n) = {j \in 1..n : published[j].topic = t}
      BY DEF Among
    <3> QED
      BY <2>1, <3>1, ZenonT(30) DEF SequencesHaveNoGaps, NumbersAreCounted
  <2>3. SentInOrder
    <3> DEFINE n == Len(published)
    <3>1. /\ n \in Nat /\ DOMAIN published = 1..n /\ offers \in Nat /\ Len(events) \in Nat
          /\ DOMAIN events = 1..Len(events)
          /\ \A i \in 1..n : published[i].offer \in Nat
      BY <2>1, QueueParts
    <3>2. \A j \in DOMAIN events : events[j].offer = offers - Len(events) + j
      BY <2>1 DEF OlderHasLeft, NewestAreQueued
    <3>3. \A j \in DOMAIN events : events[j].offer \in Int /\ offers - Len(events) < events[j].offer
      BY <3>1, <3>2
    <3>4. PICK leaving : leaving = published \o envelope
      OBVIOUS
    <3>5. SUFFICES /\ \A i, j \in DOMAIN leaving : i < j => leaving[i].offer < leaving[j].offer
                   /\ \A i \in DOMAIN leaving, j \in DOMAIN events :
                        leaving[i].offer < events[j].offer
      BY <3>4 DEF SentInOrder
    <3>6. CASE event_task = "sending"
      <4>1. PICK e : e = envelope[1]
        OBVIOUS
      <4>2. e \in Envelope /\ envelope = <<e>> /\ published \in Seq(Envelope)
        BY <2>1, <3>6, <4>1, QueueParts DEF TypeOK
      <4>3. /\ DOMAIN leaving = 1..(n + 1) /\ leaving[n + 1] = e
            /\ \A i \in 1..n : leaving[i] = published[i]
        <5> HIDE DEF Envelope
        <5> QED
          BY <3>4, <4>2
      <4>4. e.offer \in Nat
        BY <4>2, PublisherAssumption DEF Envelope
      <4>5. e.offer <= offers - Len(events) /\ \A i \in 1..n : published[i].offer < e.offer
        BY <2>1, <3>1, <3>6, <4>1 DEF SendingIsBetween
      <4>6. \A i \in 1..(n + 1) : i \in 1..n \/ i = n + 1
        BY <3>1
      <4>7. \A i \in 1..(n + 1) : leaving[i].offer \in Nat
        BY <3>1, <4>3, <4>4, <4>6
      <4>8. \A i \in 1..(n + 1) : leaving[i].offer <= offers - Len(events)
        BY <2>1, <3>1, <4>3, <4>5, <4>6 DEF OlderHasLeft
      <4>9. ASSUME NEW i \in 1..(n + 1), NEW j \in 1..(n + 1), i < j
            PROVE  leaving[i].offer < leaving[j].offer
        <5>1. i \in 1..n
          BY <3>1, <4>9
        <5>2. CASE j = n + 1
          BY <4>3, <4>5, <5>1, <5>2
        <5>3. CASE j \in 1..n
          BY <2>1, <3>1, <4>3, <4>9, <5>1, <5>3 DEF OlderHasLeft
        <5> QED
          BY <4>6, <5>2, <5>3
      <4>10. \A i \in 1..(n + 1), j \in DOMAIN events : leaving[i].offer < events[j].offer
        BY <3>1, <3>3, <4>7, <4>8
      <4> QED
        BY <4>3, <4>9, <4>10
    <3>7. CASE event_task # "sending"
      <4>1. leaving = published
        <5>1. published \in Seq(Envelope) /\ envelope = <<>>
          BY <2>1, <3>7 DEF TypeOK, SendingIsBetween
        <5> HIDE DEF Envelope
        <5> QED
          BY <3>4, <5>1
      <4>2. \A i \in DOMAIN published : published[i].offer <= offers - Len(events)
        BY <2>1 DEF OlderHasLeft
      <4>3. \A i \in DOMAIN published, j \in DOMAIN events : published[i].offer < events[j].offer
        BY <3>1, <3>3, <4>2
      <4> QED
        BY <2>1, <4>1, <4>3 DEF OlderHasLeft
    <3> QED
      BY <3>6, <3>7
  <2> QED
    BY <2>2, <2>3 DEF SentAsOffered
<1> QED
  BY <1>1, Invariance, PTL

\* _subscription_loop knows who watches: however filters overlap and viewers come
\* and go, once the notices are read frames are made exactly if a viewer wants them.
THEOREM WatchersAreKnown == Spec => []InterestIsKnown
<1>1. IInv => InterestIsKnown
  <2> SUFFICES ASSUME IInv, notices = <<>>, subscription_task = "receiving"
               PROVE  has_frame_subscribers <=>
                        \E v \in Viewers : interest[v] \cap FrameFilters # {}
    BY DEF InterestIsKnown
  <2>1. \A f \in FrameFilters : WillFollow(f) <=> Watched(f)
    BY DEF IInv, NoticesTellAll
  <2>2. \A f \in FrameFilters : WillFollow(f) <=> f \in frame_filters
    BY DEF WillFollow
  <2>3. frame_filters \subseteq FrameFilters
    BY DEF IInv, TypeOK
  <2>4. has_frame_subscribers <=> \E f \in FrameFilters : Watched(f)
    BY <2>1, <2>2, <2>3 DEF has_frame_subscribers
  <2> QED
    BY <2>4 DEF Watched
<1> QED
  BY <1>1, Invariance, PTL

\* A message leaves the queue to be sent, for want of room, or as a frame that
\* nobody watches (offer, _event_loop), and for no other reason.
THEOREM NothingIsGivenUpEarly == Spec => NothingIsLostEarly
<1> DEFINE m == Head(events)
           Kept == \/ \E i \in DOMAIN events' : events'[i] = m
                   \/ \E i \in DOMAIN envelope' : envelope'[i].offer = m.offer
                   \/ Len(events) = event_queue_size /\ offers' > offers
                   \/ m.topic = "frame" /\ ~has_frame_subscribers
           Reasoned == events # <<>> /\ events' # events /\ phase' # "closed" => Kept
<1>1. IInv /\ [Next]_vars => Reasoned
  <2> SUFFICES ASSUME IInv, [Next]_vars, events # <<>>, events' # events
               PROVE  Kept
    OBVIOUS
  <2> HIDE DEF m
  <2>1. /\ offers \in Nat /\ events \in Seq(Message) /\ Len(events) \in Nat \ {0}
        /\ Len(events) <= event_queue_size /\ event_queue_size \in Nat
    BY PublisherAssumption DEF IInv, TypeOK
  <2>2. m = events[1]
    BY <2>1 DEF m
  <2>3. ASSUME NEW topic \in Topics, Offer(topic)
        PROVE  Kept
    <3>1. offers' = offers + 1
      BY <2>3 DEF Offer
    <3>2. CASE Len(events) < event_queue_size
      <4>1. PICK new : new = [topic |-> topic, offer |-> offers + 1]
        OBVIOUS
      <4>2. events' = Append(events, new)
        BY <2>3, <3>2, <4>1 DEF Offer
      <4>3. 1 \in DOMAIN events' /\ events'[1] = events[1]
        <5> HIDE DEF Message
        <5> QED
          BY <2>1, <4>2
      <4> QED
        BY <2>2, <4>3
    <3>3. CASE ~(Len(events) < event_queue_size)
      BY <2>1, <3>1, <3>3
    <3> QED
      BY <3>2, <3>3
  <2>4. CASE TakeEvent
    <3>1. CASE m.topic = "frame" /\ ~has_frame_subscribers
      BY <3>1
    <3>2. CASE ~(m.topic = "frame" /\ ~has_frame_subscribers)
      <4>1. PICK e : e = [topic |-> m.topic, offer |-> m.offer, sequence |-> sequences[m.topic]]
        OBVIOUS
      <4>2. envelope' = <<e>>
        BY <2>4, <3>2, <4>1 DEF TakeEvent, m
      <4>3. 1 \in DOMAIN envelope' /\ envelope'[1].offer = m.offer
        BY <4>1, <4>2
      <4> QED
        BY <4>3
    <3> QED
      BY <3>1, <3>2
  <2> QED
    BY <2>3, <2>4 DEF Next, SendEvent, SendFails, Subscribe, Unsubscribe, Change, ReadNotice,
         ReadFails, Check, Leave, Close, vars, queue_vars, interest_vars
<1>2. IInv /\ [Next]_vars => [Reasoned]_vars
  BY <1>1
<1>3. Spec => [][Reasoned]_vars
  BY <1>2, Invariance, PTL DEF Spec
<1> QED
  BY <1>3 DEF NothingIsLostEarly

=============================================================================
