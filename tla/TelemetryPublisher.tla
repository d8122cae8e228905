--------------------------- MODULE TelemetryPublisher ---------------------------
(***************************************************************************)
(* TelemetryPublisher: a bounded queue that drops its oldest message, the   *)
(* task that numbers and sends what is left, and the task that follows the  *)
(* subscriptions, so that frames are made only while somebody watches.      *)
(* A message is its topic and the number of its offer; run ids and payloads *)
(* are left out, the publisher reads neither.                               *)
(***************************************************************************)
EXTENDS Naturals, Sequences, FiniteSets

CONSTANTS
    event_queue_size,
    Viewers,         \* subscriber sockets
    Filters,         \* the prefixes they subscribe to
    FrameFilters,    \* those that TOPIC_FRAME starts with
    MaxOffers,       \* bound: offers
    MaxChanges,      \* bound: subscriptions and their ends
    MaxFaults        \* bound: socket calls that raise

ASSUME PublisherAssumption ==
    /\ event_queue_size \in Nat \ {0} /\ FrameFilters \subseteq Filters
    /\ MaxOffers \in Nat /\ MaxChanges \in Nat /\ MaxFaults \in Nat

VARIABLES
    phase,          \* "serving", "closing" once the server leaves its loop, "closed"
    offers,         \* how many messages have entered the queue
    events,         \* _events
    sequences,      \* _sequences
    event_task,     \* where _event_loop is
    envelope,       \* what _send is sending
    published,      \* every message sent, in order
    interest,       \* what each viewer is subscribed to
    changes,        \* how often that has changed
    notices,        \* what XPUB has yet to tell of it
    subscription_task,
    frame_filters,  \* _frame_filters
    faults

queue_vars == <<offers, events, sequences, event_task, envelope, published>>
interest_vars == <<interest, changes, notices, subscription_task, frame_filters>>
vars == <<phase, queue_vars, interest_vars, faults>>

Topics == {"run", "episode", "frame"}
Message == [topic : Topics, offer : 1..MaxOffers]
Envelope == [topic : Topics, offer : 1..MaxOffers, sequence : Nat]
Notice == [subscribe : BOOLEAN, prefix : Filters]

has_frame_subscribers == frame_filters # {}

Init ==
    /\ phase = "serving"
    /\ offers = 0 /\ events = <<>> /\ sequences = [t \in Topics |-> 0]
    /\ event_task = "getting" /\ envelope = <<>> /\ published = <<>>
    /\ interest = [v \in Viewers |-> {}] /\ changes = 0 /\ notices = <<>>
    /\ subscription_task = "receiving" /\ frame_filters = {}
    /\ faults = 0

-----------------------------------------------------------------------------
\* Mutant of Offer: when the queue is full, the new message is the one dropped.
OfferIfRoom(topic) ==
    /\ phase # "closed" /\ offers < MaxOffers
    /\ topic = "frame" => has_frame_subscribers
    /\ offers' = offers + 1
    /\ events' = IF Len(events) < event_queue_size
                 THEN Append(events, [topic |-> topic, offer |-> offers + 1]) ELSE events
    /\ UNCHANGED <<phase, sequences, event_task, envelope, published, interest_vars, faults>>

\* Mutant of Offer: the queue has no limit.
OfferUnbounded(topic) ==
    /\ phase # "closed" /\ offers < MaxOffers
    /\ topic = "frame" => has_frame_subscribers
    /\ offers' = offers + 1
    /\ events' = Append(events, [topic |-> topic, offer |-> offers + 1])
    /\ UNCHANGED <<phase, sequences, event_task, envelope, published, interest_vars, faults>>

\* Mutant of Offer: the oldest goes before the queue is full.
OfferEager(topic) ==
    /\ phase # "closed" /\ offers < MaxOffers
    /\ topic = "frame" => has_frame_subscribers
    /\ offers' = offers + 1
    /\ events' = Append(IF Len(events) + 1 < event_queue_size \/ events = <<>> THEN events
                        ELSE Tail(events),
                        [topic |-> topic, offer |-> offers + 1])
    /\ UNCHANGED <<phase, sequences, event_task, envelope, published, interest_vars, faults>>

\* offer_run, offer_episode, and offer_frame while somebody watches; the server
\* makes them until it closes the publisher.
Offer(topic) ==
    /\ phase # "closed" /\ offers < MaxOffers
    /\ topic = "frame" => has_frame_subscribers
    /\ offers' = offers + 1
    /\ events' = Append(IF Len(events) < event_queue_size THEN events ELSE Tail(events),
                        [topic |-> topic, offer |-> offers + 1])
    /\ UNCHANGED <<phase, sequences, event_task, envelope, published, interest_vars, faults>>

\* Mutant of TakeEvent: a frame that nobody watches is numbered and then dropped.
TakeAndNumber ==
    /\ event_task = "getting" /\ events # <<>>
    /\ events' = Tail(events)
    /\ LET m == Head(events)
           n == sequences[m.topic]
       IN /\ sequences' = [sequences EXCEPT ![m.topic] = n + 1]
          /\ IF m.topic = "frame" /\ ~has_frame_subscribers
             THEN UNCHANGED <<event_task, envelope>>
             ELSE /\ envelope' = <<[topic |-> m.topic, offer |-> m.offer, sequence |-> n]>>
                  /\ event_task' = "sending"
    /\ UNCHANGED <<phase, offers, published, interest_vars, faults>>

\* Mutant of TakeEvent: the newest message is taken first.
TakeNewest ==
    /\ event_task = "getting" /\ events # <<>>
    /\ events' = SubSeq(events, 1, Len(events) - 1)
    /\ LET m == events[Len(events)]
           n == sequences[m.topic]
       IN IF m.topic = "frame" /\ ~has_frame_subscribers
          THEN UNCHANGED <<sequences, event_task, envelope>>
          ELSE /\ sequences' = [sequences EXCEPT ![m.topic] = n + 1]
               /\ envelope' = <<[topic |-> m.topic, offer |-> m.offer, sequence |-> n]>>
               /\ event_task' = "sending"
    /\ UNCHANGED <<phase, offers, published, interest_vars, faults>>

\* _event_loop from get to the await of _send.
TakeEvent ==
    /\ event_task = "getting" /\ events # <<>>
    /\ events' = Tail(events)
    /\ LET m == Head(events)
           n == sequences[m.topic]
       IN IF m.topic = "frame" /\ ~has_frame_subscribers
          THEN UNCHANGED <<sequences, event_task, envelope>>
          ELSE /\ sequences' = [sequences EXCEPT ![m.topic] = n + 1]
               /\ envelope' = <<[topic |-> m.topic, offer |-> m.offer, sequence |-> n]>>
               /\ event_task' = "sending"
    /\ UNCHANGED <<phase, offers, published, interest_vars, faults>>

SendEvent ==
    /\ event_task = "sending"
    /\ published' = published \o envelope
    /\ envelope' = <<>> /\ event_task' = "getting"
    /\ UNCHANGED <<phase, offers, events, sequences, interest_vars, faults>>

SendFails ==
    /\ event_task = "sending" /\ faults < MaxFaults
    /\ faults' = faults + 1
    /\ envelope' = <<>> /\ event_task' = "failed"
    /\ UNCHANGED <<phase, offers, events, sequences, published, interest_vars>>

-----------------------------------------------------------------------------
(* The subscriptions.  XPUB tells of the first subscription to a prefix and of *)
(* the end of the last one, also when a viewer disconnects.                    *)
Change(v, wanted, told) ==
    /\ phase # "closed" /\ changes < MaxChanges
    /\ changes' = changes + 1
    /\ interest' = [interest EXCEPT ![v] = wanted]
    /\ notices' = notices \o told
    /\ UNCHANGED <<phase, queue_vars, subscription_task, frame_filters, faults>>

Alone(v, f) == \A w \in Viewers \ {v} : f \notin interest[w]

Subscribe(v, f) ==
    /\ f \notin interest[v]
    /\ Change(v, interest[v] \union {f},
              IF Alone(v, f) THEN <<[subscribe |-> TRUE, prefix |-> f]>> ELSE <<>>)

Unsubscribe(v, f) ==
    /\ f \in interest[v]
    /\ Change(v, interest[v] \ {f},
              IF Alone(v, f) THEN <<[subscribe |-> FALSE, prefix |-> f]>> ELSE <<>>)

\* Mutant of Followed: one flag instead of a set of filters.
FollowedByFlag(notice) == IF notice.subscribe THEN frame_filters \union {notice.prefix} ELSE {}

\* What a notice makes of the filters.
Followed(notice) ==
    IF notice.subscribe THEN frame_filters \union {notice.prefix}
                        ELSE frame_filters \ {notice.prefix}

\* One round of _subscription_loop.
ReadNotice ==
    /\ subscription_task = "receiving" /\ notices # <<>>
    /\ notices' = Tail(notices)
    /\ frame_filters' = IF Head(notices).prefix \in FrameFilters
                        THEN Followed(Head(notices)) ELSE frame_filters
    /\ UNCHANGED <<phase, queue_vars, interest, changes, subscription_task, faults>>

ReadFails ==
    /\ subscription_task = "receiving" /\ faults < MaxFaults
    /\ faults' = faults + 1
    /\ subscription_task' = "failed"
    /\ UNCHANGED <<phase, queue_vars, interest, changes, notices, frame_filters>>

-----------------------------------------------------------------------------
(* The server: check in its service loop, close when it shuts down.         *)

\* Mutant of Check: only the subscriptions are looked after.
CheckSubscriptions ==
    /\ phase = "serving" /\ subscription_task = "failed"
    /\ phase' = "closing"
    /\ UNCHANGED <<queue_vars, interest_vars, faults>>

Check ==
    /\ phase = "serving" /\ "failed" \in {event_task, subscription_task}
    /\ phase' = "closing"
    /\ UNCHANGED <<queue_vars, interest_vars, faults>>

\* The server leaves its loop for a reason of its own.
Leave ==
    /\ phase = "serving" /\ phase' = "closing"
    /\ UNCHANGED <<queue_vars, interest_vars, faults>>

\* close discards what is queued and what is being sent.
Close ==
    /\ phase = "closing" /\ phase' = "closed"
    /\ event_task' = "none" /\ subscription_task' = "none"
    /\ envelope' = <<>> /\ frame_filters' = {}
    /\ UNCHANGED <<offers, events, sequences, published, interest, changes, notices, faults>>

Next ==
    \/ \E topic \in Topics : Offer(topic)
    \/ TakeEvent \/ SendEvent \/ SendFails
    \/ \E v \in Viewers, f \in Filters : Subscribe(v, f) \/ Unsubscribe(v, f)
    \/ ReadNotice \/ ReadFails
    \/ Check \/ Leave \/ Close

Spec == Init /\ [][Next]_vars

\* The event loop runs its ready tasks, and a server that shuts down does so.
FairSpec ==
    Spec /\ WF_vars(TakeEvent) /\ WF_vars(SendEvent) /\ WF_vars(Check) /\ WF_vars(Close)

-----------------------------------------------------------------------------
\* Every variable has the shape the code gives it; the queue has its limit.
TypeOK ==
    /\ phase \in {"serving", "closing", "closed"}
    /\ offers \in 0..MaxOffers
    /\ events \in Seq(Message) /\ Len(events) <= event_queue_size
    /\ sequences \in [Topics -> Nat]
    /\ event_task \in {"getting", "sending", "failed", "none"}
    /\ envelope \in Seq(Envelope) /\ (event_task = "sending" <=> Len(envelope) = 1)
    /\ published \in Seq(Envelope)
    /\ interest \in [Viewers -> SUBSET Filters] /\ changes \in 0..MaxChanges
    /\ notices \in Seq(Notice)
    /\ subscription_task \in {"receiving", "failed", "none"}
    /\ frame_filters \in SUBSET FrameFilters
    /\ faults \in 0..MaxFaults

\* The queue holds the newest messages there are, without a hole: at its limit it
\* is always the oldest that goes, whatever the topics.
NewestAreQueued ==
    \A i \in DOMAIN events : events[i].offer = offers - Len(events) + i

\* At its limit the queue gives way at the right end.
QueueIsNewest == TypeOK /\ NewestAreQueued

\* What is sent is sent in the order of the offers, over all topics.
SentInOrder ==
    LET leaving == published \o envelope
    IN /\ \A i, j \in DOMAIN leaving : i < j => leaving[i].offer < leaving[j].offer
       /\ \A i \in DOMAIN leaving, j \in DOMAIN events : leaving[i].offer < events[j].offer

\* Each topic is numbered 0, 1, 2... as it is sent: a gap that a viewer sees was
\* made by the network, never by the queue or by a pause in watching.
SequencesHaveNoGaps ==
    \A i \in DOMAIN published :
      LET earlier == {j \in 1..(i - 1) : published[j].topic = published[i].topic}
      IN published[i].sequence = Cardinality(earlier)

\* What viewers receive is in order, over all topics and within each, whatever they
\* subscribed to meanwhile.
SentAsOffered == SentInOrder /\ SequencesHaveNoGaps

\* A message is given up unsent only for a full queue, a frame that nobody
\* watches, a failed socket or the end.
NothingIsLostEarly ==
    [][events # <<>> /\ events' # events /\ phase' # "closed" =>
         LET m == Head(events)
         IN \/ \E i \in DOMAIN events' : events'[i] = m
            \/ \E i \in DOMAIN envelope' : envelope'[i].offer = m.offer
            \/ Len(events) = event_queue_size /\ offers' > offers
            \/ m.topic = "frame" /\ ~has_frame_subscribers]_vars

\* Once every notice is read, frames are made exactly if somebody's filter matches
\* them, through any order of overlapping filters of several viewers.
InterestIsKnown ==
    notices = <<>> /\ subscription_task = "receiving" =>
      (has_frame_subscribers <=> \E v \in Viewers : interest[v] \cap FrameFilters # {})

\* The last state that a run has offered is sent, unless something newer comes or
\* the server ends: no failure of the task leaves viewers waiting in silence.
LatestIsSent ==
    \A n \in 1..MaxOffers :
      offers = n /\ events # <<>> /\ events[Len(events)].topic # "frame" ~>
        \/ \E i \in DOMAIN published : published[i].offer = n
        \/ offers > n \/ phase = "closed"

\* Nothing is given up without a reason, and the latest state not at all.
NothingIsLost == NothingIsLostEarly /\ LatestIsSent
=================================================================================
