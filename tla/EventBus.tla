------------------------------ MODULE EventBus ------------------------------
(***************************************************************************)
(* The process-global event bus (src/src/events.rs).                       *)
(*                                                                         *)
(* publish runs under the bus's lock and never waits: a subscriber whose   *)
(* queue is full loses the event, and a count of what it lost is put in    *)
(* its queue when there is room.  Receiving is another thread.             *)
(***************************************************************************)
EXTENDS Naturals, Sequences, SeqOps

CONSTANTS
    Subscribers,     \* subscriptions, by the id the bus gives them
    Filters,         \* their filters: [session, types], {} for no filter
    MaxQueueDepth,   \* MAX_QUEUE_DEPTH
    MaxPublished     \* bound: events published

VARIABLES
    subs,        \* the bus's list of subscribers
    published,   \* history: number of events published
    due,         \* history: events that matched a subscriber's filters
    heard        \* history: what it received

busVars == <<subs, published, due, heard>>

-----------------------------------------------------------------------------
(* The vocabulary.                                                         *)

SessionTags == {"session.created", "session.detached", "pane.spawned", "pane.exited",
                "pane.focused", "pane.cwd_changed", "pane.prompt", "tab.added",
                "tab.renamed", "snapshot.saved"}

\* Event::session: a reload of the configuration belongs to no session.
SessionsOf(tag) == IF tag \in SessionTags THEN {"work"} ELSE {}

Notice(n) == [tag |-> "events.dropped", count |-> n]
IsNotice(e) == e.tag = "events.dropped"

\* subscriber_matches: an event with no session never passes a session filter.
SubscriberMatches(sub, tag) ==
    /\ sub.session_filter \subseteq SessionsOf(tag)
    /\ sub.type_filter # {} => tag \in sub.type_filter

-----------------------------------------------------------------------------
Attached == DOMAIN subs

BusInit ==
    /\ subs = <<>>
    /\ published = 0
    /\ due = [s \in Subscribers |-> 0]
    /\ heard = [s \in Subscribers |-> <<>>]

Subscribe(s, filter) ==
    /\ s \notin Attached /\ due[s] = 0
    /\ subs' = [x \in Attached \cup {s} |->
                  IF x # s THEN subs[x]
                  ELSE [session_filter |-> filter.session, type_filter |-> filter.types,
                        queue |-> <<>>, dropped |-> 0, prefer_payload |-> FALSE]]
    /\ UNCHANGED <<published, due, heard>>

\* Dropping the handle takes the subscriber off the list before its receiver
\* goes, so publish never meets a disconnected one.
Unsubscribe(s) ==
    /\ s \in Attached
    /\ subs' = [x \in Attached \ {s} |-> subs[x]]
    /\ UNCHANGED <<published, due, heard>>

\* SyncSender::try_send: there is room, or the event is refused.
Room(sub) == Len(sub.queue) < MaxQueueDepth

\* The payload, after any notice.
Offer(sub, e) ==
    IF Room(sub) THEN [sub EXCEPT !.queue = Append(@, e), !.prefer_payload = FALSE]
    ELSE [sub EXCEPT !.dropped = @ + 1]

\* Mutant of Deliver: an event refused behind a notice is not counted.
DeliverUncounted(sub, e) ==
    IF sub.dropped = 0 \/ sub.prefer_payload THEN Offer(sub, e)
    ELSE IF ~Room(sub) THEN sub
    ELSE Offer([sub EXCEPT !.queue = Append(@, Notice(sub.dropped)), !.dropped = 0,
                           !.prefer_payload = TRUE], e)

\* One turn of publish's loop: the notice goes first, and once it is sent the
\* next free slot is kept for data.
Deliver(sub, e) ==
    IF sub.dropped = 0 \/ sub.prefer_payload THEN Offer(sub, e)
    ELSE IF ~Room(sub) THEN [sub EXCEPT !.dropped = @ + 1]
    ELSE Offer([sub EXCEPT !.queue = Append(@, Notice(sub.dropped)), !.dropped = 0,
                           !.prefer_payload = TRUE], e)

Publish(tag) ==
    LET e == [tag |-> tag, n |-> published + 1]
        Hit(s) == s \in Attached /\ SubscriberMatches(subs[s], tag)
    IN  /\ published < MaxPublished
        /\ published' = published + 1
        /\ subs' = [s \in Attached |-> IF Hit(s) THEN Deliver(subs[s], e) ELSE subs[s]]
        /\ due' = [s \in Subscribers |-> IF Hit(s) THEN due[s] + 1 ELSE due[s]]
        /\ UNCHANGED heard

Receive(s) ==
    /\ s \in Attached /\ subs[s].queue # <<>>
    /\ heard' = [heard EXCEPT ![s] = Append(@, Head(subs[s].queue))]
    /\ subs' = [subs EXCEPT ![s].queue = Tail(@)]
    /\ UNCHANGED <<published, due>>

BusNext ==
    \/ \E s \in Subscribers, f \in Filters : Subscribe(s, f)
    \/ \E s \in Subscribers : Unsubscribe(s) \/ Receive(s)
    \/ \E tag \in {"pane.exited", "config.reloaded"} : Publish(tag)

-----------------------------------------------------------------------------
(* What a subscriber can rely on.                                          *)

Stream(s) == heard[s] \o subs[s].queue

\* How many events an entry of a stream stands for.
Stands(e) == IF IsNotice(e) THEN e.count ELSE 1
Weight(str) == [i \in 1 .. Len(str) |-> Stands(str[i])]

\* The events themselves come in the order of their publication, each once.
Ordered(str) ==
    \A i, j \in 1 .. Len(str) :
        i < j /\ ~IsNotice(str[i]) /\ ~IsNotice(str[j]) => str[i].n < str[j].n

\* "Clients can see exactly how many events they missed" (events.rs:31): the
\* data a subscriber gets, in order and without repetition, and the losses it is
\* told of or will be told of, add up to the events its filters let through.
LossesAccounted ==
    \A s \in Attached :
        /\ Total(Weight(Stream(s))) + subs[s].dropped = due[s]
        /\ Ordered(Stream(s))
=============================================================================
