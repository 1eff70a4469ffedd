------------------------------- MODULE Pager -------------------------------
(***************************************************************************)
(* The pager (packages/pager): a server that keeps the newest webhook      *)
(* events in memory and broadcasts them over websockets, and the pages     *)
(* that show them.  A page that connects is sent the history, if there is  *)
(* any, and from then on one message per event; when its socket closes it  *)
(* connects again after a delay.  Sockets close, the server restarts and   *)
(* the durable object that does its work at the edge hibernates, both with *)
(* an empty history, at any time.                                          *)
(*                                                                         *)
(* Abstractions.  An event is its number in the order of arrival.  What is *)
(* in a socket when it closes is lost.  How a page draws its rows, and how *)
(* long it waits before it connects again, are left out.                   *)
(***************************************************************************)
EXTENDS Naturals, SequencesExt

CONSTANTS
    Viewers,        \* open pages
    MAX_EVENTS,     \* length of the history (200)
    MaxPosted,      \* bound: events that arrive
    MaxOutages      \* bound: sockets that close, restarts, hibernations

ASSUME HistoryAssumption == MAX_EVENTS \in Nat /\ MaxPosted \in Nat /\ MaxOutages \in Nat

VARIABLES
    events,         \* the server's history, newest first
    posted,         \* number of events that have arrived
    conn,           \* [Viewers -> is the socket open]
    channel,        \* [Viewers -> messages on their way to the page]
    items,          \* [Viewers -> what the page shows, newest first]
    outages         \* number of faults so far

pagerVars == <<events, posted, conn, channel, items, outages>>

Event == 1..MaxPosted
Message == [type : {"history", "event"}, events : Seq(Event)]
History == [type |-> "history", events |-> events]
Single(e) == [type |-> "event", events |-> <<e>>]

PagerTypeOK ==
    /\ events \in Seq(Event) /\ Len(events) \leq MAX_EVENTS
    /\ posted \in 0..MaxPosted
    /\ conn \in [Viewers -> BOOLEAN]
    /\ channel \in [Viewers -> Seq(Message)]
    /\ items \in [Viewers -> Seq(Event)]
    /\ outages \in 0..MaxOutages

PagerInit ==
    /\ events = <<>>
    /\ posted = 0
    /\ conn = [v \in Viewers |-> FALSE]
    /\ channel = [v \in Viewers |-> <<>>]
    /\ items = [v \in Viewers |-> <<>>]
    /\ outages = 0

\* events.unshift(event); events.length = MAX_EVENTS
Remember_DropsNewest(e) == IF Len(events) = MAX_EVENTS THEN events ELSE <<e>> \o events
Remember_Unbounded(e) == <<e>> \o events
Remember(e) == SubSeq(<<e>> \o events, 1, Min({MAX_EVENTS, Len(events) + 1}))

\* handleWebhook: the event is kept and sent to every open socket in one turn of
\* the event loop, so that no socket opens in between.
Webhook_HistoryOnly ==
    /\ posted < MaxPosted
    /\ posted' = posted + 1
    /\ events' = Remember(posted + 1)
    /\ UNCHANGED <<conn, channel, items, outages>>
Webhook ==
    /\ posted < MaxPosted
    /\ posted' = posted + 1
    /\ events' = Remember(posted + 1)
    /\ channel' = [v \in Viewers |->
            IF conn[v] THEN Append(channel[v], Single(posted + 1)) ELSE channel[v]]
    /\ UNCHANGED <<conn, items, outages>>

\* open: an empty history is not sent.
Greeting == IF events = <<>> THEN <<>> ELSE <<History>>

\* connect, by the page when it loads and by its timer after onclose.
Connect(v) ==
    /\ ~conn[v]
    /\ conn' = [conn EXCEPT ![v] = TRUE]
    /\ channel' = [channel EXCEPT ![v] = Greeting]
    /\ UNCHANGED <<events, posted, items, outages>>

\* setEvents replaces what is shown, addEvent puts one event on top; neither
\* shortens the list to MAX_EVENTS.
Show_Merges(shown, m) == m.events \o shown
Show(shown, m) == IF m.type = "history" THEN m.events ELSE m.events \o shown

\* onmessage
Deliver(v) ==
    /\ channel[v] # <<>>
    /\ items' = [items EXCEPT ![v] = Show(items[v], Head(channel[v]))]
    /\ channel' = [channel EXCEPT ![v] = Tail(channel[v])]
    /\ UNCHANGED <<events, posted, conn, outages>>

Disconnect(v) ==
    /\ conn[v]
    /\ outages < MaxOutages
    /\ outages' = outages + 1
    /\ conn' = [conn EXCEPT ![v] = FALSE]
    /\ channel' = [channel EXCEPT ![v] = <<>>]
    /\ UNCHANGED <<events, posted, items>>

\* An idle durable object hibernates: its sockets stay open, but the history it
\* kept in a field is gone when the next event constructs it again.
Hibernate ==
    /\ outages < MaxOutages
    /\ outages' = outages + 1
    /\ events' = <<>>
    /\ UNCHANGED <<posted, conn, channel, items>>

\* The process ends: the history is gone, and with it every socket.
Restart ==
    /\ outages < MaxOutages
    /\ outages' = outages + 1
    /\ events' = <<>>
    /\ conn' = [v \in Viewers |-> FALSE]
    /\ channel' = [v \in Viewers |-> <<>>]
    /\ UNCHANGED <<posted, items>>

PagerNext ==
    \/ Webhook \/ Hibernate \/ Restart
    \/ \E v \in Viewers : Connect(v) \/ Deliver(v) \/ Disconnect(v)

PagerSpec == PagerInit /\ [][PagerNext]_pagerVars

\* A timer set by onclose fires, and an open socket delivers what was sent.  The
\* number of faults is finite, as MaxOutages makes it.
Fairness == \A v \in Viewers : WF_pagerVars(Connect(v)) /\ WF_pagerVars(Deliver(v))

PagerFairSpec == PagerSpec /\ Fairness

-----------------------------------------------------------------------------
(* Properties *)

\* A connected page follows the server: whenever it has read its socket, the newest
\* events it shows are exactly the server's history, in order, whatever was lost,
\* replayed or broadcast while it connected.  (Older events may follow: they are
\* not cut off, and outlive a restart of the server.)
ViewFollowsServer ==
    \A v \in Viewers : conn[v] /\ channel[v] = <<>> => IsPrefix(events, items[v])

\* No page ever shows an event twice, or an older one above a newer one, though
\* it gets the same event in a history and in a broadcast of different sockets.
NothingShownTwice ==
    \A v \in Viewers : \A i, j \in 1..Len(items[v]) : i < j => items[v][i] > items[v][j]

\* Every event the server has kept gets to every page, however its socket fails,
\* unless MAX_EVENTS newer ones or a restart of the server remove it first.
EventsReachViewers ==
    \A v \in Viewers, e \in Event :
        e \in ToSet(events) ~> (e \in ToSet(items[v]) \/ e \notin ToSet(events))

=============================================================================
