---------------------------- MODULE ReplicaProofs ----------------------------
(***************************************************************************)
(* Theorems about the parts of the system that keep a copy of what another *)
(* part holds: the pages of the pager (Pager) for any number of pages and  *)
(* events, and the desktop's database (DesktopSync) for every set of       *)
(* accounts, rules and alerts.  The two share no state.                      *)
(***************************************************************************)
EXTENDS DesktopSync, Pager, SequenceTheorems, TLAPS

-----------------------------------------------------------------------------
(* Pager *)

\* The history is a run of the newest events, newest first.
HistoryInOrder ==
    /\ Len(events) <= posted
    /\ \A i \in 1..Len(events) : events[i] = posted - i + 1

\* What is in a socket begins with a history that was not read yet.
Greeted(c) == c # <<>> /\ c[1].type = "history"

\* In a socket, what was broadcast after event b, behind at most one history.
Broadcasts(c, b) ==
    \A j \in 1..Len(c) :
        \/ c[j] = Single(b + j)
        \/ j = 1 /\ c[j].type = "history"

\* This history continues the broadcasts downwards as far as the n events of the
\* server's own.
Replay(c, b, n) ==
    Greeted(c) =>
        /\ n < Len(c[1].events) + Len(c)
        /\ \A i \in 1..Len(c[1].events) : c[1].events[i] = b + 2 - i

\* Without one, it is what the page shows that continues them.
Continued(c, shown, b, n) ==
    ~Greeted(c) =>
        /\ n <= Len(shown) + Len(c)
        /\ \A i \in 1..Len(shown) :
             /\ shown[i] <= b
             /\ i + Len(c) <= n => shown[i] = b + 1 - i

\* A page shows events that have arrived, and a closed socket is empty.
SocketInOrder(v) ==
    LET b == posted - Len(channel[v]) IN
    /\ \A i \in 1..Len(items[v]) : items[v][i] <= posted
    /\ Broadcasts(channel[v], b)
    /\ Replay(channel[v], b, Len(events))
    /\ IF conn[v] THEN Continued(channel[v], items[v], b, Len(events)) ELSE channel[v] = <<>>

Descending(s) == \A i, j \in 1..Len(s) : i < j => s[i] > s[j]

PagesInv ==
    /\ PagerTypeOK
    /\ HistoryInOrder
    /\ \A v \in Viewers : SocketInOrder(v)
    /\ NothingShownTwice

\* The new history: the event on top, the oldest one dropped when it is full.
LEMMA Remembered ==
    ASSUME NEW S, NEW e \in S, events \in Seq(S)
    PROVE  /\ Remember(e) \in Seq(S)
           /\ Len(Remember(e)) <= Len(events) + 1
           /\ Len(Remember(e)) <= MAX_EVENTS
           /\ \A i \in 1..Len(Remember(e)) :
                Remember(e)[i] = IF i = 1 THEN e ELSE events[i - 1]
<1> DEFINE s == <<e>> \o events
           n == Min({MAX_EVENTS, Len(events) + 1})
<1>1. /\ s \in Seq(S) /\ Len(s) = Len(events) + 1
      /\ \A i \in 1..Len(s) : s[i] = IF i = 1 THEN e ELSE events[i - 1]
  OBVIOUS
<1>2. n \in Nat /\ n <= MAX_EVENTS /\ n <= Len(events) + 1
  <2>1. \E x \in {MAX_EVENTS, Len(events) + 1} : \A y \in {MAX_EVENTS, Len(events) + 1} : x <= y
    BY HistoryAssumption
  <2> QED BY HistoryAssumption, <2>1 DEF Min
<1>3. Remember(e) = SubSeq(s, 1, n)
  BY DEF Remember
<1> HIDE DEF s, n
<1>4. /\ SubSeq(s, 1, n) \in Seq(S) /\ Len(SubSeq(s, 1, n)) = n
      /\ \A i \in 1..n : SubSeq(s, 1, n)[i] = s[i]
  BY <1>1, <1>2
<1> QED
  BY <1>1, <1>2, <1>3, <1>4

\* Every variable keeps its type, and the history its length.
LEMMA PagesTypeStep ==
    ASSUME PagerTypeOK, [PagerNext]_pagerVars
    PROVE  PagerTypeOK'
<1> USE HistoryAssumption DEF PagerTypeOK
<1> /\ History \in Message
    /\ \A e \in Event : Single(e) \in Message
  BY DEF History, Single, Message
<1>1. CASE Webhook
  <2>1. posted + 1 \in Event /\ posted' \in 0..MaxPosted
    BY <1>1 DEF Webhook, Event
  <2>2. events' \in Seq(Event) /\ Len(events') <= MAX_EVENTS
    BY <1>1, <2>1, Remembered DEF Webhook
  <2>3. channel' \in [Viewers -> Seq(Message)]
    BY <1>1, <2>1 DEF Webhook
  <2> QED BY <1>1, <2>1, <2>2, <2>3 DEF Webhook
<1>2. ASSUME NEW v \in Viewers, Connect(v) PROVE PagerTypeOK'
  <2>1. Greeting \in Seq(Message)
    BY DEF Greeting
  <2> QED BY <1>2, <2>1 DEF Connect
<1>3. ASSUME NEW v \in Viewers, Deliver(v) PROVE PagerTypeOK'
  <2>1. Head(channel[v]) \in Message /\ Tail(channel[v]) \in Seq(Message)
    BY <1>3 DEF Deliver
  <2>2. Show(items[v], Head(channel[v])) \in Seq(Event)
    BY <2>1 DEF Show, Message
  <2> QED BY <1>3, <2>1, <2>2 DEF Deliver
<1>4. ASSUME NEW v \in Viewers, Disconnect(v) PROVE PagerTypeOK'
  BY <1>4 DEF Disconnect
<1>5. CASE Hibernate
  BY <1>5 DEF Hibernate
<1>6. CASE Restart
  BY <1>6 DEF Restart
<1>7. CASE UNCHANGED pagerVars
  BY <1>7 DEF pagerVars
<1> QED
  BY <1>1, <1>2, <1>3, <1>4, <1>5, <1>6, <1>7 DEF PagerNext

\* The history stays a run of the newest events.
LEMMA HistoryStep ==
    ASSUME PagerTypeOK, HistoryInOrder, [PagerNext]_pagerVars
    PROVE  HistoryInOrder'
<1>1. CASE Webhook
  <2>1. posted \in Nat /\ posted + 1 \in Event /\ events \in Seq(Event)
    BY HistoryAssumption, <1>1 DEF Webhook, Event, PagerTypeOK
  <2>2. /\ posted' = posted + 1 /\ events' \in Seq(Event)
        /\ Len(events') <= Len(events) + 1
        /\ \A i \in 1..Len(events') : events'[i] = IF i = 1 THEN posted + 1 ELSE events[i - 1]
    BY <1>1, <2>1, Remembered DEF Webhook
  <2>3. ASSUME NEW i \in 1..Len(events'), i # 1 PROVE events[i - 1] = posted - (i - 1) + 1
    <3>1. i - 1 \in 1..Len(events)
      BY <2>1, <2>2, <2>3
    <3> QED BY <3>1 DEF HistoryInOrder
  <2> QED BY <2>1, <2>2, <2>3 DEF HistoryInOrder
<1>2. CASE UNCHANGED <<events, posted>>
  BY <1>2 DEF HistoryInOrder
<1>3. CASE events' = <<>> /\ UNCHANGED posted
  BY <1>3 DEF HistoryInOrder, PagerTypeOK
<1> QED
  BY <1>1, <1>2, <1>3
     DEF PagerNext, pagerVars, Connect, Deliver, Disconnect,
         Hibernate,
         Restart

\* A broadcast is put behind what is in the socket.
LEMMA Appended ==
    ASSUME NEW c \in Seq(Message), NEW shown \in Seq(Nat), NEW b \in Int,
           NEW n \in Nat, NEW n2 \in Nat, n2 <= n + 1,
           NEW m \in Message, m = Single(b + (Len(c) + 1)),
           Broadcasts(c, b), Replay(c, b, n), Continued(c, shown, b, n)
    PROVE  /\ Broadcasts(Append(c, m), b)
           /\ Replay(Append(c, m), b, n2)
           /\ Continued(Append(c, m), shown, b, n2)
<1> DEFINE d == Append(c, m)
<1>1. /\ Len(d) = Len(c) + 1
      /\ \A j \in 1..Len(c) : d[j] = c[j]
      /\ d[Len(c) + 1] = m
  OBVIOUS
<1>2. (c = <<>> <=> Len(c) = 0) /\ d # <<>> /\ Len(c) \in Nat
  BY EmptySeq, AppendProperties
<1> HIDE DEF d
<1>3. Greeted(d) <=> Greeted(c)
  BY <1>1, <1>2 DEF Greeted, Single
<1>4. Broadcasts(d, b)
  <2> SUFFICES ASSUME NEW j \in 1..Len(d)
               PROVE  d[j] = Single(b + j) \/ (j = 1 /\ d[j].type = "history")
    BY DEF Broadcasts
  <2>1. CASE j \in 1..Len(c)
    BY <1>1, <2>1 DEF Broadcasts
  <2>2. CASE j = Len(c) + 1
    BY <1>1, <1>2, <2>2
  <2> QED BY <1>1, <1>2, <2>1, <2>2
<1>5. Replay(d, b, n2)
  <2> SUFFICES ASSUME Greeted(c)
               PROVE  /\ n2 < Len(d[1].events) + Len(d)
                      /\ \A i \in 1..Len(d[1].events) : d[1].events[i] = b + 2 - i
    BY <1>3 DEF Replay
  <2> DEFINE h == c[1].events
  <2>1. d[1] = c[1] /\ Len(h) \in Nat
    BY <1>1, <1>2 DEF Greeted, Message
  <2>2. /\ n < Len(h) + Len(c)
        /\ \A i \in 1..Len(h) : h[i] = b + 2 - i
    BY DEF Replay
  <2>3. d[1].events = h
    BY <2>1
  <2>4. Len(d) = Len(c) + 1 /\ Len(c) \in Nat
    BY <1>1, <1>2
  <2> HIDE DEF h
  <2>5. n2 < Len(h) + Len(d)
    BY <2>1, <2>2, <2>4
  <2> QED BY <2>2, <2>3, <2>5
<1>6. Continued(d, shown, b, n2)
  <2> SUFFICES ASSUME ~Greeted(c)
               PROVE  /\ n2 <= Len(shown) + Len(d)
                      /\ \A i \in 1..Len(shown) :
                           /\ shown[i] <= b
                           /\ i + Len(d) <= n2 => shown[i] = b + 1 - i
    BY <1>3 DEF Continued
  <2> QED BY <1>1, <1>2 DEF Continued
<1> QED BY <1>4, <1>5, <1>6 DEF d

\* A page reads its socket: a history is shown for what was shown before, a
\* broadcast above it.
LEMMA Delivered ==
    ASSUME NEW c \in Seq(Message), c # <<>>, NEW shown \in Seq(Nat),
           NEW b \in Int, NEW n \in Nat,
           \A i \in 1..Len(shown) : shown[i] <= b + Len(c),
           Broadcasts(c, b), Replay(c, b, n), Continued(c, shown, b, n)
    PROVE  /\ \A i \in 1..Len(Show(shown, Head(c))) :
                Show(shown, Head(c))[i] <= b + Len(c)
           /\ Broadcasts(Tail(c), b + 1)
           /\ Replay(Tail(c), b + 1, n)
           /\ Continued(Tail(c), Show(shown, Head(c)), b + 1, n)
<1> DEFINE d == Tail(c)
           s == Show(shown, Head(c))
<1>1. /\ Len(c) \in Nat /\ Len(c) >= 1 /\ Len(d) = Len(c) - 1
      /\ \A j \in 1..Len(d) : d[j] = c[j + 1]
      /\ Head(c) = c[1] /\ c[1] \in Message
  BY EmptySeq
<1>0. Len(c) \in Nat /\ Len(c) >= 1 /\ Len(d) = Len(c) - 1
  BY <1>1
<1>2. s = IF c[1].type = "history" THEN c[1].events ELSE c[1].events \o shown
  BY <1>1 DEF Show
<1>3. c[1].events \in Seq(Event) /\ d \in Seq(Message)
  BY <1>1 DEF Message
<1>4. (d = <<>> <=> Len(d) = 0)
  BY <1>3, EmptySeq
<1> HIDE DEF d, s
<1>5. ASSUME NEW j \in 1..Len(d) PROVE d[j] = Single(b + 1 + j)
  <2>1. j + 1 \in 1..Len(c) /\ j + 1 # 1 /\ b + (j + 1) = b + 1 + j
    BY <1>1
  <2>2. c[j + 1] = Single(b + (j + 1))
    BY <2>1 DEF Broadcasts
  <2> QED BY <1>1, <2>1, <2>2
<1>6. ~Greeted(d)
  <2>1. ASSUME d # <<>> PROVE d[1] = Single(b + 1 + 1)
    BY <1>1, <1>4, <1>5, <2>1
  <2> QED BY <2>1 DEF Greeted, Single
<1>7. Broadcasts(d, b + 1) /\ Replay(d, b + 1, n)
  BY <1>5, <1>6 DEF Broadcasts, Replay
<1>8. CASE Greeted(c)
  <2>1. s = c[1].events /\ Len(s) \in Nat
    BY <1>2, <1>3, <1>8 DEF Greeted
  <2>2. /\ n < Len(s) + Len(c)
        /\ \A i \in 1..Len(s) : s[i] = b + 2 - i
    BY <1>8, <2>1 DEF Replay
  <2>3. \A i \in 1..Len(s) : s[i] <= b + 1 /\ s[i] <= b + Len(c)
    BY <1>0, <2>1, <2>2
  <2>4. Continued(d, s, b + 1, n)
    BY <1>0, <2>1, <2>2, <2>3 DEF Continued
  <2> QED BY <1>7, <2>3, <2>4 DEF d, s
<1>9. CASE ~Greeted(c)
  <2>1. c[1] = Single(b + 1)
    BY <1>1, <1>9 DEF Broadcasts, Greeted
  <2>2. s = <<b + 1>> \o shown
    BY <1>2, <2>1 DEF Single
  <2>3. /\ Len(s) = Len(shown) + 1 /\ Len(shown) \in Nat
        /\ \A i \in 1..Len(s) : s[i] = IF i = 1 THEN b + 1 ELSE shown[i - 1]
    BY <2>2
  <2>4. /\ n <= Len(shown) + Len(c)
        /\ \A i \in 1..Len(shown) :
             /\ shown[i] <= b
             /\ i + Len(c) <= n => shown[i] = b + 1 - i
    BY <1>9 DEF Continued
  <2>5. ASSUME NEW i \in 1..Len(s)
        PROVE  /\ s[i] <= b + 1 /\ s[i] <= b + Len(c)
               /\ i + Len(d) <= n => s[i] = b + 1 + 1 - i
    <3>1. CASE i = 1
      BY <1>0, <2>3, <3>1
    <3>2. CASE i # 1
      <4>1. i - 1 \in 1..Len(shown) /\ s[i] = shown[i - 1] /\ shown[i - 1] \in Nat
        BY <2>3, <3>2
      <4>2. /\ shown[i - 1] <= b
            /\ (i - 1) + Len(c) <= n => shown[i - 1] = b + 1 - (i - 1)
        BY <2>4, <4>1
      <4>3. s[i] <= b + 1 /\ s[i] <= b + Len(c)
        <5>1. s[i] \in Nat /\ s[i] <= b
          BY <4>1, <4>2
        <5> QED BY <1>0, <5>1
      <4>4. i + Len(d) <= n => s[i] = b + 1 + 1 - i
        BY <1>0, <4>1, <4>2
      <4> QED BY <4>3, <4>4
    <3> QED BY <3>1, <3>2
  <2>6. Continued(d, s, b + 1, n)
    BY <1>0, <2>3, <2>4, <2>5 DEF Continued
  <2> QED BY <1>7, <2>5, <2>6 DEF d, s
<1> QED BY <1>8, <1>9

\* A server that has forgotten its history is followed by every page.
LEMMA Forgotten ==
    ASSUME NEW c \in Seq(Message), NEW shown \in Seq(Nat), NEW b \in Int, NEW n \in Nat
    PROVE  /\ Replay(c, b, n) => Replay(c, b, 0)
           /\ Continued(c, shown, b, n) => Continued(c, shown, b, 0)
<1>1. Len(c) \in Nat /\ Len(shown) \in Nat
  OBVIOUS
<1>2. ASSUME Replay(c, b, n) PROVE Replay(c, b, 0)
  <2> DEFINE h == c[1].events
  <2>1. Greeted(c) => n < Len(h) + Len(c) /\ \A i \in 1..Len(h) : h[i] = b + 2 - i
    BY <1>2 DEF Replay
  <2>2. Greeted(c) => Len(h) \in Nat
    BY EmptySeq DEF Greeted, Message
  <2> HIDE DEF h
  <2>3. Greeted(c) => 0 < Len(h) + Len(c) /\ \A i \in 1..Len(h) : h[i] = b + 2 - i
    BY <1>1, <2>1, <2>2
  <2> QED BY <2>3 DEF Replay, h
<1>3. ASSUME Continued(c, shown, b, n) PROVE Continued(c, shown, b, 0)
  <2>1. ~Greeted(c) => \A i \in 1..Len(shown) : shown[i] <= b /\ ~(i + Len(c) <= 0)
    BY <1>1, <1>3 DEF Continued
  <2> QED BY <1>1, <2>1 DEF Continued
<1> QED BY <1>2, <1>3

\* What is in the socket of a page stays in order.
LEMMA SocketStep ==
    ASSUME PagesInv, [PagerNext]_pagerVars, NEW v \in Viewers
    PROVE  SocketInOrder(v)'
<1> DEFINE c == channel[v]
           b == posted - Len(c)
<1>1. /\ posted \in Nat /\ events \in Seq(Event) /\ c \in Seq(Message)
      /\ items[v] \in Seq(Nat) /\ Len(c) \in Nat /\ Len(events) \in Nat
      /\ HistoryInOrder /\ SocketInOrder(v)
  BY HistoryAssumption DEF PagesInv, PagerTypeOK, Event
<1>2. Len(<<>>) = 0 /\ ~Greeted(<<>>)
  BY DEF Greeted
<1>0. posted \in Nat /\ Len(c) \in Nat /\ b \in Int /\ b + Len(c) = posted
  <2>1. posted \in Nat /\ Len(c) \in Nat
    BY <1>1
  <2> QED BY <2>1
<1>3. CASE UNCHANGED <<events, posted, conn[v], channel[v], items[v]>>
  BY <1>1, <1>3 DEF SocketInOrder
<1>4. ASSUME ~conn[v]', c' = <<>>, UNCHANGED <<posted, items[v]>> PROVE SocketInOrder(v)'
  BY <1>1, <1>2, <1>4 DEF SocketInOrder, Broadcasts, Replay
<1>5. CASE Webhook
  <2>1. /\ posted + 1 \in Event
        /\ posted' = posted + 1 /\ UNCHANGED <<conn, items>>
        /\ c' = IF conn[v] THEN Append(c, Single(posted + 1)) ELSE c
    BY HistoryAssumption, <1>1, <1>5 DEF Webhook, Event
  <2>2. Len(events') \in Nat /\ Len(events') <= Len(events) + 1
    BY <1>1, <1>5, <2>1, Remembered DEF Webhook
  <2>3. \A i \in 1..Len(items[v]) : items[v][i] <= posted + 1
    BY <1>1 DEF SocketInOrder
  <2>4. CASE conn[v]
    <3>1. Single(posted + 1) \in Message
      BY <2>1 DEF Single, Message
    <3>2. b' = b /\ b \in Int /\ b + (Len(c) + 1) = posted + 1
      <4>1. Len(c') = Len(c) + 1
        BY <1>1, <2>1, <2>4, <3>1, AppendProperties
      <4>2. posted' = posted + 1
        BY <2>1
      <4>3. posted' - Len(c') = posted - Len(c)
        BY <1>0, <4>1, <4>2
      <4>4. b + (Len(c) + 1) = posted + 1
        <5> HIDE DEF b
        <5> QED BY <1>0
      <4> QED BY <1>0, <4>3, <4>4
    <3>3. /\ Broadcasts(c, b) /\ Replay(c, b, Len(events))
          /\ Continued(c, items[v], b, Len(events))
      BY <1>1, <2>4 DEF SocketInOrder
    <3>4. /\ Broadcasts(c', b) /\ Replay(c', b, Len(events'))
          /\ Continued(c', items[v], b, Len(events'))
      <4>1. c' = Append(c, Single(b + (Len(c) + 1))) /\ Single(b + (Len(c) + 1)) \in Message
        BY <2>1, <2>4, <3>1, <3>2
      <4>2. c \in Seq(Message) /\ items[v] \in Seq(Nat) /\ b \in Int /\ Len(events) \in Nat
        BY <1>1, <3>2
      <4> HIDE DEF c, b
      <4> QED BY <2>2, <3>3, <4>1, <4>2, Appended
    <3> QED BY <2>1, <2>3, <2>4, <3>2, <3>4 DEF SocketInOrder
  <2>5. CASE ~conn[v]
    <3>1. c = <<>> /\ c' = <<>>
      BY <1>1, <2>1, <2>5 DEF SocketInOrder
    <3> QED BY <1>2, <2>1, <2>3, <2>5, <3>1 DEF SocketInOrder, Broadcasts, Replay
  <2> QED BY <2>4, <2>5
<1>6. CASE Connect(v)
  <2>1. conn[v]' /\ c' = Greeting /\ UNCHANGED <<events, posted, items[v]>>
    BY <1>6 DEF Connect, PagerTypeOK, PagesInv
  <2>2. CASE events = <<>>
    <3>1. c' = <<>> /\ b' = posted /\ Len(events) = 0
      BY <1>1, <1>2, <2>1, <2>2 DEF Greeting
    <3>2. \A i \in 1..Len(items[v]) : items[v][i] <= posted
      BY <1>1 DEF SocketInOrder
    <3>3. Broadcasts(<<>>, posted) /\ Replay(<<>>, posted, 0)
      BY <1>2 DEF Broadcasts, Replay
    <3>4. Continued(<<>>, items[v], posted, 0)
      BY <1>1, <1>2, <3>2 DEF Continued
    <3> QED BY <2>1, <3>1, <3>2, <3>3, <3>4 DEF SocketInOrder
  <2>3. CASE events # <<>>
    <3>1. c' = <<History>>
      BY <2>1, <2>3 DEF Greeting
    <3>2. Len(c') = 1 /\ c' # <<>> /\ c'[1].type = "history" /\ c'[1].events = events
      BY <3>1 DEF History
    <3>3. b' = posted - 1 /\ Greeted(c')
      BY <1>1, <2>1, <3>2 DEF Greeted
    <3>4. Broadcasts(c', b')
      BY <3>2 DEF Broadcasts
    <3>5. Replay(c', b', Len(events))
      <4>1. Len(events) \in Nat /\ \A i \in 1..Len(events) : events[i] = posted - i + 1
        BY <1>1 DEF HistoryInOrder
      <4>2. \A i \in 1..Len(events) : events[i] = (posted - 1) + 2 - i
        BY <1>0, <4>1
      <4>3. Len(events) < Len(events) + 1
        BY <4>1
      <4> QED BY <3>2, <3>3, <4>2, <4>3 DEF Replay
    <3> QED BY <1>1, <2>1, <3>3, <3>4, <3>5 DEF SocketInOrder, Continued
  <2> QED BY <2>2, <2>3
<1>7. CASE Deliver(v)
  <2>1. /\ c # <<>> /\ c' = Tail(c) /\ items[v]' = Show(items[v], Head(c))
        /\ UNCHANGED <<events, posted, conn>>
    BY <1>7 DEF Deliver, PagerTypeOK, PagesInv
  <2>2. b + Len(c) = posted /\ b \in Int /\ b' = b + 1
    <3>1. Len(c') = Len(c) - 1
      BY <1>1, <2>1, HeadTailProperties
    <3>2. posted' = posted
      BY <2>1
    <3> QED BY <1>0, <3>1, <3>2
  <2>3. /\ conn[v]
        /\ \A i \in 1..Len(items[v]) : items[v][i] <= b + Len(c)
        /\ Broadcasts(c, b) /\ Replay(c, b, Len(events))
        /\ Continued(c, items[v], b, Len(events))
    BY <1>1, <2>1, <2>2 DEF SocketInOrder
  <2>4. /\ \A i \in 1..Len(items[v]') : items[v]'[i] <= b + Len(c)
        /\ Broadcasts(c', b + 1) /\ Replay(c', b + 1, Len(events))
        /\ Continued(c', items[v]', b + 1, Len(events))
    BY <1>1, <2>1, <2>2, <2>3, Delivered
  <2> QED BY <2>1, <2>2, <2>3, <2>4 DEF SocketInOrder
<1>8. CASE Disconnect(v)
  BY <1>4, <1>8 DEF Disconnect, PagerTypeOK, PagesInv
<1>9. CASE Hibernate
  <2>1. Len(events') = 0 /\ UNCHANGED <<posted, conn, channel, items>>
    BY <1>9, <1>2 DEF Hibernate
  <2>2. b \in Int
    BY <1>1
  <2> QED BY <1>1, <2>1, <2>2, Forgotten DEF SocketInOrder
<1>10. CASE Restart
  BY <1>4, <1>10 DEF Restart
<1>11. ASSUME NEW w \in Viewers, w # v,
              Connect(w) \/ Deliver(w) \/ Disconnect(w)
       PROVE  SocketInOrder(v)'
  BY <1>3, <1>11 DEF Connect, Deliver, Disconnect, PagerTypeOK, PagesInv
<1> QED
  BY <1>3, <1>5, <1>6, <1>7, <1>8, <1>9, <1>10, <1>11 DEF PagerNext, pagerVars

\* What a page shows stays in descending order when it reads its socket.
LEMMA DeliveredInOrder ==
    ASSUME NEW c \in Seq(Message), c # <<>>, NEW shown \in Seq(Nat), NEW b \in Int,
    NEW n \in Nat,
           Broadcasts(c, b), Replay(c, b, n), Continued(c, shown, b, n), Descending(shown)
    PROVE  Descending(Show(shown, Head(c)))
<1> DEFINE s == Show(shown, Head(c))
<1>1. /\ Len(c) \in Nat /\ Len(c) >= 1
      /\ Head(c) = c[1] /\ c[1] \in Message
  BY EmptySeq
<1>2. s = IF c[1].type = "history" THEN c[1].events ELSE c[1].events \o shown
  BY <1>1 DEF Show
<1>3. c[1].events \in Seq(Event)
  BY <1>1 DEF Message
<1> HIDE DEF s
<1> SUFFICES ASSUME NEW i \in 1..Len(s), NEW j \in 1..Len(s), i < j PROVE s[i] > s[j]
  BY DEF Descending, s
<1>4. CASE Greeted(c)
  <2>1. s = c[1].events /\ Len(s) \in Nat
    BY <1>2, <1>3, <1>4 DEF Greeted
  <2>2. s[i] = b + 2 - i /\ s[j] = b + 2 - j
    BY <1>4, <2>1 DEF Replay
  <2> QED BY <2>1, <2>2
<1>5. CASE ~Greeted(c)
  <2>1. c[1] = Single(b + 1)
    BY <1>1, <1>5 DEF Broadcasts, Greeted
  <2>2. s = <<b + 1>> \o shown
    BY <1>2, <2>1 DEF Single
  <2>3. /\ Len(s) = Len(shown) + 1 /\ Len(shown) \in Nat
        /\ \A k \in 1..Len(s) : s[k] = IF k = 1 THEN b + 1 ELSE shown[k - 1]
    BY <2>2
  <2>4. j - 1 \in 1..Len(shown) /\ s[j] = shown[j - 1]
    BY <2>3
  <2>5. CASE i = 1
    <3>1. s[i] = b + 1 /\ shown[j - 1] <= b /\ shown[j - 1] \in Nat
      BY <1>5, <2>3, <2>4, <2>5 DEF Continued
    <3> QED BY <2>4, <3>1
  <2>6. CASE i # 1
    <3>1. i - 1 \in 1..Len(shown) /\ s[i] = shown[i - 1] /\ i - 1 < j - 1
      BY <2>3, <2>6
    <3> QED BY <2>4, <3>1 DEF Descending
  <2> QED BY <2>5, <2>6
<1> QED BY <1>4, <1>5

\* No page gets an event twice, or out of order.
LEMMA DescendingStep ==
    ASSUME PagesInv, [PagerNext]_pagerVars
    PROVE  NothingShownTwice'
<1> SUFFICES ASSUME NEW v \in Viewers PROVE Descending(items'[v])
  BY DEF NothingShownTwice, Descending
<1>1. Descending(items[v])
  BY DEF PagesInv, NothingShownTwice, Descending
<1>2. CASE Deliver(v)
  <2> DEFINE c == channel[v]
             b == posted - Len(c)
  <2>1. c # <<>> /\ items'[v] = Show(items[v], Head(c))
    BY <1>2 DEF Deliver, PagerTypeOK, PagesInv
  <2>2. /\ c \in Seq(Message) /\ items[v] \in Seq(Nat)
        /\ posted \in Nat /\ Len(events) \in Nat /\ Len(c) \in Nat /\ SocketInOrder(v)
    BY HistoryAssumption DEF PagesInv, PagerTypeOK, Event
  <2>3. Broadcasts(c, b) /\ Replay(c, b, Len(events)) /\ Continued(c, items[v], b, Len(events))
    BY <2>1, <2>2 DEF SocketInOrder
  <2>4. b \in Int
    BY <2>2
  <2> QED BY <1>1, <2>1, <2>2, <2>3, <2>4, DeliveredInOrder
<1>3. CASE items[v]' = items[v]
  BY <1>1, <1>3
<1>4. ASSUME NEW w \in Viewers, w # v, Deliver(w) PROVE items[v]' = items[v]
  BY <1>4 DEF Deliver, PagerTypeOK, PagesInv
<1> QED
  BY <1>2, <1>3, <1>4
     DEF PagerNext, pagerVars, Webhook, Connect, Disconnect,
         Hibernate,
         Restart

\* No page has anything to show at first.
LEMMA PagesInitially ==
    ASSUME PagerInit PROVE PagesInv
<1> USE DEF PagerInit
<1>1. PagerTypeOK
  BY HistoryAssumption DEF PagerTypeOK
<1>2. HistoryInOrder
  BY DEF HistoryInOrder
<1>3. ASSUME NEW v \in Viewers PROVE SocketInOrder(v)
  BY DEF SocketInOrder, Broadcasts, Replay, Greeted
<1>4. NothingShownTwice
  BY DEF NothingShownTwice
<1> QED BY <1>1, <1>2, <1>3, <1>4 DEF PagesInv

\* In every reachable state each socket continues what its page shows.
LEMMA PagesInvariant == PagerSpec => []PagesInv
<1>1. PagerInit => PagesInv
  BY PagesInitially
<1>2. PagesInv /\ [PagerNext]_pagerVars => PagesInv'
  BY PagesTypeStep, HistoryStep, SocketStep, DescendingStep DEF PagesInv
<1> QED
  BY <1>1, <1>2, PTL DEF PagerSpec

\* Every variable has its type, and the history is never longer than MAX_EVENTS.
THEOREM PagesTypeCorrect == PagerSpec => []PagerTypeOK
BY PagesInvariant, PTL DEF PagesInv

\* A page that has read its socket shows the server's history on top, however many
\* pages, events and outages there are (server.ts, worker.ts, App.tsx).
THEOREM PagesFollowServer == PagerSpec => []ViewFollowsServer
<1>1. PagesInv => ViewFollowsServer
  <2> SUFFICES ASSUME PagesInv, NEW v \in Viewers, conn[v], channel[v] = <<>>
               PROVE  IsPrefix(events, items[v])
    BY DEF ViewFollowsServer
  <2> DEFINE shown == items[v]
  <2>1. /\ posted \in Nat /\ events \in Seq(Nat) /\ shown \in Seq(Nat)
        /\ Len(events) \in Nat /\ Len(shown) \in Nat
    BY HistoryAssumption DEF PagesInv, PagerTypeOK, Event
  <2>2. \A i \in 1..Len(events) : events[i] = posted - i + 1
    BY DEF PagesInv, HistoryInOrder
  <2>3. Continued(<<>>, shown, posted, Len(events))
    BY <2>1 DEF PagesInv, SocketInOrder
  <2>4. /\ Len(events) <= Len(shown)
        /\ \A i \in 1..Len(events) : shown[i] = posted + 1 - i
    BY <2>1, <2>3 DEF Continued, Greeted
  <2>5. \A i \in 1..Len(events) : shown[i] = events[i]
    BY <2>1, <2>2, <2>4
  <2>6. SubSeq(shown, 1, Len(events)) = events
    BY <2>1, <2>4, <2>5
  <2> QED BY <2>1, <2>4, <2>6 DEF IsPrefix
<1> QED
  BY PagesInvariant, <1>1, PTL

\* No page shows an event twice or an older one above a newer one (App.tsx).
THEOREM PagesShowNothingTwice == PagerSpec => []NothingShownTwice
BY PagesInvariant, PTL DEF PagesInv

-----------------------------------------------------------------------------
(* DesktopSync *)

\* What the desktop knows of an alert it has not handled itself is not ahead of
\* what was read last, nor that of the remote database.
RowsInOrder ==
    \A a \in Alerts \ handledHere :
        /\ Handled(localStatus[a]) => Handled(remoteStatus[a])
        /\ Handled(localStatus[a]) /\ alertRows[a] # "absent" => Handled(alertRows[a])
        /\ Handled(alertRows[a]) => Handled(remoteStatus[a])

SyncInv == TypeOK /\ RowsInOrder

\* Contents and markers of rules are numbers, and the statuses of the two sides
\* are the same.
LEMMA Values ==
    /\ Contents \subseteq Nat /\ Absent \notin Contents /\ Deleted \notin Contents
    /\ 1 \in Contents
    /\ \A v \in 1..(MaxVersion - 1) : v + 1 \in Contents
    /\ Local!Status = Remote!Status /\ "absent" \in Remote!Status /\ "active" \in Remote!Status
    /\ Remote!Targets \subseteq Remote!Status /\ Local!Targets = Remote!Targets
BY BoundsAssumption DEF Contents, Absent, Deleted, Remote!Status, Local!Status, Remote!Targets,
   Local!Targets

\* Every variable keeps its type.
LEMMA TypeStep == TypeOK /\ [Next]_vars => TypeOK'
<1> SUFFICES ASSUME TypeOK, [Next]_vars PROVE TypeOK'
  OBVIOUS
<1> USE Values, BoundsAssumption DEF TypeOK, accounts, remote, replica, rows, task
<1>1. ASSUME NEW p \in RemoteIds, NEW u \in Profiles, RemoteSignUp(p, u) \/ UpdateDetails(p, u)
      PROVE  TypeOK'
  BY <1>1 DEF RemoteSignUp, UpdateDetails
<1>19. ASSUME NEW p \in RemoteIds, DeleteAccount(p) PROVE TypeOK'
  BY <1>19 DEF DeleteAccount
<1>20. ASSUME NEW i \in LocalIds, NEW u \in Profiles, SignUp(i, u) PROVE TypeOK'
  BY <1>20 DEF SignUp, Ids
<1>21. ASSUME NEW i \in Ids, IssueSession(i) PROVE TypeOK'
  BY <1>21 DEF IssueSession
<1>2. ASSUME NEW r \in Rules, CreateRule(r) PROVE TypeOK'
  BY <1>2 DEF CreateRule
<1>3. ASSUME NEW r \in Rules, EditRule(r) PROVE TypeOK'
  BY <1>3 DEF EditRule
<1>4. ASSUME NEW r \in Rules, DeleteRule(r) PROVE TypeOK'
  BY <1>4 DEF DeleteRule
<1>5. ASSUME NEW r \in Rules, NEW a \in Alerts, RaiseAlert(a, r) PROVE TypeOK'
  BY <1>5 DEF RaiseAlert, Remote!Raise
<1>6. ASSUME NEW a \in Alerts, NEW next \in Remote!Targets, HandleAlert(a, next) PROVE TypeOK'
  BY <1>6 DEF HandleAlert, Remote!Transition
<1>7. ASSUME NEW a \in Alerts, GrowOld(a) PROVE TypeOK'
  BY <1>7 DEF GrowOld
<1>8. ASSUME NEW r \in Rules, NEW content \in Contents, LocalEditRule(r, content) PROVE TypeOK'
  BY <1>8 DEF LocalEditRule, LocalChange
<1>9. ASSUME NEW r \in Rules, LocalDeleteRule(r) PROVE TypeOK'
  BY <1>9 DEF LocalDeleteRule, LocalChange
<1>10. ASSUME NEW a \in Alerts, NEW next \in Remote!Targets, LocalHandleAlert(a, next)
       PROVE  TypeOK'
  BY <1>10 DEF LocalHandleAlert, LocalChange, Local!Transition
<1>11. ASSUME StartFull PROVE TypeOK'
  BY <1>11 DEF StartFull
<1>12. ASSUME StartPoll PROVE TypeOK'
  BY <1>12 DEF StartPoll, ReadAlerts
<1>13. ASSUME NEW p \in RemoteIds, PullAccount(p) PROVE TypeOK'
  BY <1>13 DEF PullAccount, EndPass, NoRows, NoAccounts
<1>14. ASSUME NEW r \in Rules, PullRule(r) PROVE TypeOK'
  BY <1>14 DEF PullRule
<1>15. ASSUME NEW a \in Alerts, PullAlert(a) PROVE TypeOK'
  BY <1>15 DEF PullAlert, EndPass, NoRows, NoAccounts, Upserted
<1>16. ASSUME NextStage PROVE TypeOK'
  <2>1. pc' \in {"idle", "rules", "alerts"}
    BY <1>16 DEF NextStage, Follows
  <2>2. ruleRows' \in [Rules -> {Absent} \cup Contents]
    BY <1>16 DEF NextStage
  <2>3. alertRows' \in [Alerts -> Remote!Status] /\ rowRule' \in [Alerts -> Rules \cup {None}]
    BY <1>16 DEF NextStage, ReadAlerts, NoRows
  <2> QED
    BY <1>16, <2>1, <2>2, <2>3 DEF NextStage
<1>17. ASSUME LoseLink PROVE TypeOK'
  <2>1. /\ alertRows' \in [Alerts -> Remote!Status] /\ rowRule' \in [Alerts -> Rules \cup {None}]
        /\ accountRows' \in [RemoteIds -> Profiles \cup {None}]
        /\ ruleRows' \in [Rules -> {Absent} \cup Contents]
    BY <1>17 DEF LoseLink, EndPass, NoRows, NoAccounts
  <2> QED BY <1>17, <2>1 DEF LoseLink, EndPass
<1>22. ASSUME RegainLink PROVE TypeOK'
  BY <1>22 DEF RegainLink
<1>18. ASSUME UNCHANGED vars PROVE TypeOK'
  BY <1>18 DEF vars
<1> QED
  BY <1>1, <1>2, <1>3, <1>4, <1>5, <1>6, <1>7, <1>8, <1>9, <1>10, <1>11, <1>12, <1>13, <1>14,
     <1>15, <1>16, <1>17, <1>18, <1>19, <1>20, <1>21, <1>22 DEF Next, Write

\* No step of anyone puts the rows that were read, or the desktop, ahead.
LEMMA OrderStep == SyncInv /\ [Next]_vars => RowsInOrder'
<1> SUFFICES ASSUME TypeOK, RowsInOrder, [Next]_vars PROVE RowsInOrder'
  BY DEF SyncInv
<1> ~Handled("absent") /\ ~Handled("active")
  BY DEF Handled, Remote!Targets
<1> USE DEF accounts, remote, replica, rows, task
<1>1. CASE UNCHANGED <<remoteStatus, localStatus, alertRows, handledHere>>
  BY <1>1 DEF RowsInOrder
<1>2. ASSUME NEW a \in Alerts, NEW r \in Rules, RaiseAlert(a, r) PROVE RowsInOrder'
  BY <1>2 DEF RaiseAlert, Remote!Raise, TypeOK, RowsInOrder
<1>3. ASSUME NEW a \in Alerts, NEW next \in Remote!Targets, HandleAlert(a, next)
      PROVE  RowsInOrder'
  BY <1>3 DEF HandleAlert, Remote!Transition, Handled, TypeOK, RowsInOrder
<1>4. ASSUME NEW a \in Alerts, NEW next \in Remote!Targets, LocalHandleAlert(a, next)
      PROVE  RowsInOrder'
  BY <1>4 DEF LocalHandleAlert, Local!Transition, TypeOK, RowsInOrder
<1>5. ASSUME NEW window \in SUBSET Alerts, ReadAlerts(window),
             UNCHANGED <<remoteStatus, localStatus, handledHere>>
      PROVE  RowsInOrder'
  BY <1>5 DEF ReadAlerts, TypeOK, RowsInOrder
<1>6. ASSUME alertRows' = NoRows, UNCHANGED <<remoteStatus, localStatus, handledHere>>
      PROVE  RowsInOrder'
  BY <1>6 DEF NoRows, RowsInOrder
<1>7. ASSUME NEW a \in Alerts, PullAlert(a) PROVE RowsInOrder'
  <2>1. CASE EndPass /\ UNCHANGED localStatus
    BY <1>6, <1>7, <2>1 DEF PullAlert, EndPass
  <2>2. CASE /\ localStatus' = [localStatus EXCEPT ![a] = Upserted(a)]
             /\ alertRows' = [alertRows EXCEPT ![a] = "absent"]
    BY <1>7, <2>2 DEF PullAlert, Upserted, TypeOK, RowsInOrder
  <2> QED
    BY <1>7, <2>1, <2>2 DEF PullAlert
<1>8. ASSUME StartPoll PROVE RowsInOrder'
  BY <1>5, <1>8 DEF StartPoll
<1>9. ASSUME NextStage PROVE RowsInOrder'
  BY <1>5, <1>6, <1>9 DEF NextStage
<1>10. ASSUME NEW p \in RemoteIds, PullAccount(p) PROVE RowsInOrder'
  BY <1>1, <1>6, <1>10 DEF PullAccount, EndPass
<1>11. CASE LoseLink
  BY <1>6, <1>11 DEF LoseLink, EndPass
<1>12. ASSUME NEW p \in RemoteIds, NEW u \in Profiles,
              RemoteSignUp(p, u) \/ UpdateDetails(p, u)
       PROVE  RowsInOrder'
  BY <1>1, <1>12 DEF RemoteSignUp, UpdateDetails
<1>13. ASSUME NEW p \in RemoteIds, DeleteAccount(p) PROVE RowsInOrder'
  BY <1>1, <1>13 DEF DeleteAccount
<1>14. ASSUME NEW i \in Ids, NEW u \in Profiles, SignUp(i, u) PROVE RowsInOrder'
  BY <1>1, <1>14 DEF SignUp
<1>15. ASSUME NEW i \in Ids, IssueSession(i) PROVE RowsInOrder'
  BY <1>1, <1>15 DEF IssueSession
<1> QED
  BY <1>1, <1>2, <1>3, <1>4, <1>7, <1>8, <1>9, <1>10, <1>11, <1>12, <1>13, <1>14, <1>15
     DEF Next, Write, vars, Ids, CreateRule, EditRule, DeleteRule,
         LocalDeleteRule, LocalEditRule, GrowOld, StartFull, PullRule, RegainLink

\* No step opens an alert again that the desktop has not handled itself.
LEMMA ReopensNothing ==
    SyncInv /\ [Next]_vars =>
        \A a \in Alerts \ handledHere : Handled(localStatus[a]) => Handled(localStatus'[a])
<1> SUFFICES ASSUME TypeOK, RowsInOrder, [Next]_vars, NEW a \in Alerts \ handledHere,
                    Handled(localStatus[a])
             PROVE  Handled(localStatus'[a])
  BY DEF SyncInv
<1> USE DEF accounts, remote, replica, rows, task
<1>1. ASSUME NEW b \in Alerts, NEW next \in Remote!Targets, LocalHandleAlert(b, next)
      PROVE  Handled(localStatus'[a])
  BY <1>1 DEF LocalHandleAlert, Local!Transition, Handled, TypeOK
<1>2. ASSUME NEW b \in Alerts, PullAlert(b) PROVE Handled(localStatus'[a])
  BY <1>2 DEF PullAlert, Upserted, TypeOK, RowsInOrder
<1>3. CASE UNCHANGED localStatus
  BY <1>3
<1>4. ASSUME NEW p \in RemoteIds, NEW u \in Profiles,
             RemoteSignUp(p, u) \/ UpdateDetails(p, u)
      PROVE  UNCHANGED localStatus
  BY <1>4 DEF RemoteSignUp, UpdateDetails
<1>5. ASSUME NEW p \in RemoteIds, DeleteAccount(p) \/ PullAccount(p) PROVE UNCHANGED localStatus
  BY <1>5 DEF DeleteAccount, PullAccount
<1>6. ASSUME NEW i \in Ids, NEW u \in Profiles, SignUp(i, u) PROVE UNCHANGED localStatus
  BY <1>6 DEF SignUp
<1>7. ASSUME NEW i \in Ids, IssueSession(i) PROVE UNCHANGED localStatus
  BY <1>7 DEF IssueSession
<1> QED
  BY <1>1, <1>2, <1>3, <1>4, <1>5, <1>6, <1>7
     DEF Next, Write, vars, Ids, CreateRule, EditRule, DeleteRule,
         RaiseAlert, HandleAlert, LocalDeleteRule, LocalEditRule, GrowOld, StartFull, StartPoll,
         PullRule, NextStage, LoseLink, RegainLink

LEMMA Initially == Init => SyncInv
<1> SUFFICES ASSUME Init PROVE SyncInv
  OBVIOUS
<1>1. TypeOK
  BY Values, BoundsAssumption DEF Init, TypeOK, NoRows, NoAccounts, Remote!Init, Local!Init
<1>2. RowsInOrder
  BY DEF Init, RowsInOrder, NoRows, Remote!Init, Local!Init, Handled, Remote!Targets
<1> QED
  BY <1>1, <1>2 DEF SyncInv

LEMMA Invariant == Spec => []SyncInv
<1>1. SyncInv /\ [Next]_vars => SyncInv'
  BY TypeStep, OrderStep DEF SyncInv
<1> QED
  BY Initially, <1>1, PTL DEF Spec

-----------------------------------------------------------------------------

\* Every variable has its type.
THEOREM TypeCorrect == Spec => []TypeOK
BY Invariant, PTL DEF SyncInv

\* Neither the fast poll nor the full pass opens an alert again that the remote
\* operators have closed (pull_recent_alerts, pull_alerts).
THEOREM SyncReopensNothing == Spec => NeverReopened
<1>1. SyncInv /\ [Next]_vars =>
        [\A a \in Alerts \ handledHere : Handled(localStatus[a]) => Handled(localStatus'[a])]_vars
  BY ReopensNothing
<1> QED
  BY Invariant, <1>1, PTL DEF Spec, NeverReopened

=============================================================================
