---------------------------- MODULE EventStream ----------------------------
(***************************************************************************)
(* How what happens in a hub reaches the pages of its dashboard.           *)
(* hub/internal/managementapi publishes events to the WebSocket clients,   *)
(* monitor/internal/hubclient is one of them and reconnects for ever, and  *)
(* monitor/internal/server hands its events to the SOS feed (sosfeed) and  *)
(* to every open page.  Between them are three buffered channels, and a    *)
(* sender that finds one full drops the event.                             *)
(*                                                                         *)
(* Event i stands for the i-th change that the hub commits; Alerts are the *)
(* SOS alerts with a payload, which change no table.  What an event says   *)
(* is left out, and so are the times between attempts to connect.  Counted *)
(* are a node's or hub's new status, a new route, the depth of the queue   *)
(* and the fallback flag; apps, bans and changes of a route are not.       *)
(***************************************************************************)
EXTENDS Sessions, Sequences, SequencesExt

CONSTANTS
    MaxEvents,    \* bound: the events modelled
    Alerts,       \* those that are SOS alerts
    Counted,      \* those that change a counter or the flag of the overview
    Slots,        \* connections, of which one is open and others are ending
    Tabs,         \* pages of the dashboard
    HubBuffer,    \* capacity of a client's channel in the hub, 32 in the code
    WireBuffer,   \* what fits on a connection
    FeedBuffer,   \* capacity of the monitor's channel, 64 in the code
    TabBuffer,    \* capacity of a page's channel, 32 in the code
    MaxAlerts,    \* length of the SOS feed, 100 in the code
    MaxRestarts,  \* bound: restarts of the hub and of the monitor
    MaxVisits,    \* bound: pages opened
    Apart         \* bound: whether logins and the stream are looked at apart

Events == 1 .. MaxEvents
NoSlot == 0

ASSUME EventAssumption ==
    /\ Alerts \subseteq Events /\ Counted \subseteq Events \ Alerts
    /\ Slots \subseteq Nat \ {NoSlot}
    /\ {MaxEvents, HubBuffer, WireBuffer, FeedBuffer, TabBuffer, MaxRestarts, MaxVisits} \subseteq Nat
    /\ MaxAlerts \in Nat \ {0}
    /\ Apart \in BOOLEAN

VARIABLES
    committed,  \* the number of events that have happened
    pending,    \* those that are still to be published
    published,  \* history: the others, in the order of Publish
    handler,    \* handler[c]: the hub's goroutine for connection c
    clients,    \* Server.clients of the hub
    queue,      \* queue[c]: its channel
    wire,       \* wire[c]: written to connection c and not yet read
    ended,      \* connections that one side has closed and the other has not
    link,       \* the connection that the monitor reads, or NoSlot
    feed,       \* hubCh of the monitor
    taken,      \* what fanOutHubEvents has taken from it, as a sequence
    sos,        \* Store.alerts, newest first
    fanned,     \* history: events that fanOutHubEvents is done with
    tab,        \* tab[b]: the goroutine for page b
    browsers,   \* Server.browsers of the monitor
    pane,       \* pane[b]: its channel
    shown,      \* shown[b]: the events that the page has got
    snapshot,   \* snapshot[b]: the events that the counters of its overview include
    dropped,    \* history: events that found pane[b] full
    restarts, visits

source == <<committed, pending, published>>
hubSide == <<handler, clients, queue>>
net == <<wire, ended>>
monitorSide == <<link, feed, taken, sos, fanned>>
pages == <<tab, browsers, pane, shown, snapshot, dropped, visits>>
streamVars == <<source, hubSide, net, monitorSide, pages, restarts>>
vars == <<authVars, streamVars>>

TypeOK ==
    /\ SessionsTypeOK
    /\ committed \in 0 .. MaxEvents /\ pending \subseteq 1 .. committed
    /\ published \in Seq(Events)
    /\ handler \in [Slots -> {"none", "upgraded", "serving"}]
    /\ clients \subseteq Slots
    /\ queue \in [Slots -> Seq(Events)] /\ wire \in [Slots -> Seq(Events)]
    /\ \A c \in Slots : Len(queue[c]) <= HubBuffer /\ Len(wire[c]) <= WireBuffer
    /\ ended \subseteq Slots
    /\ link \in Slots \cup {NoSlot}
    /\ feed \in Seq(Events) /\ Len(feed) <= FeedBuffer
    /\ taken \in Seq(Events) /\ Len(taken) <= 1
    /\ sos \in Seq(Alerts) /\ Len(sos) <= MaxAlerts
    /\ fanned \subseteq Events
    /\ tab \in [Tabs -> {"closed", "upgraded", "registered", "open", "blank"}]
    /\ browsers \subseteq Tabs
    /\ pane \in [Tabs -> Seq(Events)] /\ shown \in [Tabs -> Seq(Events)]
    /\ \A b \in Tabs : Len(pane[b]) <= TabBuffer
    /\ snapshot \in [Tabs -> SUBSET Events] /\ dropped \in [Tabs -> SUBSET Events]
    /\ restarts \in 0 .. MaxRestarts /\ visits \in 0 .. MaxVisits

Init ==
    /\ SessionsInit
    /\ committed = 0 /\ pending = {} /\ published = <<>>
    /\ handler = [c \in Slots |-> "none"] /\ clients = {}
    /\ queue = [c \in Slots |-> <<>>] /\ wire = [c \in Slots |-> <<>>]
    /\ ended = {} /\ link = NoSlot
    /\ feed = <<>> /\ taken = <<>> /\ sos = <<>> /\ fanned = {}
    /\ tab = [b \in Tabs |-> "closed"] /\ browsers = {}
    /\ pane = [b \in Tabs |-> <<>>] /\ shown = [b \in Tabs |-> <<>>]
    /\ snapshot = [b \in Tabs |-> {}] /\ dropped = [b \in Tabs |-> {}]
    /\ restarts = 0 /\ visits = 0

\* The bound on sessions: apart, changes of the stream begin when the admin has chosen
\* a password and no login is under way, and there is one login for every run of the
\* monitor.
Settled ==
    Apart => /\ \A q \in Changes : change[q].step = "done"
             /\ \A l \in Logins : login[l] \in {"new", "done"}
             /\ Cardinality({l \in Logins : login[l] = "done"}) <= 1 + restarts

\* Fault: the channel grows.
OfferAlways(chan, i, capacity) == Append(chan, i)

\* A channel after a send that gives up when it is full.
Offer(chan, i, capacity) == IF Len(chan) < capacity THEN Append(chan, i) ELSE chan

---------------------------------------------------------------------------
\* The hub

\* A goroutine of the hub commits a change and is to report it...
Commit ==
    /\ committed < MaxEvents /\ Settled
    /\ committed' = committed + 1
    /\ pending' = pending \cup {committed + 1}
    /\ UNCHANGED <<published, hubSide, net, monitorSide, pages, restarts, authVars>>

\* ...which it does later, and perhaps after another: Publish, for all clients
\* under the lock.
Publish(i) ==
    /\ i \in pending
    /\ pending' = pending \ {i}
    /\ published' = Append(published, i)
    /\ queue' = [c \in Slots |-> IF c \in clients THEN Offer(queue[c], i, HubBuffer) ELSE queue[c]]
    /\ UNCHANGED <<committed, handler, clients, net, monitorSide, pages, restarts, authVars>>

\* Fault: a new client is sent the last event.
AddClientReplay(c) ==
    /\ handler[c] = "upgraded"
    /\ handler' = [handler EXCEPT ![c] = "serving"]
    /\ clients' = clients \cup {c}
    /\ queue' = [queue EXCEPT ![c] = IF published = <<>> THEN @ ELSE <<Last(published)>>]
    /\ UNCHANGED <<source, net, monitorSide, pages, restarts, authVars>>

AddClient(c) ==
    /\ handler[c] = "upgraded"
    /\ handler' = [handler EXCEPT ![c] = "serving"]
    /\ clients' = clients \cup {c}
    /\ UNCHANGED <<source, queue, net, monitorSide, pages, restarts, authVars>>

WriteMessage(c) ==
    /\ handler[c] = "serving"
    /\ queue[c] # <<>> /\ Len(wire[c]) < WireBuffer
    /\ c \notin ended
    /\ queue' = [queue EXCEPT ![c] = Tail(@)]
    /\ wire' = [wire EXCEPT ![c] = Append(@, Head(queue[c]))]
    /\ UNCHANGED <<source, handler, clients, ended, monitorSide, pages, restarts, authVars>>

HangUp(c) ==
    /\ handler' = [handler EXCEPT ![c] = "none"]
    /\ clients' = clients \ {c}
    /\ queue' = [queue EXCEPT ![c] = <<>>]
    /\ ended' = IF c = link THEN ended \cup {c} ELSE ended \ {c}
    /\ UNCHANGED <<source, wire, monitorSide, pages, restarts, authVars>>

\* Fault: only a write finds out that the client has gone.
RemoveClientOnWrite(c) ==
    /\ handler[c] = "serving"
    /\ queue[c] # <<>>
    /\ c \in ended \/ Len(wire[c]) = WireBuffer
    /\ HangUp(c)

\* The reader has seen the end of the connection, or a write has failed: at once if
\* the connection has ended, by its deadline if the client does not read.  The
\* deferred calls remove the client and close the connection.
RemoveClient(c) ==
    /\ handler[c] = "serving"
    /\ c \in ended \/ (queue[c] # <<>> /\ Len(wire[c]) = WireBuffer)
    /\ HangUp(c)

---------------------------------------------------------------------------
\* The monitor's client

\* Connections that are over on both sides.  Which number the next one gets does not
\* matter.
Idle == {c \in Slots : handler[c] = "none" /\ link # c}

\* Fault: Run returns when it finds no hub, as while the hub restarts.
DialOnce(c) ==
    /\ restarts = 0
    /\ link = NoSlot
    /\ c \in Idle /\ \A d \in Idle : c <= d
    /\ Settled
    /\ link' = c
    /\ handler' = [handler EXCEPT ![c] = "upgraded"]
    /\ UNCHANGED <<source, clients, queue, net, feed, taken, sos, fanned, pages, restarts, authVars>>

\* runOnce: the hub accepts before it registers the client.
Dial(c) ==
    /\ link = NoSlot
    /\ c \in Idle /\ \A d \in Idle : c <= d
    /\ Settled
    /\ link' = c
    /\ handler' = [handler EXCEPT ![c] = "upgraded"]
    /\ UNCHANGED <<source, clients, queue, net, feed, taken, sos, fanned, pages, restarts, authVars>>

\* What translateEvent has a case for: all that the hub publishes.
Translated == Events

\* ReadMessage and broadcast.
ReadEvent ==
    /\ link # NoSlot
    /\ wire[link] # <<>>
    /\ wire' = [wire EXCEPT ![link] = Tail(@)]
    /\ feed' = IF Head(wire[link]) \in Translated THEN Offer(feed, Head(wire[link]), FeedBuffer) ELSE feed
    /\ UNCHANGED <<source, hubSide, ended, link, taken, sos, fanned, pages, restarts, authVars>>

\* Nothing has come for 60 seconds, time enough for the hub to register its client.
Silent(c) == wire[c] = <<>> /\ handler[c] # "upgraded"

\* The client's side of the connection is closed; what is still on it is lost.
CloseLink ==
    /\ link' = NoSlot
    /\ ended' = IF handler[link] = "none" THEN ended \ {link} ELSE ended \cup {link}
    /\ wire' = [wire EXCEPT ![link] = <<>>]

\* ReadMessage fails, at its deadline or because the connection has ended.
ReadFails ==
    /\ link # NoSlot
    /\ Silent(link) \/ link \in ended
    /\ CloseLink
    /\ UNCHANGED <<source, hubSide, feed, taken, sos, fanned, pages, restarts, authVars>>

---------------------------------------------------------------------------
\* The monitor's server

\* Store.Add.
Add(i) ==
    LET alerts == <<i>> \o sos
    IN  IF Len(alerts) > MaxAlerts THEN SubSeq(alerts, 1, MaxAlerts) ELSE alerts

TakeEvent ==
    /\ taken = <<>> /\ feed # <<>>
    /\ taken' = <<Head(feed)>>
    /\ feed' = Tail(feed)
    /\ sos' = IF Head(feed) \in Alerts THEN Add(Head(feed)) ELSE sos
    /\ UNCHANGED <<source, hubSide, net, link, fanned, pages, restarts, authVars>>

\* To all pages under the lock.
FanOut ==
    /\ taken # <<>>
    /\ LET i == Head(taken)
           Full(b) == b \in browsers /\ Len(pane[b]) >= TabBuffer
       IN  /\ pane' = [b \in Tabs |-> IF b \in browsers THEN Offer(pane[b], i, TabBuffer) ELSE pane[b]]
           /\ dropped' = [b \in Tabs |-> IF Full(b) THEN dropped[b] \cup {i} ELSE dropped[b]]
           /\ fanned' = fanned \cup {i}
    /\ taken' = <<>>
    /\ UNCHANGED <<source, hubSide, net, link, feed, sos, tab, browsers, shown, snapshot, visits, restarts, authVars>>

\* /ws: the session is looked at once, when the page connects.
OpenTab(b, l) ==
    /\ tab[b] = "closed" /\ Allowed(l)
    /\ visits < MaxVisits
    /\ visits' = visits + 1
    /\ tab' = [tab EXCEPT ![b] = "upgraded"]
    /\ UNCHANGED <<source, hubSide, net, monitorSide, browsers, pane, shown, snapshot, dropped, restarts, authVars>>

\* The changes that the counters include, at the first of the nine statements that read
\* them: what a later one includes as well comes as an event, too.
OverviewSnapshot == Counted \cap 1 .. committed

\* Fault: the overview is read before the channel is registered.
RegisterTabLate(b) ==
    /\ \/ /\ tab[b] = "upgraded"
          /\ tab' = [tab EXCEPT ![b] = "open"]
          /\ snapshot' = [snapshot EXCEPT ![b] = OverviewSnapshot]
          /\ UNCHANGED browsers
       \/ /\ tab[b] = "open" /\ b \notin browsers
          /\ browsers' = browsers \cup {b}
          /\ UNCHANGED <<tab, snapshot>>
    /\ UNCHANGED <<source, hubSide, net, monitorSide, pane, shown, dropped, visits, restarts, authVars>>

RegisterTab(b) ==
    /\ tab[b] = "upgraded"
    /\ tab' = [tab EXCEPT ![b] = "registered"]
    /\ browsers' = browsers \cup {b}
    /\ UNCHANGED <<source, hubSide, net, monitorSide, pane, shown, snapshot, dropped, visits, restarts, authVars>>

\* If one of the statements or the write fails, the page stays without an overview.
Snapshot(b) ==
    /\ tab[b] = "registered"
    /\ \/ /\ tab' = [tab EXCEPT ![b] = "open"]
          /\ snapshot' = [snapshot EXCEPT ![b] = OverviewSnapshot]
       \/ /\ tab' = [tab EXCEPT ![b] = "blank"]
          /\ UNCHANGED snapshot
    /\ UNCHANGED <<source, hubSide, net, monitorSide, browsers, pane, shown, dropped, visits, restarts, authVars>>

WriteTab(b) ==
    /\ tab[b] \in {"open", "blank"} /\ pane[b] # <<>>
    /\ shown' = [shown EXCEPT ![b] = Append(@, Head(pane[b]))]
    /\ pane' = [pane EXCEPT ![b] = Tail(@)]
    /\ UNCHANGED <<source, hubSide, net, monitorSide, tab, browsers, snapshot, dropped, visits, restarts, authVars>>

\* The page is closed, or does not read for five seconds.
RemoveTab(b) ==
    /\ tab[b] \in {"open", "blank"}
    /\ tab' = [tab EXCEPT ![b] = "closed"]
    /\ browsers' = browsers \ {b}
    /\ pane' = [pane EXCEPT ![b] = <<>>] /\ shown' = [shown EXCEPT ![b] = <<>>]
    /\ snapshot' = [snapshot EXCEPT ![b] = {}] /\ dropped' = [dropped EXCEPT ![b] = {}]
    /\ UNCHANGED <<source, hubSide, net, monitorSide, visits, restarts, authVars>>

---------------------------------------------------------------------------
\* Restarts

\* What was to be published is lost with the hub.
RestartHub ==
    /\ restarts < MaxRestarts
    /\ restarts' = restarts + 1
    /\ pending' = {}
    /\ handler' = [c \in Slots |-> "none"] /\ clients' = {}
    /\ queue' = [c \in Slots |-> <<>>]
    /\ wire' = [c \in Slots |-> IF c = link THEN wire[c] ELSE <<>>]
    /\ ended' = {link} \cap Slots
    /\ UNCHANGED <<committed, published, monitorSide, pages, authVars>>

\* The SOS feed, the sessions and the pages are lost with the monitor.
RestartMonitor ==
    /\ restarts < MaxRestarts
    /\ restarts' = restarts + 1
    /\ IF link = NoSlot THEN UNCHANGED <<link, net>> ELSE CloseLink
    /\ feed' = <<>> /\ taken' = <<>> /\ sos' = <<>>
    /\ tab' = [b \in Tabs |-> "closed"] /\ browsers' = {}
    /\ pane' = [b \in Tabs |-> <<>>] /\ shown' = [b \in Tabs |-> <<>>]
    /\ snapshot' = [b \in Tabs |-> {}] /\ dropped' = [b \in Tabs |-> {}]
    /\ SessionsLost
    /\ UNCHANGED <<source, hubSide, fanned, visits>>

---------------------------------------------------------------------------
\* Apart, until the stream begins, and again when a restart has ended the session and
\* before the monitor has connected.
Authenticate ==
    /\ Apart => ~Settled \/ (sessions = {} /\ link = NoSlot)
    /\ SessionStep
    /\ UNCHANGED streamVars

Logout ==
    /\ Apart => ~Settled
    /\ \E l \in Logins : EndSession(l)
    /\ UNCHANGED streamVars

HubStep == \E i \in Events : Publish(i)
Handle(c) == AddClient(c) \/ WriteMessage(c) \/ RemoveClient(c)
Connect == \E c \in Slots : Dial(c)
MonitorStep == TakeEvent \/ FanOut
ServeTab(b) == RegisterTab(b) \/ Snapshot(b) \/ WriteTab(b)

Next ==
    \/ Commit \/ HubStep
    \/ \E c \in Slots : Handle(c)
    \/ Connect \/ ReadEvent \/ ReadFails
    \/ MonitorStep
    \/ \E b \in Tabs, l \in Logins : OpenTab(b, l)
    \/ \E b \in Tabs : ServeTab(b) \/ RemoveTab(b)
    \/ RestartHub \/ RestartMonitor
    \/ Authenticate \/ Logout

\* Goroutines run, and the client tries again after every failure; events, pages and
\* failures need not come.
Fairness ==
    /\ WF_vars(HubStep) /\ WF_vars(Connect) /\ WF_vars(MonitorStep)
    /\ WF_vars(ReadEvent) /\ WF_vars(ReadFails)
    /\ \A c \in Slots : WF_vars(Handle(c))
    /\ \A b \in Tabs : WF_vars(ServeTab(b))

Spec == Init /\ [][Next]_vars /\ Fairness

---------------------------------------------------------------------------
\* Properties

Place(i) == CHOOSE j \in 1 .. Len(published) : published[j] = i
Follows(s) == \A j \in 1 .. Len(s) - 1 : Place(s[j]) < Place(s[j + 1])

\* Nothing that the monitor passes on is repeated or overtakes another event, however
\* often it reconnects and whatever is dropped: every page, and the SOS feed from its
\* end, follow the order in which the hub published.
InOrder ==
    /\ Follows(Reverse(sos))
    /\ \A b \in Tabs : Follows(shown[b] \o pane[b])

\* A page with an overview is up to date in what the overview counts: each such change
\* that went through the monitor was counted in it, is an event the page has got or
\* will get, or, the one exception, found its channel full.  None falls between the
\* counting and the first event.
NoGap ==
    \A b \in Tabs : tab[b] = "open" =>
        fanned \cap Counted \subseteq
            snapshot[b] \cup ToSet(shown[b]) \cup ToSet(pane[b]) \cup dropped[b]

\* The hub's clients do not accumulate: an entry whose connection has ended goes.
ClientsReaped == \A c \in Slots : c \in clients /\ c \in ended ~> c \notin clients

\* The monitor comes back, after any failure, restart or silence: again and again it
\* is registered with the hub over the connection it reads.
Reconnects == <>[]Settled => []<>(link # NoSlot /\ link \in clients)
=============================================================================
