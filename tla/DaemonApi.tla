----------------------------- MODULE DaemonApi -----------------------------
(***************************************************************************)
(* hub/internal/daemonapi, the API through which apps use the mesh, and    *)
(* sdk/go, the client in the apps.  Every request is served by a goroutine *)
(* of its own.  Server.mu guards the maps for a few lines at a time, so a  *)
(* request is a sequence of steps: one per critical section, per statement *)
(* on the database and per channel operation.                              *)
(*                                                                         *)
(* A client stands for its session: it has a token once it is registered.  *)
(* Payloads are the members of Mail and Posts, tokens never collide, and   *)
(* malformed requests, which change nothing, are left out.                 *)
(***************************************************************************)
EXTENDS Integers, Sequences, FiniteSets

CONSTANTS
    Clients,      \* SDK clients, each with the app it registers
    Mail,         \* payloads addressed to this node
    Empty,        \* those of length 0
    Posts,        \* publish requests
    Polls,        \* subscribe requests
    Lookups,      \* discover-peers requests
    Topics,
    TopicOf,      \* TopicOf[x]: the topic of post or poll x
    Caller,       \* Caller[p]: the client that makes poll p
    Subject,      \* Subject[d]: the client whose app lookup d asks for
    Buffer,       \* capacity of a subscriber's channel, 8 in the code
    Bannable,     \* clients whose app the admin may ban
    MaxVerdicts,  \* bound: changes of a ban in the time modelled
    MaxCrashes,   \* bound: restarts of the hub
    MaxServices,  \* bound: how many of mail, topics and lookups are in use
    None

ASSUME DaemonAssumption ==
    /\ Empty \subseteq Mail
    /\ TopicOf \in [Posts \cup Polls -> Topics]
    /\ Caller \in [Polls -> Clients]
    /\ Subject \in [Lookups -> Clients]
    /\ Bannable \subseteq Clients
    /\ Buffer \in Nat /\ MaxVerdicts \in Nat /\ MaxCrashes \in Nat /\ MaxServices \in Nat
    /\ None \notin Polls /\ None \notin Posts
    /\ Clients \cap Lookups = {}

VARIABLES
    reg,        \* reg[c]: how far c's registration is
    presence,   \* clients with a row in app_presence, persistent
    banned,     \* clients whose app is banned on this hub, persistent
    arrived,    \* the payloads handed to DeliverLocal, in order
    inbox,      \* Server.inbox of this node: positions in arrived
    loop,       \* loop[c]: where the Receive loop of client c is
    reply,      \* reply[c]: what the server answers it, as a sequence
    given,      \* given[c]: what the app of c has received
    topics,     \* Server.topics: topics[t][c], the poll whose channel it is
    chan,       \* chan[p]: the channel of poll p
    poll,       \* poll[p]: how far poll p is
    result,     \* result[p]: the post that poll p returned
    post,       \* post[m]: how far publication m is
    targets,    \* targets[m]: the channels it has still to send to
    lookup,     \* lookup[d]: how far lookup d is
    freed,      \* history: registrations and lookups during which, at some
                \* moment, the app was not banned
    verdicts, crashes

registration == <<reg, presence>>
bans == <<banned, verdicts>>
mail == <<arrived, inbox, loop, reply, given>>
pubsub == <<topics, chan, poll, result, post, targets>>
vars == <<registration, bans, mail, pubsub, lookup, freed, crashes>>

Sessions == {c \in Clients : reg[c] \in {"session", "done"}}
Ready == {c \in Clients : reg[c] = "done"}

TypeOK ==
    /\ reg \in [Clients -> {"new", "checked", "present", "session", "done", "refused"}]
    /\ presence \subseteq Clients /\ banned \subseteq Bannable
    /\ Sessions \subseteq presence
    /\ arrived \in Seq(Mail)
    /\ inbox \in Seq(1 .. Len(arrived))
    /\ loop \in [Clients -> {"closed", "asking", "answered"}]
    /\ reply \in [Clients -> Seq(1 .. Len(arrived))]
    /\ given \in [Clients -> Seq(1 .. Len(arrived))]
    /\ topics \in [Topics -> [Clients -> Polls \cup {None}]]
    /\ chan \in [Polls -> Seq(Posts)]
    /\ \A p \in Polls : Len(chan[p]) <= Buffer
    /\ poll \in [Polls -> {"new", "waiting", "leaving", "done"}]
    /\ result \in [Polls -> Posts \cup {None}]
    /\ post \in [Posts -> {"new", "sending", "done"}]
    /\ targets \in [Posts -> SUBSET Polls]
    /\ lookup \in [Lookups -> {"new", "listed", "found", "empty"}]
    /\ freed \subseteq Clients \cup Lookups
    /\ verdicts \in 0 .. MaxVerdicts /\ crashes \in 0 .. MaxCrashes

Init ==
    /\ reg = [c \in Clients |-> "new"]
    /\ presence = {} /\ banned = {}
    /\ arrived = <<>> /\ inbox = <<>>
    /\ loop = [c \in Clients |-> "closed"]
    /\ reply = [c \in Clients |-> <<>>]
    /\ given = [c \in Clients |-> <<>>]
    /\ topics = [t \in Topics |-> [c \in Clients |-> None]]
    /\ chan = [p \in Polls |-> <<>>]
    /\ poll = [p \in Polls |-> "new"]
    /\ result = [p \in Polls |-> None]
    /\ post = [m \in Posts |-> "new"]
    /\ targets = [m \in Posts |-> {}]
    /\ lookup = [d \in Lookups |-> "new"]
    /\ freed = {}
    /\ verdicts = 0 /\ crashes = 0

\* The bound on services: they share the sessions and nothing else.
InUse(s) ==
    CASE s = "mail" -> arrived # <<>>
      [] s = "topics" -> \E x \in Posts \cup Polls : (x \in Polls /\ poll[x] # "new") \/ (x \in Posts /\ post[x] # "new")
      [] s = "lookups" -> \E d \in Lookups : lookup[d] # "new"
MayUse(s) ==
    Cardinality({u \in {"mail", "topics", "lookups"} : u = s \/ InUse(u)}) <= MaxServices

---------------------------------------------------------------------------
\* handleRegister

\* Fault: the ban is not looked up.
CheckBanSkipped(c) ==
    /\ reg[c] = "new"
    /\ reg' = [reg EXCEPT ![c] = "checked"]
    /\ freed' = IF c \in banned THEN freed ELSE freed \cup {c}
    /\ UNCHANGED <<presence, bans, mail, pubsub, lookup, crashes>>

\* IsLocallyEnforced.
CheckBan(c) ==
    /\ reg[c] = "new"
    /\ reg' = [reg EXCEPT ![c] = IF c \in banned THEN "refused" ELSE "checked"]
    /\ freed' = IF c \in banned THEN freed ELSE freed \cup {c}
    /\ UNCHANGED <<presence, bans, mail, pubsub, lookup, crashes>>

ReportPresence(c) ==
    /\ reg[c] = "checked"
    /\ reg' = [reg EXCEPT ![c] = "present"]
    /\ presence' = presence \cup {c}
    /\ UNCHANGED <<bans, mail, pubsub, lookup, freed, crashes>>

\* Fault: the session is opened before the presence is reported.
OpenSessionEarly(c) ==
    /\ reg[c] \in {"checked", "present"}
    /\ reg' = [reg EXCEPT ![c] = "session"]
    /\ UNCHANGED <<presence, bans, mail, pubsub, lookup, freed, crashes>>

OpenSession(c) ==
    /\ reg[c] = "present"
    /\ reg' = [reg EXCEPT ![c] = "session"]
    /\ UNCHANGED <<presence, bans, mail, pubsub, lookup, freed, crashes>>

\* The client has its token.
Registered(c) ==
    /\ reg[c] = "session"
    /\ reg' = [reg EXCEPT ![c] = "done"]
    /\ UNCHANGED <<presence, bans, mail, pubsub, lookup, freed, crashes>>

\* The admin's verdict changes, here or by gossip (see BanGovernance).
ChangeBan(c) ==
    /\ verdicts < MaxVerdicts
    /\ verdicts' = verdicts + 1
    /\ banned' = IF c \in banned THEN banned \ {c} ELSE banned \cup {c}
    /\ freed' = freed \cup (IF c \in banned THEN {c} \cup {d \in Lookups :
                                Subject[d] = c /\ lookup[d] = "listed"} ELSE {})
    /\ UNCHANGED <<registration, mail, pubsub, lookup, crashes>>

---------------------------------------------------------------------------
\* Mail

\* DeliverLocal, called by the DTN engine.
DeliverLocal(m) ==
    /\ MayUse("mail")
    /\ \A i \in 1 .. Len(arrived) : arrived[i] # m
    /\ arrived' = Append(arrived, m)
    /\ inbox' = Append(inbox, Len(arrived) + 1)
    /\ UNCHANGED <<registration, bans, loop, reply, given, pubsub, lookup, freed, crashes>>

\* The app calls Receive, which polls until there is nothing or an error.
StartReceive(c) ==
    /\ c \in Ready
    /\ loop[c] = "closed"
    /\ inbox # <<>>
    /\ loop' = [loop EXCEPT ![c] = "asking"]
    /\ UNCHANGED <<registration, bans, arrived, inbox, reply, given, pubsub, lookup, freed, crashes>>

\* Fault: the payload stays in the inbox until it has been answered.
HandleReceivePeek(c) ==
    /\ loop[c] = "asking"
    /\ loop' = [loop EXCEPT ![c] = "answered"]
    /\ reply' = [reply EXCEPT ![c] = SubSeq(inbox, 1, 1)]
    /\ UNCHANGED <<registration, bans, arrived, inbox, given, pubsub, lookup, freed, crashes>>

\* handleReceive takes the first payload off the inbox.  A copy of an empty one is
\* nil, and answered like an empty inbox.
HandleReceive(c) ==
    /\ loop[c] = "asking"
    /\ loop' = [loop EXCEPT ![c] = "answered"]
    /\ reply' = [reply EXCEPT ![c] =
                    IF inbox # <<>> /\ arrived[Head(inbox)] \notin Empty
                    THEN <<Head(inbox)>> ELSE <<>>]
    /\ inbox' = IF inbox = <<>> THEN inbox ELSE Tail(inbox)
    /\ UNCHANGED <<registration, bans, arrived, given, pubsub, lookup, freed, crashes>>

\* pollReceive has the answer: the loop goes on after a payload and ends after none.
PollReceive(c) ==
    /\ loop[c] = "answered"
    /\ given' = [given EXCEPT ![c] = @ \o reply[c]]
    /\ loop' = [loop EXCEPT ![c] = IF reply[c] = <<>> THEN "closed" ELSE "asking"]
    /\ reply' = [reply EXCEPT ![c] = <<>>]
    /\ UNCHANGED <<registration, bans, arrived, inbox, pubsub, lookup, freed, crashes>>

\* The connection breaks or the client's timeout runs out: the answer is lost.
PollFails(c) ==
    /\ loop[c] = "answered"
    /\ loop' = [loop EXCEPT ![c] = "closed"]
    /\ reply' = [reply EXCEPT ![c] = <<>>]
    /\ UNCHANGED <<registration, bans, arrived, inbox, given, pubsub, lookup, freed, crashes>>

---------------------------------------------------------------------------
\* Publish and subscribe

\* handleSubscribe registers a channel under its session, in place of the one that
\* another poll of the session may have there.
Subscribe(p) ==
    /\ MayUse("topics")
    /\ Caller[p] \in Ready
    /\ poll[p] = "new"
    /\ poll' = [poll EXCEPT ![p] = "waiting"]
    /\ topics' = [topics EXCEPT ![TopicOf[p]][Caller[p]] = p]
    /\ UNCHANGED <<registration, bans, mail, chan, result, post, targets, lookup, freed, crashes>>

\* The select takes a payload: there may be more, which nobody will read.
TakePost(p) ==
    /\ poll[p] = "waiting"
    /\ chan[p] # <<>>
    /\ result' = [result EXCEPT ![p] = Head(chan[p])]
    /\ chan' = [chan EXCEPT ![p] = Tail(@)]
    /\ poll' = [poll EXCEPT ![p] = "leaving"]
    /\ UNCHANGED <<registration, bans, mail, topics, post, targets, lookup, freed, crashes>>

\* Fault: a poll whose entry has been replaced waits for a post.
PollTimeoutOfEntry(p) ==
    /\ poll[p] = "waiting"
    /\ topics[TopicOf[p]][Caller[p]] = p
    /\ poll' = [poll EXCEPT ![p] = "leaving"]
    /\ UNCHANGED <<registration, bans, mail, topics, chan, result, post, targets, lookup, freed, crashes>>

\* The select takes the timeout or the end of the request, also when a payload is
\* ready.
PollTimeout(p) ==
    /\ poll[p] = "waiting"
    /\ poll' = [poll EXCEPT ![p] = "leaving"]
    /\ UNCHANGED <<registration, bans, mail, topics, chan, result, post, targets, lookup, freed, crashes>>

\* Fault: a poll that returns a post leaves its entry behind.
UnsubscribeLeak(p) ==
    /\ poll[p] = "leaving"
    /\ poll' = [poll EXCEPT ![p] = "done"]
    /\ topics' = IF result[p] = None
                 THEN [topics EXCEPT ![TopicOf[p]][Caller[p]] = None] ELSE topics
    /\ UNCHANGED <<registration, bans, mail, chan, result, post, targets, lookup, freed, crashes>>

\* The deferred delete of whatever is registered under the session.
Unsubscribe(p) ==
    /\ poll[p] = "leaving"
    /\ poll' = [poll EXCEPT ![p] = "done"]
    /\ topics' = [topics EXCEPT ![TopicOf[p]][Caller[p]] = None]
    /\ UNCHANGED <<registration, bans, mail, chan, result, post, targets, lookup, freed, crashes>>

\* Fault: a post goes to every poll of its topic.
SubscribersOpen(t) == {p \in Polls : TopicOf[p] = t /\ poll[p] = "waiting"}

\* The channels registered for a topic.
Subscribers(t) == {topics[t][c] : c \in Clients} \ {None}

\* broadcastTopic copies the channels under the lock...
Publish(m) ==
    /\ MayUse("topics")
    /\ Ready # {}
    /\ post[m] = "new"
    /\ post' = [post EXCEPT ![m] = "sending"]
    /\ targets' = [targets EXCEPT ![m] = Subscribers(TopicOf[m])]
    /\ UNCHANGED <<registration, bans, mail, topics, chan, poll, result, lookup, freed, crashes>>

\* ...and sends without it, to polls that may have ended, dropping the payload
\* where the channel is full.
Broadcast(m, p) ==
    /\ p \in targets[m]
    /\ targets' = [targets EXCEPT ![m] = @ \ {p}]
    /\ chan' = IF Len(chan[p]) < Buffer THEN [chan EXCEPT ![p] = Append(@, m)] ELSE chan
    /\ UNCHANGED <<registration, bans, mail, topics, poll, result, post, lookup, freed, crashes>>

Published(m) ==
    /\ post[m] = "sending" /\ targets[m] = {}
    /\ post' = [post EXCEPT ![m] = "done"]
    /\ UNCHANGED <<registration, bans, mail, topics, chan, poll, result, targets, lookup, freed, crashes>>

---------------------------------------------------------------------------
\* handleDiscoverPeers

ListPeers(d) ==
    /\ MayUse("lookups")
    /\ Ready # {}
    /\ lookup[d] = "new"
    /\ lookup' = [lookup EXCEPT ![d] = IF Subject[d] \in presence THEN "listed" ELSE "empty"]
    /\ freed' = IF Subject[d] \in banned THEN freed ELSE freed \cup {d}
    /\ UNCHANGED <<registration, bans, mail, pubsub, crashes>>

\* Every peer listed is looked up again and left out if its app is banned.
FilterPeers(d) ==
    /\ lookup[d] = "listed"
    /\ lookup' = [lookup EXCEPT ![d] = IF Subject[d] \in banned THEN "empty" ELSE "found"]
    /\ UNCHANGED <<registration, bans, mail, pubsub, freed, crashes>>

---------------------------------------------------------------------------
\* The hub restarts: sessions, inbox and topics are gone, requests fail, and apps
\* register anew.
Crash ==
    /\ crashes < MaxCrashes
    /\ crashes' = crashes + 1
    /\ reg' = [c \in Clients |-> "new"]
    /\ freed' = freed \ Clients
    /\ inbox' = <<>>
    /\ loop' = [c \in Clients |-> "closed"]
    /\ reply' = [c \in Clients |-> <<>>]
    /\ topics' = [t \in Topics |-> [c \in Clients |-> None]]
    /\ chan' = [p \in Polls |-> <<>>]
    /\ poll' = [p \in Polls |-> IF poll[p] = "new" THEN "new" ELSE "done"]
    /\ post' = [m \in Posts |-> IF post[m] = "new" THEN "new" ELSE "done"]
    /\ targets' = [m \in Posts |-> {}]
    /\ lookup' = [d \in Lookups |-> IF lookup[d] = "listed" THEN "empty" ELSE lookup[d]]
    /\ UNCHANGED <<presence, bans, arrived, given, result>>

Register(c) == CheckBan(c) \/ ReportPresence(c) \/ OpenSession(c) \/ Registered(c)
Receive(c) == HandleReceive(c) \/ PollReceive(c) \/ PollFails(c)
PollStep(p) == TakePost(p) \/ PollTimeout(p) \/ Unsubscribe(p)
DiscoverPeers(d) == ListPeers(d) \/ FilterPeers(d)

Next ==
    \/ Crash
    \/ \E c \in Clients : Register(c) \/ StartReceive(c) \/ Receive(c)
    \/ \E c \in Bannable : ChangeBan(c)
    \/ \E m \in Mail : DeliverLocal(m)
    \/ \E p \in Polls : Subscribe(p) \/ PollStep(p)
    \/ \E m \in Posts : Publish(m) \/ Published(m) \/ \E p \in Polls : Broadcast(m, p)
    \/ \E d \in Lookups : DiscoverPeers(d)

\* Goroutines run and timeouts fire; apps need not do anything.
Fairness ==
    /\ \A c \in Clients : WF_vars(Receive(c))
    /\ \A p \in Polls : WF_vars(PollStep(p))
    /\ \A m \in Posts : WF_vars(Published(m) \/ \E p \in Polls : Broadcast(m, p))

Spec == Init /\ [][Next]_vars /\ Fairness

---------------------------------------------------------------------------
\* Properties

\* The inbox, the requests that empty it and the clients' loops implement a
\* Mailbox: no message reaches two clients, or one client twice or out of order,
\* with clients racing, answers lost and the hub restarted.
Box == INSTANCE Mailbox WITH
    Clients <- Clients, Mail <- Mail, arrived <- arrived, given <- given
ImplementsMailbox == Box!Spec

\* Server.topics holds no channel of a poll that is over, so polls leak nothing,
\* also when polls of one session replace each other's entry.
NoChannelLeaks ==
    \A t \in Topics, c \in Clients :
        topics[t][c] # None => poll[topics[t][c]] \in {"waiting", "leaving"}

\* A post reaches a session once, however its polls follow or overlap each other
\* and however late the sends are.
OncePerSession ==
    \A c \in Clients, m \in Posts :
        Cardinality({p \in Polls : Caller[p] = c /\
            (p \in targets[m] \/ result[p] = m \/ \E i \in 1 .. Len(chan[p]) : chan[p][i] = m)}) <= 1

\* An app gets a session, and shows up in a lookup, only if at some moment of that
\* request it was not banned: verdicts may change between the check and its effect,
\* but one that was in force throughout is never missed.
BansRespected ==
    /\ \A c \in Clients : reg[c] \in {"checked", "present", "session", "done"} => c \in freed
    /\ \A d \in Lookups : lookup[d] = "found" => d \in freed

\* Every poll and every publication ends, whatever the others do.
RequestsEnd ==
    /\ \A p \in Polls : poll[p] = "waiting" ~> poll[p] = "done"
    /\ \A m \in Posts : post[m] = "sending" ~> post[m] = "done"
=============================================================================
