-------------------------- MODULE DaemonApiProofs --------------------------
(***************************************************************************)
(* Theorems about DaemonApi for all sets of clients, messages, posts,      *)
(* polls and lookups, all buffers and any number of verdicts and crashes.  *)
(* The services share little, and so do the parts of the invariant: one    *)
(* for bans, one for mail and one for topics.                              *)
(***************************************************************************)
EXTENDS DaemonApi, SequenceTheorems, FiniteSetTheorems, TLAPS

RegisterType ==
    /\ reg \in [Clients -> {"new", "checked", "present", "session", "done", "refused"}]
    /\ presence \subseteq Clients /\ banned \subseteq Bannable
    /\ Sessions \subseteq presence
    /\ lookup \in [Lookups -> {"new", "listed", "found", "empty"}]
    /\ freed \subseteq Clients \cup Lookups
    /\ verdicts \in 0 .. MaxVerdicts /\ crashes \in 0 .. MaxCrashes

\* A session is about to be opened for an app that has a row, and the app of a lookup
\* under way has been banned throughout, or is known not to have been.
RequestsInformed ==
    /\ \A c \in Clients : reg[c] = "present" => c \in presence
    /\ \A d \in Lookups : lookup[d] = "listed" /\ d \notin freed => Subject[d] \in banned

RegisterInv == RegisterType /\ RequestsInformed /\ BansRespected

MailType ==
    /\ arrived \in Seq(Mail)
    /\ inbox \in Seq(1 .. Len(arrived))
    /\ loop \in [Clients -> {"closed", "asking", "answered"}]
    /\ reply \in [Clients -> Seq(1 .. Len(arrived))]
    /\ given \in [Clients -> Seq(1 .. Len(arrived))]

\* Nobody is given, or about to be given, what is still in the inbox or with another:
\* messages are older the further they have come.
MailInOrder ==
    /\ \A i, j \in 1 .. Len(inbox) : i < j => inbox[i] < inbox[j]
    /\ \A c \in Clients : reply[c] # <<>> => reply[c] = <<reply[c][1]>>
    /\ \A c \in Clients : \A j \in 1 .. Len(given[c]), i \in 1 .. Len(inbox) : given[c][j] < inbox[i]
    /\ \A c \in Clients : reply[c] # <<>> =>
        /\ \A i \in 1 .. Len(inbox) : reply[c][1] < inbox[i]
        /\ \A j \in 1 .. Len(given[c]) : given[c][j] < reply[c][1]
        /\ \A d \in Clients : \A j \in 1 .. Len(given[d]) : given[d][j] # reply[c][1]
        /\ \A d \in Clients \ {c} : reply[d] # <<>> => reply[d][1] # reply[c][1]

MailInv == MailType /\ MailInOrder

TopicType ==
    /\ topics \in [Topics -> [Clients -> Polls \cup {None}]]
    /\ chan \in [Polls -> Seq(Posts)]
    /\ \A p \in Polls : Len(chan[p]) <= Buffer
    /\ poll \in [Polls -> {"new", "waiting", "leaving", "done"}]
    /\ result \in [Polls -> Posts \cup {None}]
    /\ post \in [Posts -> {"new", "sending", "done"}]
    /\ targets \in [Posts -> SUBSET Polls]

\* An entry is a poll of that session on that topic.
EntriesOwn ==
    \A t \in Topics, c \in Clients : topics[t][c] # None =>
        TopicOf[topics[t][c]] = t /\ Caller[topics[t][c]] = c

\* Post m is on its way to poll p, or there.
Has(p, m) == p \in targets[m] \/ result[p] = m \/ \E i \in 1 .. Len(chan[p]) : chan[p][i] = m

\* A post that has not been published is nowhere, and one that has is with one poll of
\* a session.
PostsOnce ==
    /\ \A m \in Posts, p \in Polls : post[m] = "new" => ~Has(p, m)
    /\ \A m \in Posts, p, q \in Polls : Caller[p] = Caller[q] /\ Has(p, m) /\ Has(q, m) => p = q

TopicInv == TopicType /\ EntriesOwn /\ NoChannelLeaks /\ PostsOnce

\* The inductive invariant.
IInv == RegisterInv /\ MailInv /\ TopicInv

---------------------------------------------------------------------------
\* Registrations and lookups

LEMMA RegisterInit == Init => RegisterInv
  BY DaemonAssumption DEF Init, RegisterInv, RegisterType, RequestsInformed, BansRespected, Sessions

LEMMA RegisterStep == RegisterInv /\ [Next]_vars => RegisterInv'
<1> SUFFICES ASSUME RegisterInv, [Next]_vars PROVE RegisterInv'
  OBVIOUS
<1> USE DaemonAssumption DEF RegisterInv, RegisterType, RequestsInformed, BansRespected, Sessions, registration, bans
<1>1. CASE UNCHANGED <<registration, bans, lookup, freed, crashes>>
  BY <1>1
<1>2. ASSUME NEW c \in Clients, Register(c) PROVE RegisterInv'
  <2>1. CASE CheckBan(c)
    BY <2>1 DEF CheckBan
  <2>2. CASE ReportPresence(c)
    BY <2>2 DEF ReportPresence
  <2>3. CASE OpenSession(c)
    BY <2>3 DEF OpenSession
  <2>4. CASE Registered(c)
    BY <2>4 DEF Registered
  <2> QED
    BY <1>2, <2>1, <2>2, <2>3, <2>4 DEF Register
<1>3. ASSUME NEW c \in Bannable, ChangeBan(c) PROVE RegisterInv'
  BY <1>3 DEF ChangeBan
<1>4. ASSUME NEW d \in Lookups, DiscoverPeers(d) PROVE RegisterInv'
  BY <1>4 DEF DiscoverPeers, ListPeers, FilterPeers
<1>5. CASE Crash
  BY <1>5 DEF Crash
<1>6. CASE \/ \E c \in Clients : StartReceive(c) \/ Receive(c)
           \/ \E m \in Mail : DeliverLocal(m)
           \/ \E p \in Polls : Subscribe(p) \/ PollStep(p)
           \/ \E m \in Posts : Publish(m) \/ Published(m) \/ \E p \in Polls : Broadcast(m, p)
           \/ UNCHANGED vars
  BY <1>1, <1>6 DEF StartReceive, Receive, HandleReceive, PollReceive, PollFails, DeliverLocal,
     Subscribe, PollStep, TakePost, PollTimeout, Unsubscribe, Publish, Published, Broadcast, vars
<1> QED
  BY <1>2, <1>3, <1>4, <1>5, <1>6 DEF Next

---------------------------------------------------------------------------
\* Topics

LEMMA TopicInit == Init => TopicInv
<1> SUFFICES ASSUME Init PROVE TopicInv
  OBVIOUS
<1>1. TopicType
  BY DaemonAssumption DEF Init, TopicType
<1>2. EntriesOwn /\ NoChannelLeaks
  BY DEF Init, EntriesOwn, NoChannelLeaks
<1>3. \A m \in Posts, p \in Polls : ~Has(p, m)
  BY DaemonAssumption DEF Init, Has
<1> QED
  BY <1>1, <1>2, <1>3 DEF TopicInv, PostsOnce

\* Only publishing brings a post to a poll that did not have it.
LEMMA PostsKept ==
  ASSUME TopicInv,
         \A m \in Posts : post'[m] = "new" => post[m] = "new",
         \A m \in Posts, p \in Polls : Has(p, m)' => Has(p, m)
  PROVE  PostsOnce'
  BY DEF TopicInv, PostsOnce

\* The steps of a poll.
LEMMA PollKeeps ==
  ASSUME TopicInv, NEW p \in Polls, Subscribe(p) \/ PollStep(p)
  PROVE  TopicInv'
<1> USE DaemonAssumption
<1>1. CASE Subscribe(p)
  <2> USE <1>1 DEF Subscribe
  <2>1. TopicType'
    BY DEF TopicInv, TopicType
  <2>2. EntriesOwn'
    BY DEF TopicInv, TopicType, EntriesOwn
  <2>3. NoChannelLeaks'
    BY DEF TopicInv, TopicType, NoChannelLeaks
  <2>4. PostsOnce'
    BY PostsKept DEF Has
  <2> QED
    BY <2>1, <2>2, <2>3, <2>4 DEF TopicInv
<1>2. CASE TakePost(p)
  <2> USE <1>2 DEF TakePost
  <2>1. /\ chan[p] \in Seq(Posts) /\ chan[p] # <<>> /\ Len(chan[p]) \in Nat
        /\ Len(chan[p]) <= Buffer
    BY DEF TopicInv, TopicType
  <2>2. /\ Head(chan[p]) \in Posts /\ Head(chan[p]) = chan[p][1] /\ 1 \in 1 .. Len(chan[p])
        /\ Tail(chan[p]) \in Seq(Posts) /\ Len(Tail(chan[p])) = Len(chan[p]) - 1
        /\ \A i \in 1 .. Len(Tail(chan[p])) : Tail(chan[p])[i] = chan[p][i + 1] /\ i + 1 \in 1 .. Len(chan[p])
    BY <2>1, HeadTailProperties
  <2>3. TopicType'
    BY <2>1, <2>2 DEF TopicInv, TopicType
  <2>4. EntriesOwn' /\ NoChannelLeaks'
    BY DEF TopicInv, TopicType, EntriesOwn, NoChannelLeaks
  <2>5. \A m \in Posts, q \in Polls : Has(q, m)' => Has(q, m)
    <3> SUFFICES ASSUME NEW m \in Posts, NEW q \in Polls, Has(q, m)' PROVE Has(q, m)
      OBVIOUS
    <3>1. CASE q # p
      BY <3>1 DEF Has, TopicInv, TopicType
    <3>2. CASE q = p
      <4>1. chan'[p] = Tail(chan[p]) /\ result'[p] = Head(chan[p]) /\ targets' = targets
        BY DEF TopicInv, TopicType
      <4> QED
        BY <2>2, <3>2, <4>1 DEF Has
    <3> QED
      BY <3>1, <3>2
  <2>6. PostsOnce'
    BY <2>5, PostsKept
  <2> QED
    BY <2>3, <2>4, <2>6 DEF TopicInv
<1>3. CASE PollTimeout(p)
  <2> USE <1>3 DEF PollTimeout
  <2>1. TopicType' /\ EntriesOwn'
    BY DEF TopicInv, TopicType, EntriesOwn
  <2>2. NoChannelLeaks'
    BY DEF TopicInv, TopicType, NoChannelLeaks
  <2>3. PostsOnce'
    BY PostsKept DEF Has
  <2> QED
    BY <2>1, <2>2, <2>3 DEF TopicInv
<1>4. CASE Unsubscribe(p)
  <2> USE <1>4 DEF Unsubscribe
  <2>1. TopicType'
    BY DEF TopicInv, TopicType
  <2>2. \A t \in Topics, c \in Clients : topics'[t][c] # None =>
            topics'[t][c] = topics[t][c] /\ ~(t = TopicOf[p] /\ c = Caller[p])
    BY DEF TopicInv, TopicType
  <2>3. EntriesOwn'
    BY <2>2 DEF TopicInv, EntriesOwn
  <2>4. NoChannelLeaks'
    BY <2>2 DEF TopicInv, TopicType, EntriesOwn, NoChannelLeaks
  <2>5. PostsOnce'
    BY PostsKept DEF Has
  <2> QED
    BY <2>1, <2>3, <2>4, <2>5 DEF TopicInv
<1> QED
  BY <1>1, <1>2, <1>3, <1>4 DEF PollStep

\* broadcastTopic: one channel per session is copied.
LEMMA PublishKeeps ==
  ASSUME TopicInv, NEW m \in Posts, Publish(m)
  PROVE  TopicInv'
<1> USE DaemonAssumption
<1>1. /\ post[m] = "new"
      /\ post' = [post EXCEPT ![m] = "sending"]
      /\ targets' = [targets EXCEPT ![m] = Subscribers(TopicOf[m])]
      /\ UNCHANGED <<topics, chan, poll, result>>
  BY DEF Publish
<1>2. Subscribers(TopicOf[m]) \subseteq Polls
  BY DEF Subscribers, TopicInv, TopicType
<1>3. TopicType'
  BY <1>1, <1>2 DEF TopicInv, TopicType
<1>4. EntriesOwn' /\ NoChannelLeaks'
  BY <1>1 DEF TopicInv, EntriesOwn, NoChannelLeaks
<1>5. \A p, q \in Subscribers(TopicOf[m]) : Caller[p] = Caller[q] => p = q
  BY DEF Subscribers, TopicInv, EntriesOwn
<1>6. \A p \in Polls : Has(p, m)' => p \in Subscribers(TopicOf[m])
  BY <1>1 DEF Has, TopicInv, TopicType, PostsOnce
<1>7. \A k \in Posts \ {m}, p \in Polls : Has(p, k)' => Has(p, k)
  BY <1>1 DEF Has, TopicInv, TopicType
<1>8. \A k \in Posts : post'[k] = "new" => k # m /\ post[k] = "new"
  BY <1>1 DEF TopicInv, TopicType
<1>9. PostsOnce'
  BY <1>5, <1>6, <1>7, <1>8 DEF TopicInv, PostsOnce
<1> QED
  BY <1>3, <1>4, <1>9 DEF TopicInv

\* A send, to a poll that may be over, and the end of a publication.
LEMMA BroadcastKeeps ==
  ASSUME TopicInv, NEW m \in Posts, Published(m) \/ \E p \in Polls : Broadcast(m, p)
  PROVE  TopicInv'
<1> USE DaemonAssumption
<1>1. CASE Published(m)
  <2> USE <1>1 DEF Published
  <2>1. TopicType' /\ EntriesOwn' /\ NoChannelLeaks'
    BY DEF TopicInv, TopicType, EntriesOwn, NoChannelLeaks
  <2>2. PostsOnce'
    BY PostsKept DEF Has, TopicInv, TopicType
  <2> QED
    BY <2>1, <2>2 DEF TopicInv
<1>2. ASSUME NEW p \in Polls, Broadcast(m, p) PROVE TopicInv'
  <2>1. /\ p \in targets[m]
        /\ targets' = [targets EXCEPT ![m] = @ \ {p}]
        /\ UNCHANGED <<topics, poll, result, post>>
    BY <1>2 DEF Broadcast
  <2>2. chan[p] \in Seq(Posts) /\ Len(chan[p]) \in Nat /\ Len(chan[p]) <= Buffer
    BY DEF TopicInv, TopicType
  <2>3. PICK s \in Seq(Posts) :
            /\ chan' = [chan EXCEPT ![p] = s]
            /\ Len(s) <= Buffer
            /\ \A i \in 1 .. Len(s) : s[i] = m \/ (i \in 1 .. Len(chan[p]) /\ s[i] = chan[p][i])
    <3>1. CASE Len(chan[p]) < Buffer
      <4>1. chan' = [chan EXCEPT ![p] = Append(chan[p], m)]
        BY <1>2, <3>1 DEF Broadcast
      <4>2. /\ Append(chan[p], m) \in Seq(Posts) /\ Len(Append(chan[p], m)) = Len(chan[p]) + 1
            /\ \A i \in 1 .. Len(chan[p]) : Append(chan[p], m)[i] = chan[p][i]
            /\ Append(chan[p], m)[Len(chan[p]) + 1] = m
        BY <2>2, AppendProperties
      <4>3. \A i \in 1 .. Len(Append(chan[p], m)) :
                i \in 1 .. Len(chan[p]) \/ i = Len(chan[p]) + 1
        BY <2>2, <4>2
      <4>4. Len(Append(chan[p], m)) <= Buffer
        BY <2>2, <3>1, <4>2
      <4> QED
        BY <4>1, <4>2, <4>3, <4>4
    <3>2. CASE ~(Len(chan[p]) < Buffer)
      <4>1. chan' = [chan EXCEPT ![p] = chan[p]]
        BY <1>2, <3>2 DEF Broadcast, TopicInv, TopicType
      <4> QED
        BY <2>2, <4>1
    <3> QED
      BY <3>1, <3>2
  <2>4. TopicType'
    BY <2>1, <2>3 DEF TopicInv, TopicType
  <2>5. EntriesOwn' /\ NoChannelLeaks'
    BY <2>1 DEF TopicInv, EntriesOwn, NoChannelLeaks
  <2>6. \A k \in Posts, q \in Polls : Has(q, k)' => Has(q, k)
    <3> SUFFICES ASSUME NEW k \in Posts, NEW q \in Polls, Has(q, k)' PROVE Has(q, k)
      OBVIOUS
    <3>1. targets'[k] \subseteq targets[k]
      BY <2>1 DEF TopicInv, TopicType
    <3>2. CASE q # p
      <4>1. chan'[q] = chan[q]
        BY <2>3, <3>2 DEF TopicInv, TopicType
      <4> QED
        BY <2>1, <3>1, <4>1 DEF Has
    <3>3. CASE q = p
      <4>1. chan'[p] = s
        BY <2>3 DEF TopicInv, TopicType
      <4> QED
        BY <2>1, <2>3, <3>1, <3>3, <4>1 DEF Has
    <3> QED
      BY <3>2, <3>3
  <2>7. PostsOnce'
    BY <2>1, <2>6, PostsKept
  <2> QED
    BY <2>4, <2>5, <2>7 DEF TopicInv
<1> QED
  BY <1>1, <1>2

LEMMA TopicStep == TopicInv /\ [Next]_vars => TopicInv'
<1> SUFFICES ASSUME TopicInv, [Next]_vars PROVE TopicInv'
  OBVIOUS
<1>1. CASE UNCHANGED pubsub
  BY <1>1 DEF pubsub, TopicInv, TopicType, EntriesOwn, NoChannelLeaks, PostsOnce, Has
<1>2. CASE Crash
  <2> USE <1>2, DaemonAssumption DEF Crash
  <2>1. TopicType'
    BY DEF TopicInv, TopicType
  <2>2. EntriesOwn' /\ NoChannelLeaks'
    BY DEF EntriesOwn, NoChannelLeaks
  <2>3. \A m \in Posts, p \in Polls : Has(p, m)' => Has(p, m)
    BY DEF Has
  <2>4. PostsOnce'
    BY <2>3, PostsKept
  <2> QED
    BY <2>1, <2>2, <2>4 DEF TopicInv
<1>3. CASE \/ \E c \in Clients : Register(c) \/ StartReceive(c) \/ Receive(c)
           \/ \E c \in Bannable : ChangeBan(c)
           \/ \E m \in Mail : DeliverLocal(m)
           \/ \E d \in Lookups : DiscoverPeers(d)
           \/ UNCHANGED vars
  BY <1>1, <1>3 DEF Register, CheckBan, ReportPresence, OpenSession, Registered, StartReceive, Receive,
     HandleReceive, PollReceive, PollFails, ChangeBan, DeliverLocal, DiscoverPeers, ListPeers,
     FilterPeers, vars
<1> QED
  BY <1>2, <1>3, PollKeeps, PublishKeeps, BroadcastKeeps DEF Next

---------------------------------------------------------------------------
\* Mail

LEMMA MailInit == Init => MailInv
  BY DEF Init, MailInv, MailType, MailInOrder

\* DeliverLocal: the new message is later than all before it.
LEMMA DeliverKeeps ==
  ASSUME MailInv, NEW m \in Mail, DeliverLocal(m)
  PROVE  MailInv'
<1> DEFINE n == Len(arrived)
<1>1. /\ arrived' = Append(arrived, m) /\ inbox' = Append(inbox, n + 1)
      /\ UNCHANGED <<loop, reply, given>>
  BY DEF DeliverLocal
<1>2. n \in Nat /\ arrived' \in Seq(Mail) /\ Len(arrived') = n + 1
  BY <1>1, AppendProperties DEF MailInv, MailType
<1>3. 1 .. n \subseteq 1 .. n + 1 /\ n + 1 \in 1 .. n + 1
  BY <1>2
<1>4. inbox \in Seq(1 .. n + 1) /\ Len(inbox) \in Nat
  BY <1>3, SeqMonotonic DEF MailInv, MailType
<1>5. /\ inbox' \in Seq(1 .. n + 1)
      /\ Len(inbox') = Len(inbox) + 1
      /\ \A i \in 1 .. Len(inbox) : inbox'[i] = inbox[i]
      /\ inbox'[Len(inbox) + 1] = n + 1
  BY <1>1, <1>3, <1>4, AppendProperties
<1>6. \A c \in Clients : reply[c] \in Seq(1 .. n + 1) /\ given[c] \in Seq(1 .. n + 1)
  BY <1>3, SeqMonotonic DEF MailInv, MailType
<1>7. MailType'
  BY <1>1, <1>2, <1>5, <1>6 DEF MailInv, MailType
<1>8. \A i \in 1 .. Len(inbox') : i \in 1 .. Len(inbox) \/ (i = Len(inbox) + 1 /\ inbox'[i] = n + 1)
  BY <1>4, <1>5
<1>9. \A i \in 1 .. Len(inbox) : inbox[i] \in 1 .. n
  BY ElementOfSeq DEF MailInv, MailType
<1>10. \A c \in Clients : \A j \in 1 .. Len(given[c]) : given[c][j] \in 1 .. n
  BY ElementOfSeq DEF MailInv, MailType
<1>11. \A c \in Clients : reply[c] # <<>> => reply[c][1] \in 1 .. n
  BY DEF MailInv, MailType
<1>12. \A i, j \in 1 .. Len(inbox') : i < j => inbox'[i] < inbox'[j]
  <2> SUFFICES ASSUME NEW i \in 1 .. Len(inbox'), NEW j \in 1 .. Len(inbox'), i < j
               PROVE  inbox'[i] < inbox'[j]
    OBVIOUS
  <2>1. i \in 1 .. Len(inbox) /\ inbox'[i] = inbox[i] /\ inbox[i] \in 1 .. n
    BY <1>4, <1>5, <1>9
  <2>2. CASE j \in 1 .. Len(inbox)
    BY <1>5, <2>1, <2>2 DEF MailInv, MailInOrder
  <2>3. CASE j = Len(inbox) + 1
    BY <1>2, <1>5, <2>1, <2>3
  <2> QED
    BY <1>8, <2>2, <2>3
<1>13. \A c \in Clients : \A j \in 1 .. Len(given[c]), i \in 1 .. Len(inbox') : given[c][j] < inbox'[i]
  BY <1>2, <1>5, <1>8, <1>10 DEF MailInv, MailInOrder
<1>14. \A c \in Clients : reply[c] # <<>> => \A i \in 1 .. Len(inbox') : reply[c][1] < inbox'[i]
  BY <1>2, <1>5, <1>8, <1>11 DEF MailInv, MailInOrder
<1>15. MailInOrder'
  BY <1>1, <1>12, <1>13, <1>14 DEF MailInv, MailInOrder
<1> QED
  BY <1>7, <1>15 DEF MailInv

\* handleReceive: the first of the inbox is later than all that was given and
\* earlier than what stays.
LEMMA HandleReceiveKeeps ==
  ASSUME MailInv, NEW c \in Clients, HandleReceive(c)
  PROVE  MailInv'
<1>1. /\ loop' = [loop EXCEPT ![c] = "answered"]
      /\ UNCHANGED <<arrived, given>>
  BY DEF HandleReceive
<1>2. inbox \in Seq(1 .. Len(arrived)) /\ Len(inbox) \in Nat
  BY DEF MailInv, MailType
<1>3. CASE inbox = <<>>
  <2>1. reply' = [reply EXCEPT ![c] = <<>>] /\ inbox' = inbox
    BY <1>3 DEF HandleReceive
  <2>2. MailType'
    BY <1>1, <2>1 DEF MailInv, MailType
  <2>3. MailInOrder'
    BY <1>1, <2>1 DEF MailInv, MailType, MailInOrder
  <2> QED
    BY <2>2, <2>3 DEF MailInv
<1>4. CASE inbox # <<>>
  <2>1. /\ inbox' = Tail(inbox)
        /\ \/ reply' = [reply EXCEPT ![c] = <<>>]
           \/ reply' = [reply EXCEPT ![c] = <<Head(inbox)>>]
    BY <1>4 DEF HandleReceive
  <2>2. /\ Head(inbox) \in 1 .. Len(arrived) /\ Head(inbox) = inbox[1] /\ 1 \in 1 .. Len(inbox)
        /\ inbox' \in Seq(1 .. Len(arrived)) /\ Len(inbox') = Len(inbox) - 1
        /\ \A i \in 1 .. Len(inbox') : inbox'[i] = inbox[i + 1]
    BY <1>2, <1>4, <2>1, HeadTailProperties
  <2>3. \A i \in 1 .. Len(inbox') : i + 1 \in 1 .. Len(inbox) /\ 1 < i + 1
    BY <1>2, <2>2
  <2>4. \A i \in 1 .. Len(inbox') : inbox[1] < inbox'[i]
    BY <2>2, <2>3 DEF MailInv, MailInOrder
  <2>5. \A i, j \in 1 .. Len(inbox') : i < j => inbox'[i] < inbox'[j]
    <3> SUFFICES ASSUME NEW i \in 1 .. Len(inbox'), NEW j \in 1 .. Len(inbox'), i < j
                 PROVE  inbox'[i] < inbox'[j]
      OBVIOUS
    <3>1. i + 1 \in 1 .. Len(inbox) /\ j + 1 \in 1 .. Len(inbox) /\ i + 1 < j + 1
      BY <2>3
    <3>2. inbox[i + 1] < inbox[j + 1]
      BY <3>1 DEF MailInv, MailInOrder
    <3> QED
      BY <2>2, <3>2
  <2>6. \A d \in Clients : \A j \in 1 .. Len(given[d]) :
            given[d][j] < inbox[1] /\ \A i \in 1 .. Len(inbox') : given[d][j] < inbox'[i]
    BY <2>2, <2>3 DEF MailInv, MailInOrder
  <2>7. \A d \in Clients : reply[d] # <<>> =>
            reply[d][1] < inbox[1] /\ \A i \in 1 .. Len(inbox') : reply[d][1] < inbox'[i]
    BY <2>2, <2>3 DEF MailInv, MailInOrder
  <2>8. \A d \in Clients : \A j \in 1 .. Len(given[d]) : given[d][j] \in Int
    BY ElementOfSeq DEF MailInv, MailType
  <2>9. \A d \in Clients : reply[d] # <<>> => reply[d][1] \in Int
    BY DEF MailInv, MailType
  <2>10. CASE reply' = [reply EXCEPT ![c] = <<>>]
    <3>1. MailType'
      BY <1>1, <2>2, <2>10 DEF MailInv, MailType
    <3>2. reply'[c] = <<>> /\ \A d \in Clients \ {c} : reply'[d] = reply[d]
      BY <2>10 DEF MailInv, MailType
    <3>3. MailInOrder'
      BY <1>1, <2>5, <2>6, <2>7, <3>2 DEF MailInv, MailInOrder
    <3> QED
      BY <3>1, <3>3 DEF MailInv
  <2>11. CASE reply' = [reply EXCEPT ![c] = <<Head(inbox)>>]
    <3>1. <<Head(inbox)>> \in Seq(1 .. Len(arrived))
      BY <2>2
    <3>2. MailType'
      BY <1>1, <2>2, <2>11, <3>1 DEF MailInv, MailType
    <3>3. reply'[c] = <<inbox[1]>> /\ reply'[c][1] = inbox[1] /\ \A d \in Clients \ {c} : reply'[d] = reply[d]
      BY <2>2, <2>11 DEF MailInv, MailType
    <3>4. \A d \in Clients : reply'[d] # <<>> => reply'[d] = <<reply'[d][1]>>
      BY <3>3 DEF MailInv, MailInOrder
    <3>5. \A d \in Clients : reply'[d] # <<>> => \A i \in 1 .. Len(inbox') : reply'[d][1] < inbox'[i]
      BY <2>4, <2>7, <3>3
    <3>6. \A d \in Clients : reply'[d] # <<>> => \A j \in 1 .. Len(given[d]) : given[d][j] < reply'[d][1]
      BY <2>6, <3>3 DEF MailInv, MailInOrder
    <3>7. \A d, e \in Clients : reply'[d] # <<>> => \A j \in 1 .. Len(given[e]) : given[e][j] # reply'[d][1]
      <4> SUFFICES ASSUME NEW d \in Clients, NEW e \in Clients, reply'[d] # <<>>,
                          NEW j \in 1 .. Len(given[e])
                   PROVE  given[e][j] # reply'[d][1]
        OBVIOUS
      <4>1. CASE d = c
        <5>1. given[e][j] < inbox[1] /\ given[e][j] \in Int /\ inbox[1] \in Int
          BY <2>2, <2>6, <2>8
        <5> QED
          BY <3>3, <4>1, <5>1
      <4>2. CASE d # c
        BY <3>3, <4>2 DEF MailInv, MailInOrder
      <4> QED
        BY <4>1, <4>2
    <3>8. \A d \in Clients : \A e \in Clients \ {d} :
              reply'[d] # <<>> /\ reply'[e] # <<>> => reply'[e][1] # reply'[d][1]
      <4> SUFFICES ASSUME NEW d \in Clients, NEW e \in Clients \ {d}, reply'[d] # <<>>, reply'[e] # <<>>
                   PROVE  reply'[e][1] # reply'[d][1]
        OBVIOUS
      <4>1. \A f \in Clients : reply[f] # <<>> => reply[f][1] # inbox[1]
        <5> SUFFICES ASSUME NEW f \in Clients, reply[f] # <<>> PROVE reply[f][1] # inbox[1]
          OBVIOUS
        <5>1. reply[f][1] < inbox[1] /\ reply[f][1] \in Int /\ inbox[1] \in Int
          BY <2>2, <2>7, <2>9
        <5> QED
          BY <5>1
      <4>2. CASE d # c /\ e # c
        BY <3>3, <4>2 DEF MailInv, MailInOrder
      <4>3. CASE d = c
        BY <3>3, <4>1, <4>3
      <4>4. CASE e = c
        BY <3>3, <4>1, <4>4
      <4> QED
        BY <4>2, <4>3, <4>4
    <3>9. MailInOrder'
      BY <1>1, <2>5, <2>6, <3>4, <3>5, <3>6, <3>7, <3>8 DEF MailInOrder
    <3> QED
      BY <3>2, <3>9 DEF MailInv
  <2> QED
    BY <2>1, <2>10, <2>11
<1> QED
  BY <1>3, <1>4

\* What pollReceive appends, if anything, is the reply.
LEMMA PollAppends ==
  ASSUME MailInv, NEW c \in Clients, PollReceive(c)
  PROVE  /\ reply' = [reply EXCEPT ![c] = <<>>]
         /\ reply[c] = <<>> => given' = given
         /\ reply[c] # <<>> => /\ reply[c][1] \in 1 .. Len(arrived)
                               /\ given' = [given EXCEPT ![c] = Append(@, reply[c][1])]
<1>1. given[c] \in Seq(1 .. Len(arrived)) /\ given' = [given EXCEPT ![c] = given[c] \o reply[c]]
  BY DEF PollReceive, MailInv, MailType
<1>2. ASSUME reply[c] = <<>> PROVE given' = given
  <2>1. given[c] \o reply[c] = given[c]
    BY <1>1, <1>2, ConcatEmptySeq
  <2> QED
    BY <1>1, <2>1 DEF MailInv, MailType
<1>3. ASSUME reply[c] # <<>>
      PROVE  /\ reply[c][1] \in 1 .. Len(arrived)
             /\ given' = [given EXCEPT ![c] = Append(@, reply[c][1])]
  <2>1. reply[c] = <<reply[c][1]>> /\ reply[c][1] \in 1 .. Len(arrived)
    BY <1>3 DEF MailInv, MailType, MailInOrder
  <2>2. Append(given[c], reply[c][1]) = given[c] \o reply[c]
    BY <1>1, <2>1, AppendIsConcat
  <2> QED
    BY <1>1, <2>1, <2>2
<1> QED
  BY <1>2, <1>3 DEF PollReceive

LEMMA PollReceiveKeeps ==
  ASSUME MailInv, NEW c \in Clients, PollReceive(c)
  PROVE  MailInv'
<1>1. /\ loop' \in [Clients -> {"closed", "asking", "answered"}]
      /\ UNCHANGED <<arrived, inbox>>
  BY DEF PollReceive, MailInv, MailType
<1>2. reply' = [reply EXCEPT ![c] = <<>>]
  BY PollAppends
<1>3. reply'[c] = <<>> /\ \A d \in Clients \ {c} : reply'[d] = reply[d]
  BY <1>2 DEF MailInv, MailType
<1>4. CASE reply[c] = <<>>
  <2>1. given' = given
    BY <1>4, PollAppends
  <2>2. MailType'
    BY <1>1, <1>2, <2>1 DEF MailInv, MailType
  <2>3. MailInOrder'
    BY <1>1, <1>3, <2>1 DEF MailInv, MailInOrder
  <2> QED
    BY <2>2, <2>3 DEF MailInv
<1>5. CASE reply[c] # <<>>
  <2> DEFINE r == reply[c][1]
  <2>1. r \in 1 .. Len(arrived) /\ given' = [given EXCEPT ![c] = Append(given[c], r)]
    BY <1>5, PollAppends
  <2>2. given[c] \in Seq(1 .. Len(arrived)) /\ Len(given[c]) \in Nat
    BY DEF MailInv, MailType
  <2>3. /\ Append(given[c], r) \in Seq(1 .. Len(arrived))
        /\ Len(Append(given[c], r)) = Len(given[c]) + 1
        /\ \A i \in 1 .. Len(given[c]) : Append(given[c], r)[i] = given[c][i]
        /\ Append(given[c], r)[Len(given[c]) + 1] = r
    BY <2>1, <2>2, AppendProperties
  <2>4. MailType'
    BY <1>1, <1>2, <2>1, <2>3 DEF MailInv, MailType
  <2>5. \A d \in Clients \ {c} : given'[d] = given[d]
    BY <2>1 DEF MailInv, MailType
  <2>6. \A j \in 1 .. Len(given'[c]) : given'[c][j] = r \/ (j \in 1 .. Len(given[c]) /\ given'[c][j] = given[c][j])
    <3>1. given'[c] = Append(given[c], r)
      BY <2>1 DEF MailInv, MailType
    <3> SUFFICES ASSUME NEW j \in 1 .. Len(given'[c])
                 PROVE  given'[c][j] = r \/ (j \in 1 .. Len(given[c]) /\ given'[c][j] = given[c][j])
      OBVIOUS
    <3>2. j \in 1 .. Len(given[c]) \/ j = Len(given[c]) + 1
      BY <2>2, <2>3, <3>1
    <3> QED
      BY <2>3, <3>1, <3>2
  <2>7. \A d \in Clients : \A j \in 1 .. Len(given'[d]), i \in 1 .. Len(inbox) : given'[d][j] < inbox[i]
    BY <1>5, <2>5, <2>6 DEF MailInv, MailInOrder
  <2>8. \A e \in Clients \ {c} : reply[e] # <<>> => \A d \in Clients : \A j \in 1 .. Len(given'[d]) :
            given'[d][j] # reply[e][1]
    BY <1>5, <2>5, <2>6 DEF MailInv, MailInOrder
  <2>9. MailInOrder'
    BY <1>1, <1>3, <2>5, <2>7, <2>8 DEF MailInv, MailInOrder
  <2> QED
    BY <2>4, <2>9 DEF MailInv
<1> QED
  BY <1>4, <1>5

LEMMA MailStep == MailInv /\ [Next]_vars => MailInv'
<1> SUFFICES ASSUME MailInv, [Next]_vars PROVE MailInv'
  OBVIOUS
<1>1. CASE UNCHANGED mail
  BY <1>1 DEF mail, MailInv, MailType, MailInOrder
<1>2. ASSUME NEW c \in Clients, StartReceive(c) PROVE MailInv'
  BY <1>2 DEF StartReceive, MailInv, MailType, MailInOrder
<1>3. ASSUME NEW c \in Clients, PollFails(c) PROVE MailInv'
  <2>1. /\ reply' = [reply EXCEPT ![c] = <<>>] /\ loop' = [loop EXCEPT ![c] = "closed"]
        /\ UNCHANGED <<arrived, inbox, given>>
    BY <1>3 DEF PollFails
  <2>2. MailType'
    BY <2>1 DEF MailInv, MailType
  <2>3. MailInOrder'
    BY <2>1 DEF MailInv, MailType, MailInOrder
  <2> QED
    BY <2>2, <2>3 DEF MailInv
<1>4. CASE Crash
  <2>1. /\ inbox' = <<>> /\ loop' = [c \in Clients |-> "closed"]
        /\ reply' = [c \in Clients |-> <<>>] /\ UNCHANGED <<arrived, given>>
    BY <1>4 DEF Crash
  <2> QED
    BY <2>1 DEF MailInv, MailType, MailInOrder
<1>5. CASE \/ \E c \in Clients : Register(c)
           \/ \E c \in Bannable : ChangeBan(c)
           \/ \E p \in Polls : Subscribe(p) \/ PollStep(p)
           \/ \E m \in Posts : Publish(m) \/ Published(m) \/ \E p \in Polls : Broadcast(m, p)
           \/ \E d \in Lookups : DiscoverPeers(d)
           \/ UNCHANGED vars
  BY <1>1, <1>5 DEF Register, CheckBan, ReportPresence, OpenSession, Registered, ChangeBan,
     Subscribe, PollStep, TakePost, PollTimeout, Unsubscribe, Publish, Published, Broadcast,
     DiscoverPeers, ListPeers, FilterPeers, vars
<1> QED
  BY <1>2, <1>3, <1>4, <1>5, DeliverKeeps, HandleReceiveKeeps, PollReceiveKeeps DEF Next, Receive

---------------------------------------------------------------------------
\* Theorems

\* The inductive invariant holds throughout.
THEOREM Invariance == Spec => []IInv
<1>1. Init => IInv
  BY RegisterInit, MailInit, TopicInit DEF IInv
<1>2. IInv /\ [Next]_vars => IInv'
  BY RegisterStep, MailStep, TopicStep DEF IInv
<1> QED
  BY <1>1, <1>2, PTL DEF Spec

\* The maps of the server, the requests and the channels have the types of TypeOK: a
\* session has a row in app_presence, and no channel holds more than Buffer.
THEOREM TypeCorrect == Spec => []TypeOK
<1>1. IInv => TypeOK
  BY DEF IInv, RegisterInv, RegisterType, MailInv, MailType, TopicInv, TopicType, TypeOK
<1> QED
  BY <1>1, Invariance, PTL

\* handleRegister and handleDiscoverPeers never miss a ban that was in force throughout
\* the request.
THEOREM BansRespectedHolds == Spec => []BansRespected
<1>1. IInv => BansRespected
  BY DEF IInv, RegisterInv
<1> QED
  BY <1>1, Invariance, PTL

\* The deferred delete of handleSubscribe leaves no channel of a poll that is over.
THEOREM NoChannelLeaksHolds == Spec => []NoChannelLeaks
<1>1. IInv => NoChannelLeaks
  BY DEF IInv, TopicInv
<1> QED
  BY <1>1, Invariance, PTL

\* broadcastTopic brings a post to at most one poll of a session.
THEOREM OncePerSessionHolds == Spec => []OncePerSession
<1>1. ASSUME IInv PROVE OncePerSession
  <2> SUFFICES ASSUME NEW c \in Clients, NEW m \in Posts
               PROVE  Cardinality({p \in Polls : Caller[p] = c /\
                        (p \in targets[m] \/ result[p] = m \/ \E i \in 1 .. Len(chan[p]) : chan[p][i] = m)}) <= 1
    BY DEF OncePerSession
  <2> DEFINE S == {p \in Polls : Caller[p] = c /\
                    (p \in targets[m] \/ result[p] = m \/ \E i \in 1 .. Len(chan[p]) : chan[p][i] = m)}
  <2>1. \A p, q \in S : p = q
    BY <1>1 DEF IInv, TopicInv, PostsOnce, Has
  <2> HIDE DEF S
  <2>2. S = {} \/ \E p : S = {p}
    <3>1. ASSUME NEW p \in S PROVE S = {p}
      BY <2>1, <3>1
    <3> QED
      BY <3>1
  <2>3. Cardinality(S) = 0 \/ Cardinality(S) = 1
    BY <2>2, FS_EmptySet, FS_Singleton
  <2> QED
    BY <2>3 DEF S
<1> QED
  BY <1>1, Invariance, PTL

\* The inbox of the server and the Receive loops of the clients implement a Mailbox:
\* DeliverLocal is an arrival, an answer that reaches its client gives it one message,
\* and every other step leaves the mailbox alone.
THEOREM MailboxImplemented == Spec => ImplementsMailbox
<1>1. Init => Box!Init
  BY DEF Init, Box!Init
<1>2. IInv /\ [Next]_vars => [Box!Next]_(Box!vars)
  <2> SUFFICES ASSUME IInv, [Next]_vars PROVE Box!Next \/ UNCHANGED <<arrived, given>>
    BY DEF Box!vars
  <2>1. ASSUME NEW m \in Mail, DeliverLocal(m) PROVE Box!Next
    BY <2>1 DEF DeliverLocal, Box!Next, Box!Arrive
  <2>2. ASSUME NEW c \in Clients, PollReceive(c) PROVE Box!Next \/ UNCHANGED <<arrived, given>>
    <3>1. CASE reply[c] = <<>>
      BY <2>2, <3>1, PollAppends DEF IInv, PollReceive
    <3>2. CASE reply[c] # <<>>
      <4>1. /\ reply[c][1] \in 1 .. Len(arrived)
            /\ given' = [given EXCEPT ![c] = Append(@, reply[c][1])]
            /\ UNCHANGED arrived
        BY <2>2, <3>2, PollAppends DEF IInv, PollReceive
      <4>2. /\ \A d \in Clients : \A j \in 1 .. Len(given[d]) : given[d][j] # reply[c][1]
            /\ \A j \in 1 .. Len(given[c]) : given[c][j] < reply[c][1]
        BY <3>2 DEF IInv, MailInv, MailInOrder
      <4>3. Box!Give(c, reply[c][1])
        BY <4>1, <4>2 DEF Box!Give
      <4> QED
        BY <4>1, <4>3 DEF Box!Next
    <3> QED
      BY <3>1, <3>2
  <2>3. CASE \/ Crash
             \/ \E c \in Clients : Register(c) \/ StartReceive(c) \/ HandleReceive(c) \/ PollFails(c)
             \/ \E c \in Bannable : ChangeBan(c)
             \/ \E p \in Polls : Subscribe(p) \/ PollStep(p)
             \/ \E m \in Posts : Publish(m) \/ Published(m) \/ \E p \in Polls : Broadcast(m, p)
             \/ \E d \in Lookups : DiscoverPeers(d)
             \/ UNCHANGED vars
    BY <2>3 DEF Crash, Register, CheckBan, ReportPresence, OpenSession, Registered, StartReceive,
       HandleReceive, PollFails, ChangeBan, Subscribe, PollStep, TakePost, PollTimeout, Unsubscribe,
       Publish, Published, Broadcast, DiscoverPeers, ListPeers, FilterPeers, mail, vars
  <2> QED
    BY <2>1, <2>2, <2>3 DEF Next, Receive
<1> QED
  BY <1>1, <1>2, Invariance, PTL DEF Spec, ImplementsMailbox, Box!Spec
=============================================================================
