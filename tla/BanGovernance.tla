--------------------------- MODULE BanGovernance ---------------------------
(***************************************************************************)
(* Bans on apps: core/banlist, gossiped by hub/internal/syncengine and     *)
(* decided on in the monitor.  Each hub keeps ban_list and ban_verdicts in *)
(* its database.  Three actors write there and no transaction spans two    *)
(* statements: the hub's gossip sender and receiver, and the monitor, a    *)
(* process of its own.  Every statement on the database is a step.         *)
(*                                                                         *)
(* Propose draws a ban_id only if len(p.BanID) = 0, which never holds of a *)
(* [16]byte, and ProposeBan sets none: every proposal has the zero ban_id, *)
(* the primary key.  So ban_list has at most one row, and ban_verdicts at  *)
(* most one for each hub.                                                  *)
(***************************************************************************)
EXTENDS Integers, FiniteSets

CONSTANTS
    Hubs,
    Apps,
    Peers,       \* Peers[h]: the hubs to which h gossips
    Proposers,   \* hubs whose admin may propose a ban
    Clock,       \* bound: Clock[h], the timestamps the clock of h may show
    Decisions,   \* bound: Decisions[h], the decisions the admin of h may take
    NoRow, NoVerdict, NoMsg, Ban

ASSUME BanAssumption ==
    /\ Peers \in [Hubs -> SUBSET Hubs]
    /\ Proposers \subseteq Hubs
    /\ Clock \in [Hubs -> SUBSET (Nat \ {0})]
    /\ \A h \in Hubs : Decisions[h] \subseteq [agree : BOOLEAN, at : Clock[h]]
    /\ Ban \notin Hubs

Time == UNION {Clock[h] : h \in Hubs}

\* Version range, reason and signature (which no hub verifies) are left out.
Proposal == [app : Apps, by : Hubs, at : Time]
Verdict == [agree : BOOLEAN, at : Time]
VerdictTable == [Hubs -> Verdict \cup {NoVerdict}]

ASSUME NullAssumption ==
    /\ NoRow \notin Proposal
    /\ NoVerdict \notin Verdict

VARIABLES
    banList,    \* banList[h]: the row of ban_list at h, persistent
    verdicts,   \* verdicts[h][g]: g's row of ban_verdicts at h, persistent
    listed,     \* what the sender of h read from ban_list, while it builds
    building,   \* senders between ListProposals and ListAllVerdicts
    link,       \* link[g][h]: the datagram last sent from g to h
    rx,         \* the message the receiver of h is applying
    left,       \* the records of it that are still to be merged
    key,        \* the record being merged
    seen,       \* its local timestamp when read, 0 if there was no row
    decided     \* history: the decisions of each hub's admin

database == <<banList, verdicts>>
sender == <<listed, building>>
receiver == <<rx, left, key, seen>>
vars == <<database, sender, link, receiver, decided>>

Message == [proposal : Proposal \cup {NoRow}, verdicts : VerdictTable]

Unread == -1

\* The last conjunct is the foreign key from ban_verdicts to ban_list.
TypeOK ==
    /\ banList \in [Hubs -> Proposal \cup {NoRow}]
    /\ verdicts \in [Hubs -> VerdictTable]
    /\ listed \in [Hubs -> Proposal \cup {NoRow}]
    /\ building \subseteq Hubs
    /\ link \in [Hubs -> [Hubs -> Message \cup {NoMsg}]]
    /\ rx \in [Hubs -> Message \cup {NoMsg}]
    /\ left \in [Hubs -> SUBSET (Hubs \cup {Ban})]
    /\ key \in [Hubs -> Hubs \cup {Ban}]
    /\ seen \in [Hubs -> {Unread, 0} \cup Time]
    /\ decided \in [Hubs -> SUBSET [app : Apps, agree : BOOLEAN, at : Time]]
    /\ \A h, g \in Hubs : verdicts[h][g] # NoVerdict => banList[h] # NoRow

Init ==
    /\ banList = [h \in Hubs |-> NoRow]
    /\ verdicts = [h \in Hubs |-> [g \in Hubs |-> NoVerdict]]
    /\ listed = [h \in Hubs |-> NoRow]
    /\ building = {}
    /\ link = [g \in Hubs |-> [h \in Hubs |-> NoMsg]]
    /\ rx = [h \in Hubs |-> NoMsg]
    /\ left = [h \in Hubs |-> {}]
    /\ key = [h \in Hubs |-> Ban]
    /\ seen = [h \in Hubs |-> Unread]
    /\ decided = [h \in Hubs |-> {}]

---------------------------------------------------------------------------
\* banlist.Store: statements that write

\* The INSERT of a proposal, which fails when the primary key is taken.
Propose(h, p) == banList' = IF banList[h] = NoRow THEN [banList EXCEPT ![h] = p] ELSE banList

\* Fault: no foreign key.
SetVerdictOrphan(h, g, v) == verdicts' = [verdicts EXCEPT ![h][g] = v]

\* The upsert of a verdict, which fails without a row of ban_list for its foreign
\* key to refer to.
SetVerdict(h, g, v) ==
    verdicts' = IF banList[h] # NoRow THEN [verdicts EXCEPT ![h][g] = v] ELSE verdicts

---------------------------------------------------------------------------
\* The monitor

ProposeBan(h, app, now) ==
    /\ Propose(h, [app |-> app, by |-> h, at |-> now])
    /\ UNCHANGED <<verdicts, sender, link, receiver, decided>>

\* The monitor shows a row to decide on.  Decisions of one admin carry increasing
\* timestamps.
SetBanVerdict(h, agree, now) ==
    /\ banList[h] # NoRow
    /\ \A d \in decided[h] : d.at < now
    /\ SetVerdict(h, h, [agree |-> agree, at |-> now])
    /\ decided' = [decided EXCEPT
                     ![h] = @ \cup {[app |-> banList[h].app, agree |-> agree, at |-> now]}]
    /\ UNCHANGED <<banList, sender, link, receiver>>

\* The ban is enforced for the app of the row if the hub's own verdict agrees.
IsLocallyEnforced(h, app) ==
    /\ banList[h] # NoRow /\ banList[h].app = app
    /\ verdicts[h][h] # NoVerdict /\ verdicts[h][h].agree

---------------------------------------------------------------------------
\* gossipOnce

ListProposals(h) ==
    /\ h \notin building
    /\ listed' = [listed EXCEPT ![h] = banList[h]]
    /\ building' = building \cup {h}
    /\ UNCHANGED <<database, link, receiver, decided>>

\* Fault: a hub gossips its own verdict only.
BuildOwnVerdict(h) ==
    [proposal |-> listed[h],
     verdicts |-> [g \in Hubs |-> IF g = h THEN verdicts[h][h] ELSE NoVerdict]]

\* The ban records of a message: the row listed before, and ListAllVerdicts.
BuildMessage(h) == [proposal |-> listed[h], verdicts |-> verdicts[h]]

\* The message is built and sent to every peer.
Gossip(h) ==
    /\ h \in building
    /\ link' = [link EXCEPT ![h] = [g \in Hubs |->
                   IF g \in Peers[h] THEN BuildMessage(h) ELSE @[g]]]
    /\ building' = building \ {h}
    /\ listed' = [listed EXCEPT ![h] = NoRow]
    /\ UNCHANGED <<database, receiver, decided>>

---------------------------------------------------------------------------
\* receiveLoop and apply

Records(msg) ==
    {g \in Hubs : msg.verdicts[g] # NoVerdict} \cup (IF msg.proposal = NoRow THEN {} ELSE {Ban})

\* UDP may lose a datagram (a later one takes its place) or deliver it twice.
Deliver(g, h) ==
    /\ rx[h] = NoMsg
    /\ link[g][h] # NoMsg
    /\ Records(link[g][h]) # {}
    /\ rx' = [rx EXCEPT ![h] = link[g][h]]
    /\ left' = [left EXCEPT ![h] = Records(link[g][h])]
    /\ UNCHANGED <<database, sender, link, key, seen, decided>>

LocalTime(h, k) ==
    IF k = Ban THEN IF banList[h] = NoRow THEN 0 ELSE banList[h].at
    ELSE IF verdicts[h][k] = NoVerdict THEN 0 ELSE verdicts[h][k].at

\* The SELECT of a merge; proposals come before verdicts.
Read(h, k) ==
    /\ rx[h] # NoMsg /\ seen[h] = Unread
    /\ k \in left[h]
    /\ Ban \in left[h] => k = Ban
    /\ key' = [key EXCEPT ![h] = k]
    /\ seen' = [seen EXCEPT ![h] = LocalTime(h, k)]
    /\ UNCHANGED <<database, sender, link, rx, left, decided>>

\* Fault: whatever comes in replaces the row.
MergeProposalAny(h, p) == banList' = [banList EXCEPT ![h] = p]

\* MergeGossipProposal after its SELECT: INSERT, which fails if the monitor has
\* put a row there in the meantime, nothing, or UPDATE.
MergeProposal(h, p) ==
    \/ seen[h] = 0 /\ Propose(h, p)
    \/ seen[h] > p.at /\ UNCHANGED banList
    \/ seen[h] > 0 /\ p.at >= seen[h] /\ banList' = [banList EXCEPT ![h] = p]

\* Fault: a verdict that comes in is entered whatever its time.
MergeVerdictAny(h, g, v) == SetVerdict(h, g, v)

\* MergeGossipVerdict after its SELECT.
MergeVerdict(h, g, v) ==
    \/ seen[h] < v.at /\ SetVerdict(h, g, v)
    \/ seen[h] >= v.at /\ UNCHANGED verdicts

\* The write of a merge.
Write(h) ==
    /\ seen[h] # Unread
    /\ \/ /\ key[h] = Ban
          /\ MergeProposal(h, rx[h].proposal)
          /\ UNCHANGED verdicts
       \/ /\ key[h] # Ban
          /\ MergeVerdict(h, key[h], rx[h].verdicts[key[h]])
          /\ UNCHANGED banList
    /\ left' = [left EXCEPT ![h] = @ \ {key[h]}]
    /\ seen' = [seen EXCEPT ![h] = Unread]
    /\ key' = [key EXCEPT ![h] = Ban]
    /\ rx' = IF left[h] = {key[h]} THEN [rx EXCEPT ![h] = NoMsg] ELSE rx
    /\ UNCHANGED <<sender, link, decided>>

---------------------------------------------------------------------------
Apply(h) == Write(h) \/ \E k \in Hubs \cup {Ban} : Read(h, k)

Next ==
    \/ \E h \in Proposers, app \in Apps : \E now \in Clock[h] : ProposeBan(h, app, now)
    \/ \E h \in Hubs : \E d \in Decisions[h] : SetBanVerdict(h, d.agree, d.at)
    \/ \E h \in Hubs : ListProposals(h) \/ Gossip(h) \/ Apply(h)
    \/ \E g, h \in Hubs : Deliver(g, h)

\* The ticker keeps firing and the receiver keeps running; a hub that gossips to
\* another again and again is heard again and again.
Fairness ==
    /\ \A h \in Hubs : WF_vars(ListProposals(h) \/ Gossip(h)) /\ WF_vars(Apply(h))
    /\ \A g \in Hubs : \A h \in Peers[g] : SF_vars(Deliver(g, h))

Spec == Init /\ [][Next]_vars /\ Fairness

---------------------------------------------------------------------------
\* Properties

\* What a hub holds as its own verdict is the last decision of its admin: no copy
\* that peers gossip back undoes it, whenever the monitor writes between the
\* SELECT and the upsert of a merge.
OwnVerdictKept ==
    \A h \in Hubs :
        LET v == verdicts[h][h] IN
        IF v = NoVerdict THEN decided[h] = {}
        ELSE /\ \E d \in decided[h] : d.at = v.at /\ d.agree = v.agree
             /\ \A d \in decided[h] : d.at <= v.at

\* No row of either table is ever replaced by an older one, also when the monitor
\* writes between the two statements of a merge.
NeverOlder ==
    [][\A h \in Hubs : \A k \in Hubs \cup {Ban} : LocalTime(h, k)' >= LocalTime(h, k)]_vars

\* Hubs that can reach each other converge: on the time of the proposal, and on the
\* verdict of every hub, relayed ones included, although messages are lost and may
\* carry a verdict whose proposal was read too early to be in them, which the foreign
\* key then refuses.
BansConverge ==
    <>[](\A g, h \in Hubs : LocalTime(g, Ban) = LocalTime(h, Ban) /\ verdicts[g] = verdicts[h])

\* A proposal is never enforced unless the hub's admin has agreed to one for that
\* app.
NeverAutoEnforced ==
    \A h \in Hubs, app \in Apps :
        IsLocallyEnforced(h, app) => \E d \in decided[h] : d.app = app /\ d.agree
=============================================================================
