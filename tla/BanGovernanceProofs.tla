------------------------ MODULE BanGovernanceProofs ------------------------
(***************************************************************************)
(* Theorems about BanGovernance for every set of hubs and apps, all peers  *)
(* and all clocks.                                                         *)
(***************************************************************************)
EXTENDS BanGovernance, TLAPS

\* The timestamp of a cell of ban_verdicts.
At(v) == IF v = NoVerdict THEN 0 ELSE v.at

\* The message that a receiver is applying has the records still to be merged,
\* and the one being merged is among them.
Receiving ==
    \A h \in Hubs :
        /\ left[h] # {} => rx[h] # NoMsg
        /\ Ban \in left[h] => rx[h].proposal # NoRow
        /\ \A g \in Hubs : g \in left[h] => rx[h].verdicts[g] # NoVerdict
        /\ seen[h] # Unread => key[h] \in left[h]

\* What a merge has read is what is there, except for a row of ban_list that the
\* monitor has inserted since; and a merge of the hub's own verdict, which the
\* monitor may replace meanwhile, has read that the copy is not newer.
ReadsCurrent ==
    \A h \in Hubs : seen[h] # Unread =>
        /\ key[h] = Ban => seen[h] = 0 \/ seen[h] = LocalTime(h, Ban)
        /\ key[h] # Ban /\ key[h] # h => seen[h] = At(verdicts[h][key[h]])
        /\ key[h] = h => At(rx[h].verdicts[h]) <= seen[h]

\* No copy of a hub's verdict is newer than the hub's own.
OwnNewest ==
    \A h, g \in Hubs :
        /\ At(verdicts[h][g]) <= At(verdicts[g][g])
        /\ rx[h] # NoMsg => At(rx[h].verdicts[g]) <= At(verdicts[g][g])
        /\ \A k \in Hubs :
              link[h][k] # NoMsg => At(link[h][k].verdicts[g]) <= At(verdicts[g][g])

\* The inductive invariant.
IInv == TypeOK /\ Receiving /\ ReadsCurrent /\ OwnNewest /\ OwnVerdictKept

---------------------------------------------------------------------------
\* Timestamps are positive numbers.
LEMMA TimeType == \A t \in Time : t \in Nat /\ t > 0
<1> TAKE t \in Time
<1>1. PICK h \in Hubs : t \in Clock[h]
  BY DEF Time
<1>2. Clock[h] \subseteq Nat \ {0}
  BY BanAssumption
<1> QED
  BY <1>1, <1>2

\* A decision has the time of the hub's clock.
LEMMA DecisionType ==
  ASSUME NEW h \in Hubs, NEW d \in Decisions[h]
  PROVE  d.agree \in BOOLEAN /\ d.at \in Clock[h]
  BY BanAssumption

\* A cell has a timestamp, and an empty one has 0.
LEMMA AtType ==
  ASSUME NEW v \in Verdict \cup {NoVerdict}
  PROVE  At(v) \in Nat /\ (v # NoVerdict => v \in Verdict /\ At(v) = v.at /\ At(v) > 0)
  BY TimeType DEF At, Verdict

\* LocalTime is the timestamp of the row or of the cell.
LEMMA LocalTimeType ==
  ASSUME TypeOK, NEW h \in Hubs, NEW k \in Hubs \cup {Ban}
  PROVE  /\ LocalTime(h, k) \in {0} \cup Time
         /\ k # Ban => LocalTime(h, k) = At(verdicts[h][k])
         /\ k = Ban /\ banList[h] # NoRow => LocalTime(h, k) = banList[h].at /\ LocalTime(h, k) > 0
         /\ k = Ban /\ banList[h] = NoRow => LocalTime(h, k) = 0
<1>1. CASE k = Ban
  <2>1. banList[h] \in Proposal \cup {NoRow}
    BY DEF TypeOK
  <2> QED
    <3>1. CASE banList[h] = NoRow
      BY <1>1, <3>1 DEF LocalTime
    <3>2. CASE banList[h] # NoRow
      <4>1. banList[h].at \in Time
        BY <2>1, <3>2 DEF Proposal
      <4>2. LocalTime(h, k) = banList[h].at
        BY <1>1, <3>2 DEF LocalTime
      <4> QED
        BY <1>1, <3>2, <4>1, <4>2, TimeType
    <3> QED
      BY <3>1, <3>2
<1>2. CASE k # Ban
  <2>1. verdicts[h][k] \in Verdict \cup {NoVerdict}
    BY <1>2 DEF TypeOK, VerdictTable
  <2> QED
    BY <1>2, <2>1 DEF LocalTime, Verdict, At
<1> QED
  BY <1>1, <1>2

\* The records of a message are those that are not null.
LEMMA RecordsProperties ==
  ASSUME NEW msg \in Message
  PROVE  /\ Records(msg) \subseteq Hubs \cup {Ban}
         /\ Ban \in Records(msg) => msg.proposal # NoRow
         /\ \A g \in Hubs : g \in Records(msg) => msg.verdicts[g] # NoVerdict
  BY BanAssumption DEF Records

---------------------------------------------------------------------------
\* The merge of a proposal puts a proposal into the row or leaves it alone, and
\* what it puts there is no older than the row.
LEMMA MergeProposalProperties ==
  ASSUME TypeOK, NEW h \in Hubs, NEW p \in Proposal, MergeProposal(h, p),
         seen[h] # Unread, seen[h] = 0 \/ seen[h] = LocalTime(h, Ban)
  PROVE  /\ banList' = banList \/ banList' = [banList EXCEPT ![h] = p]
         /\ banList' # banList => p.at >= LocalTime(h, Ban)
<1>0. p.at \in Time
  BY DEF Proposal
<1>1. p.at \in Nat /\ p.at > 0
  BY <1>0, TimeType
<1>2. CASE seen[h] = 0 /\ Propose(h, p)
  <2>1. banList' # banList => banList[h] = NoRow /\ banList' = [banList EXCEPT ![h] = p]
    BY <1>2 DEF Propose
  <2>2. banList[h] = NoRow => LocalTime(h, Ban) = 0
    BY DEF LocalTime
  <2> QED
    BY <1>1, <2>1, <2>2
<1>3. CASE seen[h] > p.at /\ UNCHANGED banList
  BY <1>3
<1>4. CASE seen[h] > 0 /\ p.at >= seen[h] /\ banList' = [banList EXCEPT ![h] = p]
  BY <1>1, <1>4
<1> QED
  BY <1>2, <1>3, <1>4 DEF MergeProposal

\* The merge of a verdict puts it into its cell or leaves the table alone; it only
\* does the former if the verdict is newer than what was read.
LEMMA MergeVerdictProperties ==
  ASSUME NEW h \in Hubs, NEW g \in Hubs, NEW v \in Verdict, MergeVerdict(h, g, v)
  PROVE  \/ verdicts' = verdicts
         \/ /\ verdicts' = [verdicts EXCEPT ![h][g] = v]
            /\ seen[h] < v.at
            /\ banList[h] # NoRow
  BY DEF MergeVerdict, SetVerdict

---------------------------------------------------------------------------
\* The types and the state of the receiver.
LEMMA TypeStep ==
  ASSUME IInv, [Next]_vars
  PROVE  TypeOK'
<1> USE TimeType, BanAssumption
<1>0. TypeOK
  BY DEF IInv
<1>1. ASSUME NEW h \in Proposers, NEW app \in Apps, NEW now \in Clock[h], ProposeBan(h, app, now)
      PROVE  TypeOK'
  <2>1. h \in Hubs /\ now \in Time
    BY <1>1 DEF Time
  <2>2. [app |-> app, by |-> h, at |-> now] \in Proposal
    BY <2>1 DEF Proposal
  <2>3. PICK p \in Proposal : banList' = IF banList[h] = NoRow THEN [banList EXCEPT ![h] = p]
                                         ELSE banList
    BY <1>1, <2>2 DEF ProposeBan, Propose
  <2>4. banList' \in [Hubs -> Proposal \cup {NoRow}]
    BY <1>0, <2>1, <2>3 DEF TypeOK
  <2>5. \A k \in Hubs : banList[k] # NoRow => banList'[k] # NoRow
    BY <1>0, <2>1, <2>3, NullAssumption DEF TypeOK
  <2> QED
    BY <1>0, <1>1, <2>4, <2>5 DEF TypeOK, ProposeBan, sender, receiver
<1>2. ASSUME NEW h \in Hubs, NEW agree \in BOOLEAN, NEW now \in Clock[h],
             SetBanVerdict(h, agree, now)
      PROVE  TypeOK'
  <2>1. h \in Hubs /\ now \in Time
    BY <1>2 DEF Time
  <2>2. [agree |-> agree, at |-> now] \in Verdict
    BY <2>1 DEF Verdict
  <2>3. PICK v \in Verdict : verdicts' = [verdicts EXCEPT ![h][h] = v]
    BY <1>2, <2>2 DEF SetBanVerdict, SetVerdict
  <2>4. verdicts' \in [Hubs -> VerdictTable]
    BY <1>0, <2>1, <2>3 DEF TypeOK, VerdictTable
  <2>5. [app |-> banList[h].app, agree |-> agree, at |-> now]
            \in [app : Apps, agree : BOOLEAN, at : Time]
    <3>1. banList[h] \in Proposal
      BY <1>0, <1>2, <2>1 DEF TypeOK, SetBanVerdict
    <3> QED
      BY <2>1, <3>1 DEF Proposal
  <2>6. decided' \in [Hubs -> SUBSET [app : Apps, agree : BOOLEAN, at : Time]]
    <3>1. PICK d \in [app : Apps, agree : BOOLEAN, at : Time] :
            decided' = [decided EXCEPT ![h] = @ \cup {d}]
      BY <1>2, <2>5 DEF SetBanVerdict
    <3>2. decided \in [Hubs -> SUBSET [app : Apps, agree : BOOLEAN, at : Time]]
      BY <1>0 DEF TypeOK
    <3> QED
      BY <2>1, <3>1, <3>2
  <2>7. \A k, g \in Hubs : verdicts'[k][g] # NoVerdict => banList'[k] # NoRow
    BY <1>0, <1>2, <2>1, <2>3 DEF TypeOK, VerdictTable, SetBanVerdict
  <2> QED
    BY <1>0, <1>2, <2>4, <2>6, <2>7 DEF TypeOK, SetBanVerdict, sender, receiver
<1>3. ASSUME NEW h \in Hubs, ListProposals(h)
      PROVE  TypeOK'
  BY <1>0, <1>3 DEF TypeOK, ListProposals, database, receiver
<1>4. ASSUME NEW h \in Hubs, Gossip(h)
      PROVE  TypeOK'
  <2>1. BuildMessage(h) \in Message
    BY <1>0 DEF TypeOK, BuildMessage, Message
  <2>2. PICK msg \in Message :
          link' = [link EXCEPT ![h] = [g \in Hubs |-> IF g \in Peers[h] THEN msg ELSE @[g]]]
    BY <1>4, <2>1 DEF Gossip
  <2>3. link' \in [Hubs -> [Hubs -> Message \cup {NoMsg}]]
    BY <1>0, <2>2 DEF TypeOK
  <2> QED
    BY <1>0, <1>4, <2>3 DEF TypeOK, Gossip, database, receiver
<1>5. ASSUME NEW g \in Hubs, NEW h \in Hubs, Deliver(g, h)
      PROVE  TypeOK'
  <2>1. link[g][h] \in Message
    BY <1>0, <1>5 DEF TypeOK, Deliver
  <2>2. Records(link[g][h]) \subseteq Hubs \cup {Ban}
    BY <2>1, RecordsProperties
  <2> QED
    BY <1>0, <1>5, <2>1, <2>2 DEF TypeOK, Deliver, database, sender
<1>6. ASSUME NEW h \in Hubs, NEW k \in Hubs \cup {Ban}, Read(h, k)
      PROVE  TypeOK'
  <2>1. LocalTime(h, k) \in {0} \cup Time
    BY <1>0, LocalTimeType
  <2> QED
    BY <1>0, <1>6, <2>1 DEF TypeOK, Read, database, sender
<1>7. ASSUME NEW h \in Hubs, Write(h)
      PROVE  TypeOK'
  <2>1. key[h] \in left[h] /\ rx[h] \in Message /\ key[h] \in Hubs \cup {Ban}
    BY <1>0, <1>7 DEF TypeOK, IInv, Receiving, Write
  <2>2. /\ banList' \in [Hubs -> Proposal \cup {NoRow}]
        /\ verdicts' \in [Hubs -> VerdictTable]
        /\ \A k, g \in Hubs : verdicts'[k][g] # NoVerdict => banList'[k] # NoRow
    <3>1. CASE key[h] = Ban
      <4>1. PICK p \in Proposal : p = rx[h].proposal
        BY <1>7, <2>1, <3>1 DEF IInv, Receiving, Message
      <4>2. MergeProposal(h, p) /\ verdicts' = verdicts
        BY <1>7, <3>1, <4>1 DEF Write
      <4>3. seen[h] # Unread /\ (seen[h] = 0 \/ seen[h] = LocalTime(h, Ban))
        BY <1>7, <3>1 DEF Write, IInv, ReadsCurrent
      <4>4. banList' = banList \/ banList' = [banList EXCEPT ![h] = p]
        BY <1>0, <4>2, <4>3, MergeProposalProperties
      <4>5. banList' \in [Hubs -> Proposal \cup {NoRow}]
        BY <1>0, <4>4 DEF TypeOK
      <4>6. \A k \in Hubs : banList[k] # NoRow => banList'[k] # NoRow
        BY <1>0, <4>4, NullAssumption DEF TypeOK
      <4> QED
        BY <1>0, <4>2, <4>5, <4>6 DEF TypeOK
    <3>2. CASE key[h] # Ban
      <4>1. PICK g \in Hubs : g = key[h]
        BY <2>1, <3>2
      <4>2. PICK v \in Verdict : v = rx[h].verdicts[g]
        BY <2>1, <4>1 DEF IInv, Receiving, Message, VerdictTable
      <4>3. MergeVerdict(h, g, v) /\ banList' = banList
        BY <1>7, <3>2, <4>1, <4>2 DEF Write
      <4>4. \/ verdicts' = verdicts
            \/ verdicts' = [verdicts EXCEPT ![h][g] = v] /\ banList[h] # NoRow
        BY <4>3, MergeVerdictProperties
      <4>5. verdicts' \in [Hubs -> VerdictTable]
        <5>1. verdicts \in [Hubs -> VerdictTable]
          BY <1>0 DEF TypeOK
        <5>2. [verdicts EXCEPT ![h][g] = v] \in [Hubs -> VerdictTable]
          BY <5>1 DEF VerdictTable
        <5> QED
          BY <4>4, <5>1, <5>2
      <4>6. \A k, e \in Hubs : verdicts'[k][e] # NoVerdict => banList[k] # NoRow
        BY <1>0, <4>4 DEF TypeOK, VerdictTable
      <4> QED
        BY <1>0, <4>3, <4>5, <4>6 DEF TypeOK
    <3> QED
      BY <3>1, <3>2
  <2>3. /\ left' \in [Hubs -> SUBSET (Hubs \cup {Ban})]
        /\ seen' \in [Hubs -> {Unread, 0} \cup Time]
        /\ key' \in [Hubs -> Hubs \cup {Ban}]
        /\ rx' \in [Hubs -> Message \cup {NoMsg}]
    BY <1>0, <1>7 DEF TypeOK, Write
  <2> QED
    BY <1>0, <1>7, <2>2, <2>3 DEF TypeOK, Write, sender
<1>8. CASE UNCHANGED vars
  BY <1>0, <1>8 DEF TypeOK, vars, database, sender, receiver
<1> QED
  BY <1>1, <1>2, <1>3, <1>4, <1>5, <1>6, <1>7, <1>8, DecisionType DEF Next, Apply

---------------------------------------------------------------------------
\* What a step may do to ban_verdicts: a cell gets a newer verdict, and one that
\* is not the hub's own gets none that is newer than the original.
VerdictStep ==
    \/ verdicts' = verdicts
    \/ \E h, g \in Hubs, v \in Verdict :
          /\ verdicts' = [verdicts EXCEPT ![h][g] = v]
          /\ v.at > At(verdicts[h][g])
          /\ h # g => v.at <= At(verdicts[g][g])

\* Every step is such a step: the monitor's decisions are newer than the earlier
\* ones, a merge compares, and a merge of the hub's own verdict changes nothing.
LEMMA VerdictStepHolds ==
  ASSUME IInv, [Next]_vars
  PROVE  VerdictStep
<1>0. TypeOK
  BY DEF IInv
<1>1. ASSUME NEW h \in Hubs, NEW agree \in BOOLEAN, NEW now \in Clock[h],
             SetBanVerdict(h, agree, now)
      PROVE  VerdictStep
  <2>1. h \in Hubs /\ now \in Time
    BY BanAssumption DEF Time
  <2>2. PICK v \in Verdict : v = [agree |-> agree, at |-> now]
    BY <2>1 DEF Verdict
  <2>3. verdicts' = [verdicts EXCEPT ![h][h] = v]
    BY <1>1, <2>2 DEF SetBanVerdict, SetVerdict
  <2>4. now > At(verdicts[h][h])
    <3>1. CASE verdicts[h][h] = NoVerdict
      BY <2>1, <3>1, TimeType DEF At
    <3>2. CASE verdicts[h][h] # NoVerdict
      <4>1. PICK d \in decided[h] : d.at = verdicts[h][h].at
        BY <2>1, <3>2 DEF IInv, OwnVerdictKept
      <4>2. d.at < now
        BY <1>1 DEF SetBanVerdict
      <4>3. d.at \in Nat /\ now \in Nat
        <5>1. d.at \in Time
          BY <1>0, <2>1 DEF TypeOK
        <5> QED
          BY <2>1, <5>1, TimeType
      <4> QED
        BY <3>2, <4>1, <4>2, <4>3 DEF At
    <3> QED
      BY <3>1, <3>2
  <2> QED
    BY <2>1, <2>2, <2>3, <2>4 DEF VerdictStep
<1>2. ASSUME NEW h \in Hubs, Write(h)
      PROVE  VerdictStep
  <2>1. key[h] \in left[h] /\ rx[h] \in Message /\ key[h] \in Hubs \cup {Ban}
    BY <1>0, <1>2 DEF TypeOK, IInv, Receiving, Write
  <2>2. CASE key[h] = Ban
    BY <1>2, <2>2 DEF Write, VerdictStep
  <2>3. CASE key[h] # Ban
    <3>1. PICK g \in Hubs : g = key[h]
      BY <2>1, <2>3
    <3>2. PICK v \in Verdict : v = rx[h].verdicts[g]
      BY <2>1, <3>1 DEF IInv, Receiving, Message, VerdictTable
    <3>3. v # NoVerdict /\ At(v) = v.at
      BY <2>1, <3>1, <3>2 DEF IInv, Receiving, At
    <3>4. MergeVerdict(h, g, v)
      BY <1>2, <2>3, <3>1, <3>2 DEF Write
    <3>5. CASE verdicts' = verdicts
      BY <3>5 DEF VerdictStep
    <3>6. CASE verdicts' = [verdicts EXCEPT ![h][g] = v] /\ seen[h] < v.at
      <4>1. v.at \in Nat /\ seen[h] \in Int
        <5>1. v.at \in Time
          BY DEF Verdict
        <5>2. seen[h] \in {Unread, 0} \cup Time
          BY <1>0 DEF TypeOK
        <5> QED
          BY <5>1, <5>2, TimeType DEF Unread
      <4>2. g # h
        <5>1. SUFFICES ASSUME g = h PROVE FALSE
          OBVIOUS
        <5>2. v.at <= seen[h]
          BY <1>2, <3>1, <3>2, <3>3, <5>1 DEF Write, IInv, ReadsCurrent
        <5> QED
          BY <3>6, <4>1, <5>2
      <4>3. seen[h] = At(verdicts[h][g])
        BY <1>2, <2>3, <3>1, <4>2 DEF Write, IInv, ReadsCurrent
      <4>4. v.at <= At(verdicts[g][g])
        <5>1. rx[h] # NoMsg
          BY <2>1 DEF IInv, Receiving
        <5> QED
          BY <3>2, <3>3, <5>1 DEF IInv, OwnNewest
      <4> QED
        BY <3>6, <4>1, <4>3, <4>4 DEF VerdictStep
    <3> QED
      BY <3>4, <3>5, <3>6, MergeVerdictProperties
  <2> QED
    BY <2>2, <2>3
<1>3. CASE verdicts' = verdicts
  BY <1>3 DEF VerdictStep
<1> QED
  BY <1>1, <1>2, <1>3, DecisionType DEF Next, Apply, vars, ProposeBan, ListProposals, Gossip,
     Deliver, Read, database

\* Cells only get newer, and copies stay behind the original.
LEMMA VerdictStepProperties ==
  ASSUME TypeOK, VerdictStep,
         \A h, g \in Hubs : At(verdicts[h][g]) <= At(verdicts[g][g])
  PROVE  \A h, g \in Hubs :
            /\ At(verdicts[h][g]) \in Nat
            /\ At(verdicts'[h][g]) \in Nat
            /\ At(verdicts[h][g]) <= At(verdicts'[h][g])
            /\ At(verdicts'[h][g]) <= At(verdicts'[g][g])
<1>1. \A h, g \in Hubs : verdicts[h][g] \in Verdict \cup {NoVerdict}
  BY DEF TypeOK, VerdictTable
<1>2. \A h, g \in Hubs : At(verdicts[h][g]) \in Nat
  BY <1>1, AtType
<1>3. CASE verdicts' = verdicts
  BY <1>2, <1>3
<1>4. CASE verdicts' # verdicts
  <2>1. PICK h \in Hubs, g \in Hubs, v \in Verdict :
          /\ verdicts' = [verdicts EXCEPT ![h][g] = v]
          /\ v.at > At(verdicts[h][g])
          /\ h # g => v.at <= At(verdicts[g][g])
    BY <1>4 DEF VerdictStep
  <2>2. v # NoVerdict /\ At(v) = v.at /\ v.at \in Nat
    BY AtType, NullAssumption
  <2>3. verdicts \in [Hubs -> VerdictTable]
    BY DEF TypeOK
  <2>4. verdicts'[h][g] = v
    BY <2>1, <2>3 DEF VerdictTable
  <2>5. \A k, e \in Hubs : k # h \/ e # g => verdicts'[k][e] = verdicts[k][e]
    BY <2>1, <2>3 DEF VerdictTable
  <2>6. \A k, e \in Hubs : At(verdicts'[k][e]) \in Nat /\ At(verdicts[k][e]) <= At(verdicts'[k][e])
    BY <1>2, <2>1, <2>2, <2>4, <2>5
  <2>7. \A k, e \in Hubs : At(verdicts'[k][e]) <= At(verdicts'[e][e])
    <3> TAKE k, e \in Hubs
    <3>1. CASE k = h /\ e = g
      <4>1. CASE h = g
        BY <2>6, <3>1, <4>1
      <4>2. CASE h # g
        BY <1>2, <2>1, <2>2, <2>4, <2>5, <3>1, <4>2
      <4> QED
        BY <4>1, <4>2
    <3>2. CASE k # h \/ e # g
      BY <1>2, <2>5, <2>6, <3>2
    <3> QED
      BY <3>1, <3>2
  <2> QED
    BY <1>2, <2>6, <2>7
<1> QED
  BY <1>3, <1>4

---------------------------------------------------------------------------
\* The receiver applies what it received.
LEMMA ReceivingStep ==
  ASSUME IInv, [Next]_vars
  PROVE  Receiving'
<1>0. TypeOK /\ Receiving
  BY DEF IInv
<1>1. ASSUME NEW g \in Hubs, NEW h \in Hubs, Deliver(g, h)
      PROVE  Receiving'
  <2>1. PICK msg \in Message : msg = link[g][h]
    BY <1>0, <1>1 DEF TypeOK, Deliver
  <2>2. /\ rx' = [rx EXCEPT ![h] = msg]
        /\ left' = [left EXCEPT ![h] = Records(msg)]
        /\ rx[h] = NoMsg /\ msg # NoMsg
        /\ UNCHANGED <<key, seen>>
    BY <1>1, <2>1 DEF Deliver
  <2>3. seen[h] = Unread
    BY <1>0, <2>2 DEF Receiving
  <2>4. /\ Ban \in Records(msg) => msg.proposal # NoRow
        /\ \A e \in Hubs : e \in Records(msg) => msg.verdicts[e] # NoVerdict
    BY RecordsProperties
  <2>5. rx'[h] = msg /\ left'[h] = Records(msg) /\ seen'[h] = Unread
    BY <1>0, <2>2, <2>3 DEF TypeOK
  <2>6. \A k \in Hubs : k # h =>
          /\ rx'[k] = rx[k] /\ left'[k] = left[k] /\ seen'[k] = seen[k] /\ key'[k] = key[k]
    BY <1>0, <2>2 DEF TypeOK
  <2> QED
    BY <1>0, <2>2, <2>4, <2>5, <2>6 DEF Receiving
<1>2. ASSUME NEW h \in Hubs, NEW k \in Hubs \cup {Ban}, Read(h, k)
      PROVE  Receiving'
  BY <1>0, <1>2 DEF TypeOK, Receiving, Read
<1>3. ASSUME NEW h \in Hubs, Write(h)
      PROVE  Receiving'
  <2>1. seen'[h] = Unread /\ left'[h] = left[h] \ {key[h]}
    BY <1>0, <1>3 DEF TypeOK, Write
  <2>2. left'[h] # {} => rx'[h] = rx[h]
    BY <1>0, <1>3, <2>1 DEF TypeOK, Write
  <2>3. \A k \in Hubs : k # h =>
          /\ rx'[k] = rx[k] /\ left'[k] = left[k] /\ seen'[k] = seen[k] /\ key'[k] = key[k]
    BY <1>0, <1>3 DEF TypeOK, Write
  <2> QED
    BY <1>0, <2>1, <2>2, <2>3 DEF Receiving
<1>4. CASE UNCHANGED receiver
  BY <1>0, <1>4 DEF Receiving, receiver
<1> QED
  BY <1>1, <1>2, <1>3, <1>4 DEF Next, Apply, vars, ProposeBan, SetBanVerdict, ListProposals, Gossip

\* A merge under way knows the row it is about to write.
LEMMA ReadsStep ==
  ASSUME IInv, [Next]_vars
  PROVE  ReadsCurrent'
<1>0. TypeOK /\ ReadsCurrent
  BY DEF IInv
<1>1. ASSUME NEW h \in Proposers, NEW app \in Apps, NEW now \in Clock[h], ProposeBan(h, app, now)
      PROVE  ReadsCurrent'
  <2>1. \A k \in Hubs : banList[k] # NoRow => banList'[k] = banList[k]
    BY <1>0, <1>1, BanAssumption DEF TypeOK, ProposeBan, Propose
  <2>2. \A k \in Hubs : LocalTime(k, Ban)' = LocalTime(k, Ban) \/ LocalTime(k, Ban) = 0
    BY <2>1 DEF LocalTime
  <2>3. UNCHANGED <<verdicts, rx, key, seen>>
    BY <1>1 DEF ProposeBan, receiver
  <2> QED
    BY <1>0, <2>2, <2>3 DEF ReadsCurrent
<1>2. ASSUME NEW h \in Hubs, NEW agree \in BOOLEAN, NEW now \in Clock[h],
             SetBanVerdict(h, agree, now)
      PROVE  ReadsCurrent'
  <2>1. \A k \in Hubs : LocalTime(k, Ban)' = LocalTime(k, Ban)
    BY <1>2 DEF SetBanVerdict, LocalTime
  <2>2. \A k, g \in Hubs : k # g => verdicts'[k][g] = verdicts[k][g]
    BY <1>0, <1>2, BanAssumption DEF TypeOK, VerdictTable, SetBanVerdict, SetVerdict
  <2>3. UNCHANGED <<rx, key, seen>>
    BY <1>2 DEF SetBanVerdict, receiver
  <2>4. \A k \in Hubs : key[k] \in Hubs \cup {Ban}
    BY <1>0 DEF TypeOK
  <2> QED
    BY <1>0, <2>1, <2>2, <2>3, <2>4 DEF ReadsCurrent
<1>3. ASSUME NEW g \in Hubs, NEW h \in Hubs, Deliver(g, h)
      PROVE  ReadsCurrent'
  <2>1. seen[h] = Unread
    BY <1>3 DEF Deliver, IInv, Receiving
  <2>2. \A k \in Hubs : k # h => rx'[k] = rx[k]
    BY <1>0, <1>3 DEF TypeOK, Deliver
  <2>3. UNCHANGED <<banList, verdicts, key, seen>>
    BY <1>3 DEF Deliver, database
  <2>4. \A k \in Hubs : LocalTime(k, Ban)' = LocalTime(k, Ban)
    BY <2>3 DEF LocalTime
  <2> QED
    BY <1>0, <2>1, <2>2, <2>3, <2>4 DEF ReadsCurrent
<1>4. ASSUME NEW h \in Hubs, NEW k \in Hubs \cup {Ban}, Read(h, k)
      PROVE  ReadsCurrent'
  <2>1. UNCHANGED <<banList, verdicts, rx>> /\ rx[h] # NoMsg
    BY <1>4 DEF Read, database
  <2>2. \A j \in Hubs : LocalTime(j, Ban)' = LocalTime(j, Ban)
    BY <2>1 DEF LocalTime
  <2>3. key'[h] = k /\ seen'[h] = LocalTime(h, k)
    BY <1>0, <1>4 DEF TypeOK, Read
  <2>4. \A j \in Hubs : j # h => key'[j] = key[j] /\ seen'[j] = seen[j]
    BY <1>0, <1>4 DEF TypeOK, Read
  <2>5. k # Ban => seen'[h] = At(verdicts[h][k])
    BY <1>0, <2>3, LocalTimeType
  <2>6. h # Ban
    BY BanAssumption
  <2>7. At(rx[h].verdicts[h]) <= At(verdicts[h][h])
    BY <2>1 DEF IInv, OwnNewest
  <2> QED
    BY <1>0, <2>1, <2>2, <2>3, <2>4, <2>5, <2>6, <2>7 DEF ReadsCurrent
<1>5. ASSUME NEW h \in Hubs, Write(h)
      PROVE  ReadsCurrent'
  <2>1. seen'[h] = Unread
    BY <1>0, <1>5 DEF TypeOK, Write
  <2>2. \A k \in Hubs : k # h => rx'[k] = rx[k] /\ seen'[k] = seen[k] /\ key'[k] = key[k]
    BY <1>0, <1>5 DEF TypeOK, Write
  <2>3. \A k \in Hubs : k # h => banList'[k] = banList[k]
    BY <1>0, <1>5 DEF TypeOK, Write, MergeProposal, Propose
  <2>4. \A k \in Hubs : k # h => verdicts'[k] = verdicts[k]
    BY <1>0, <1>5 DEF TypeOK, Write, MergeVerdict, SetVerdict
  <2>5. \A k \in Hubs : k # h => LocalTime(k, Ban)' = LocalTime(k, Ban)
    BY <2>3 DEF LocalTime
  <2> QED
    BY <1>0, <2>1, <2>2, <2>4, <2>5 DEF ReadsCurrent
<1>6. CASE UNCHANGED <<database, receiver>>
  <2>1. \A k \in Hubs : LocalTime(k, Ban)' = LocalTime(k, Ban)
    BY <1>6 DEF LocalTime, database
  <2> QED
    BY <1>0, <1>6, <2>1 DEF ReadsCurrent, database, receiver
<1> QED
  BY <1>1, <1>2, <1>3, <1>4, <1>5, <1>6, DecisionType DEF Next, Apply, vars, ListProposals, Gossip

\* Copies on a link or being applied stay behind the original, too.
LEMMA OwnNewestStep ==
  ASSUME IInv, [Next]_vars
  PROVE  OwnNewest'
<1>0. TypeOK /\ OwnNewest
  BY DEF IInv
<1>1. VerdictStep
  BY VerdictStepHolds
<1>2. \A h, g \in Hubs : At(verdicts[h][g]) <= At(verdicts[g][g])
  BY <1>0 DEF OwnNewest
<1>3. \A h, g \in Hubs :
        /\ At(verdicts[h][g]) \in Nat
        /\ At(verdicts'[h][g]) \in Nat
        /\ At(verdicts[h][g]) <= At(verdicts'[h][g])
        /\ At(verdicts'[h][g]) <= At(verdicts'[g][g])
  BY <1>0, <1>1, <1>2, VerdictStepProperties
\* A message of the step before, or one with a whole column of its sender.
<1> DEFINE Covered(msg) == msg # NoMsg => \A g \in Hubs : At(msg.verdicts[g]) \in Nat
                                             /\ At(msg.verdicts[g]) <= At(verdicts[g][g])
<1>4. \A h \in Hubs : Covered(rx[h])
  <2> TAKE h \in Hubs
  <2>1. rx[h] # NoMsg => \A g \in Hubs : rx[h].verdicts[g] \in Verdict \cup {NoVerdict}
    BY <1>0 DEF TypeOK, Message, VerdictTable
  <2> QED
    BY <1>0, <2>1, AtType DEF OwnNewest
<1>5. \A h, k \in Hubs : Covered(link[h][k])
  <2> TAKE h, k \in Hubs
  <2>1. link[h][k] # NoMsg => \A g \in Hubs : link[h][k].verdicts[g] \in Verdict \cup {NoVerdict}
    BY <1>0 DEF TypeOK, Message, VerdictTable
  <2> QED
    BY <1>0, <2>1, AtType DEF OwnNewest
<1>6. \A h \in Hubs : Covered(BuildMessage(h))
  BY <1>2, <1>3 DEF BuildMessage
<1> HIDE DEF Covered
<1>7. \A h \in Hubs : rx'[h] = NoMsg \/ Covered(rx'[h])
  <2>1. CASE rx' = rx
    BY <1>4, <2>1
  <2>2. ASSUME NEW g \in Hubs, NEW k \in Hubs, Deliver(g, k)
        PROVE  \A h \in Hubs : rx'[h] = NoMsg \/ Covered(rx'[h])
    <3>1. rx \in [Hubs -> Message \cup {NoMsg}] /\ rx' = [rx EXCEPT ![k] = link[g][k]]
      BY <1>0, <2>2 DEF TypeOK, Deliver
    <3> QED
      BY <1>4, <1>5, <3>1
  <2>3. ASSUME NEW k \in Hubs, Write(k)
        PROVE  \A h \in Hubs : rx'[h] = NoMsg \/ Covered(rx'[h])
    <3>1. rx \in [Hubs -> Message \cup {NoMsg}] /\ (rx' = rx \/ rx' = [rx EXCEPT ![k] = NoMsg])
      BY <1>0, <2>3 DEF TypeOK, Write
    <3> QED
      BY <1>4, <3>1
  <2> QED
    BY <2>1, <2>2, <2>3 DEF Next, Apply, vars, receiver, ProposeBan, SetBanVerdict, ListProposals,
       Gossip, Read
<1>8. \A h, k \in Hubs : link'[h][k] = NoMsg \/ Covered(link'[h][k])
  <2>1. CASE link' = link
    BY <1>5, <2>1
  <2>2. ASSUME NEW j \in Hubs, Gossip(j)
        PROVE  \A h, k \in Hubs : link'[h][k] = NoMsg \/ Covered(link'[h][k])
    <3>1. PICK msg : msg = BuildMessage(j)
      OBVIOUS
    <3>2. link' = [link EXCEPT ![j] = [g \in Hubs |-> IF g \in Peers[j] THEN msg ELSE @[g]]]
      BY <2>2, <3>1 DEF Gossip
    <3>3. \A h, k \in Hubs : link'[h][k] = link[h][k] \/ link'[h][k] = msg
      BY <1>0, <3>2 DEF TypeOK
    <3> QED
      BY <1>5, <1>6, <3>1, <3>3
  <2> QED
    BY <2>1, <2>2 DEF Next, Apply, vars, ProposeBan, SetBanVerdict, ListProposals, Deliver, Read,
       Write
<1>9. ASSUME NEW msg, Covered(msg), msg # NoMsg, NEW g \in Hubs
      PROVE  At(msg.verdicts[g]) <= At(verdicts'[g][g])
  <2>1. At(msg.verdicts[g]) \in Nat /\ At(msg.verdicts[g]) <= At(verdicts[g][g])
    BY <1>9 DEF Covered
  <2> QED
    BY <1>3, <2>1
<1>10. \A h, g \in Hubs : rx'[h] # NoMsg => At(rx'[h].verdicts[g]) <= At(verdicts'[g][g])
  BY <1>7, <1>9
<1>11. \A h, k, g \in Hubs :
         link'[h][k] # NoMsg => At(link'[h][k].verdicts[g]) <= At(verdicts'[g][g])
  BY <1>8, <1>9
<1> QED
  BY <1>3, <1>10, <1>11 DEF OwnNewest, At

\* A hub's own verdict is its admin's last decision.
LEMMA OwnVerdictStep ==
  ASSUME IInv, [Next]_vars
  PROVE  OwnVerdictKept'
<1>0. TypeOK /\ OwnVerdictKept
  BY DEF IInv
<1>1. ASSUME NEW h \in Hubs, NEW agree \in BOOLEAN, NEW now \in Clock[h],
             SetBanVerdict(h, agree, now)
      PROVE  OwnVerdictKept'
  <2>1. h \in Hubs /\ now \in Time
    BY BanAssumption DEF Time
  <2>2. PICK v \in Verdict : v = [agree |-> agree, at |-> now]
    BY <2>1 DEF Verdict
  <2>3. PICK d : d = [app |-> banList[h].app, agree |-> agree, at |-> now]
    OBVIOUS
  <2>4. verdicts' = [verdicts EXCEPT ![h][h] = v] /\ decided' = [decided EXCEPT ![h] = @ \cup {d}]
    BY <1>1, <2>2, <2>3 DEF SetBanVerdict, SetVerdict
  <2>5. verdicts'[h][h] = v /\ v # NoVerdict
    BY <1>0, <2>1, <2>4, NullAssumption DEF TypeOK, VerdictTable
  <2>6. decided'[h] = decided[h] \cup {d}
    BY <1>0, <2>1, <2>4 DEF TypeOK
  <2>7. \A k \in Hubs : k # h => verdicts'[k] = verdicts[k] /\ decided'[k] = decided[k]
    BY <1>0, <2>1, <2>4 DEF TypeOK
  <2>8. d.at = v.at /\ d.agree = v.agree /\ v.at = now
    BY <2>2, <2>3
  <2>9. \A e \in decided'[h] : e.at <= v.at
    <3>1. \A e \in decided[h] : e.at \in Time /\ e.at < now
      BY <1>0, <1>1, <2>1 DEF TypeOK, SetBanVerdict
    <3>2. \A e \in decided[h] : e.at <= now
      BY <2>1, <3>1, TimeType
    <3>3. now <= now
      BY <2>1, TimeType
    <3> QED
      BY <2>6, <2>8, <3>2, <3>3
  <2> QED
    BY <1>0, <2>5, <2>6, <2>7, <2>8, <2>9 DEF OwnVerdictKept
<1>2. ASSUME NEW h \in Hubs, Write(h)
      PROVE  OwnVerdictKept'
  <2>1. VerdictStep
    BY VerdictStepHolds
  <2>2. decided' = decided
    BY <1>2 DEF Write
  <2>3. \A k \in Hubs : verdicts'[k][k] = verdicts[k][k]
    <3>1. CASE verdicts' = verdicts
      BY <3>1
    <3>2. CASE verdicts' # verdicts
      <4>1. rx[h] \in Message /\ key[h] \in left[h] /\ key[h] \in Hubs
        BY <1>0, <1>2, <3>2 DEF TypeOK, IInv, Receiving, Write
      <4>2. PICK g \in Hubs : g = key[h]
        BY <4>1
      <4>3. PICK v \in Verdict : v = rx[h].verdicts[g] /\ v # NoVerdict
        BY <4>1, <4>2 DEF IInv, Receiving, Message, VerdictTable
      <4>4. MergeVerdict(h, g, v)
        BY <1>2, <3>2, <4>2, <4>3 DEF Write
      <4>5. verdicts' = [verdicts EXCEPT ![h][g] = v] /\ seen[h] < v.at
        BY <3>2, <4>4, MergeVerdictProperties
      <4>6. g # h
        <5>1. SUFFICES ASSUME g = h PROVE FALSE
          OBVIOUS
        <5>2. v.at <= seen[h]
          BY <1>2, <4>2, <4>3, <5>1 DEF Write, IInv, ReadsCurrent, At
        <5>3. v.at \in Time /\ seen[h] \in {Unread, 0} \cup Time
          BY <1>0 DEF Verdict, TypeOK
        <5> QED
          BY <4>5, <5>2, <5>3, TimeType DEF Unread
      <4> QED
        BY <1>0, <4>5, <4>6 DEF TypeOK, VerdictTable
    <3> QED
      BY <3>1, <3>2
  <2> QED
    BY <1>0, <2>2, <2>3 DEF OwnVerdictKept
<1>3. CASE UNCHANGED <<verdicts, decided>>
  BY <1>0, <1>3 DEF OwnVerdictKept
<1> QED
  BY <1>1, <1>2, <1>3, DecisionType DEF Next, Apply, vars, ProposeBan, ListProposals, Gossip,
     Deliver, Read, database

---------------------------------------------------------------------------
\* The first state: empty tables and idle goroutines.
LEMMA IInvInit == Init => IInv
<1> SUFFICES ASSUME Init PROVE IInv
  OBVIOUS
<1>1. TypeOK
  BY DEF Init, TypeOK, VerdictTable
<1>2. Receiving /\ ReadsCurrent /\ OwnVerdictKept
  BY DEF Init, Receiving, ReadsCurrent, OwnVerdictKept
<1>3. OwnNewest
  BY DEF Init, OwnNewest, At
<1> QED
  BY <1>1, <1>2, <1>3 DEF IInv

\* Every step keeps the invariant.
LEMMA IInvStep ==
  ASSUME IInv, [Next]_vars
  PROVE  IInv'
  BY TypeStep, ReceivingStep, ReadsStep, OwnNewestStep, OwnVerdictStep DEF IInv

\* No step puts an older proposal into the row of ban_list: the monitor only
\* inserts, and a merge compares with what it read, which is then still there.
LEMMA ProposalStep ==
  ASSUME IInv, [Next]_vars, NEW h \in Hubs
  PROVE  LocalTime(h, Ban)' >= LocalTime(h, Ban)
<1>0. TypeOK /\ TypeOK'
  BY TypeStep DEF IInv
<1>1. LocalTime(h, Ban) \in Nat /\ (banList[h] = NoRow => LocalTime(h, Ban) = 0)
  <2>1. LocalTime(h, Ban) \in {0} \cup Time
    BY <1>0, LocalTimeType
  <2> QED
    BY <2>1, TimeType DEF LocalTime
<1>2. LocalTime(h, Ban)' \in Nat
  <2>1. banList'[h] \in Proposal \cup {NoRow}
    BY <1>0 DEF TypeOK
  <2>2. LocalTime(h, Ban)' = 0 \/ LocalTime(h, Ban)' \in Time
    BY <2>1 DEF LocalTime, Proposal
  <2> QED
    BY <2>2, TimeType
<1>3. CASE banList'[h] = banList[h]
  BY <1>1, <1>3 DEF LocalTime
<1>4. CASE banList'[h] # banList[h]
  <2>1. ASSUME NEW j \in Proposers, NEW app \in Apps, NEW now \in Clock[j], ProposeBan(j, app, now)
        PROVE  LocalTime(h, Ban)' >= LocalTime(h, Ban)
    <3>1. banList[h] = NoRow
      BY <1>0, <1>4, <2>1, BanAssumption DEF ProposeBan, Propose, TypeOK
    <3> QED
      BY <1>1, <1>2, <3>1
  <2>2. ASSUME NEW j \in Hubs, Write(j)
        PROVE  LocalTime(h, Ban)' >= LocalTime(h, Ban)
    <3>1. key[j] = Ban /\ MergeProposal(j, rx[j].proposal) /\ seen[j] # Unread
      BY <1>4, <2>2 DEF Write
    <3>2. PICK p \in Proposal : p = rx[j].proposal
      BY <1>0, <3>1 DEF IInv, Receiving, TypeOK, Message
    <3>3. seen[j] = 0 \/ seen[j] = LocalTime(j, Ban)
      BY <3>1 DEF IInv, ReadsCurrent
    <3>4. /\ banList' = banList \/ banList' = [banList EXCEPT ![j] = p]
          /\ banList' # banList => p.at >= LocalTime(j, Ban)
      BY <1>0, <3>1, <3>2, <3>3, MergeProposalProperties
    <3>5. j = h /\ banList'[h] = p /\ p.at >= LocalTime(h, Ban)
      BY <1>0, <1>4, <3>4 DEF TypeOK
    <3>6. LocalTime(h, Ban)' = p.at
      BY <3>5, NullAssumption DEF LocalTime
    <3> QED
      BY <3>5, <3>6
  <2> QED
    BY <1>4, <2>1, <2>2 DEF Next, Apply, vars, database, SetBanVerdict, ListProposals, Gossip,
       Deliver, Read
<1> QED
  BY <1>3, <1>4

\* The same for every row of both tables.
LEMMA NeverOlderStep ==
  ASSUME IInv, [Next]_vars
  PROVE  \A h \in Hubs : \A k \in Hubs \cup {Ban} : LocalTime(h, k)' >= LocalTime(h, k)
<1> TAKE h \in Hubs
<1> TAKE k \in Hubs \cup {Ban}
<1>1. CASE k = Ban
  BY <1>1, ProposalStep
<1>2. CASE k # Ban
  <2>1. TypeOK /\ VerdictStep /\ \A e, g \in Hubs : At(verdicts[e][g]) <= At(verdicts[g][g])
    BY VerdictStepHolds DEF IInv, OwnNewest
  <2>2. /\ At(verdicts[h][k]) \in Nat
        /\ At(verdicts'[h][k]) \in Nat
        /\ At(verdicts[h][k]) <= At(verdicts'[h][k])
    BY <1>2, <2>1, VerdictStepProperties
  <2>3. LocalTime(h, k) = At(verdicts[h][k]) /\ LocalTime(h, k)' = At(verdicts'[h][k])
    BY <1>2 DEF LocalTime, At
  <2> QED
    BY <2>2, <2>3
<1> QED
  BY <1>1, <1>2

---------------------------------------------------------------------------
\* The inductive invariant holds of every behaviour of the hubs' gossip, their
\* merges and the monitors' writes.
THEOREM Invariance == Spec => []IInv
<1>1. Init => IInv
  BY IInvInit
<1>2. IInv /\ [Next]_vars => IInv'
  BY IInvStep
<1> QED
  BY <1>1, <1>2, PTL DEF Spec

\* ban_list, ban_verdicts and the goroutines' state keep their types, and every
\* row of ban_verdicts has the row of ban_list that its foreign key refers to.
THEOREM TypeCorrect == Spec => []TypeOK
<1>1. IInv => TypeOK
  BY DEF IInv
<1> QED
  BY <1>1, Invariance, PTL

\* A hub's own verdict is always its admin's last decision, whatever copies of it
\* MergeGossipVerdict is given and whenever the monitor writes.
THEOREM OwnVerdictKeptHolds == Spec => []OwnVerdictKept
<1>1. IInv => OwnVerdictKept
  BY DEF IInv
<1> QED
  BY <1>1, Invariance, PTL

\* No step of the monitor or of a merge replaces a row by an older one, although
\* the SELECT and the write of a merge are two statements.
THEOREM NeverOlderHolds == Spec => NeverOlder
<1>1. IInv /\ [Next]_vars
        => [\A h \in Hubs : \A k \in Hubs \cup {Ban} : LocalTime(h, k)' >= LocalTime(h, k)]_vars
  BY NeverOlderStep
<1> QED
  BY <1>1, Invariance, PTL DEF Spec, NeverOlder
=============================================================================
