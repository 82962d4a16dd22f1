-------------------------- MODULE EventStreamProofs --------------------------
(***************************************************************************)
(* Theorems about the dashboard, for any number of events, connections,    *)
(* pages, logins and password changes and for channels of any capacity:    *)
(* what its sessions may do, and which events reach its pages, in which    *)
(* order, while the hub and the monitor fail and restart.                  *)
(***************************************************************************)
EXTENDS EventStream, SequenceTheorems, TLAPS

\* The row says must_change_password exactly while it has the default password, and
\* before there is a row there is nobody.
RowHonest ==
    /\ password = NoRow => sessions = {} /\ \A l \in Logins : login[l] # "matched"
    /\ password = Default => must
    /\ password \in Chosen => ~must

\* Whoever will be let in without a restriction, or is about to lift it, knows that a
\* password has been chosen.
GrantsHonest ==
    /\ \A l \in Logins : login[l] = "matched" /\ ~readMust[l] => password \in Chosen
    /\ \A q \in Changes : change[q].step = "updated" => password \in Chosen
    /\ \A l \in sessions \ restricted : password \in Chosen

\* The inductive invariant.
IInv == SessionsTypeOK /\ RowHonest /\ GrantsHonest

---------------------------------------------------------------------------
LEMMA InitInvariant == Init => IInv
<1> SUFFICES ASSUME SessionsInit PROVE IInv
  BY DEF Init
<1>1. \A q \in Changes : change[q].step = "new" /\ change[q] \in [step : {"new"}, to : Chosen]
  BY DEF SessionsInit
<1>2. change \in [Changes -> [step : {"new", "compared", "updated", "done"}, to : Chosen]]
  <2>1. [step : {"new"}, to : Chosen] \subseteq [step : {"new", "compared", "updated", "done"}, to : Chosen]
    OBVIOUS
  <2> QED
    BY <2>1 DEF SessionsInit
<1>3. failures \in 0 .. MaxFailures - 1
  BY SessionsAssumption DEF SessionsInit
<1>4. /\ password \in Passwords \cup {NoRow} /\ must \in BOOLEAN /\ locked \in BOOLEAN
      /\ restricted \subseteq sessions /\ sessions \subseteq Logins
      /\ login \in [Logins -> {"new", "sent", "matched", "done"}]
  BY DEF SessionsInit
<1>5. readMust \in [Logins -> BOOLEAN]
  BY Zenon DEF SessionsInit
<1>6. SessionsTypeOK
  BY <1>2, <1>3, <1>4, <1>5 DEF SessionsTypeOK
<1> QED
  BY <1>1, <1>6, SessionsAssumption DEF SessionsInit, IInv, RowHonest, GrantsHonest

\* A failed login counts below MaxFailures, and so does the count that begins anew.
LEMMA CountBounded ==
  /\ 0 \in 0 .. MaxFailures - 1
  /\ \A n \in 0 .. MaxFailures - 1 : (n + 1) % MaxFailures \in 0 .. MaxFailures - 1
  BY SessionsAssumption

\* Logins, from the check for a lockout to the session.
LEMMA LoginKeeps ==
  ASSUME IInv, NEW l \in Logins,
         CheckLockout(l) \/ OpenSession(l) \/ \E w \in Passwords \cup {Wrong} : Compare(l, w)
  PROVE  IInv'
<1> USE SessionsAssumption DEF IInv, SessionsTypeOK, RowHonest, GrantsHonest, row, attempts, Passwords
<1>1. CASE CheckLockout(l)
  BY <1>1 DEF CheckLockout
<1>2. CASE OpenSession(l)
  <2>1. SessionsTypeOK' /\ RowHonest'
    <3>1. /\ failures' \in 0 .. MaxFailures - 1 /\ locked' \in BOOLEAN
          /\ UNCHANGED <<password, must, readMust, change>>
      BY <1>2, CountBounded DEF OpenSession
    <3>2. restricted' \subseteq sessions' /\ sessions' \subseteq Logins
      BY <1>2 DEF OpenSession
    <3>3. /\ login' = [login EXCEPT ![l] = "done"]
          /\ login' \in [Logins -> {"new", "sent", "matched", "done"}]
      BY <1>2 DEF OpenSession
    <3>4. SessionsTypeOK'
      BY <3>1, <3>2, <3>3, Zenon
    <3>5. password # NoRow
      BY <1>2 DEF OpenSession
    <3>6. RowHonest'
      BY <3>1, <3>5
    <3> QED
      BY <3>4, <3>6
  <2>2. l \in restricted' \/ ~readMust[l]
    BY <1>2, Zenon DEF OpenSession
  <2>3. \A k \in sessions' \ restricted' : k = l \/ k \in sessions \ restricted
    BY <1>2 DEF OpenSession
  <2>4. \A k \in sessions' \ restricted' : password \in Chosen
    BY <1>2, <2>2, <2>3 DEF OpenSession
  <2>5. GrantsHonest'
    BY <1>2, <2>4 DEF OpenSession
  <2> QED
    BY <2>1, <2>5
<1>3. ASSUME NEW w \in Passwords \cup {Wrong}, Compare(l, w) PROVE IInv'
  <2>1. CASE w = password
    <3>1. /\ login[l] = "sent"
          /\ login' = [login EXCEPT ![l] = "matched"]
          /\ readMust' = [readMust EXCEPT ![l] = must]
          /\ UNCHANGED <<password, must, failures, locked, sessions, restricted, change>>
      BY <1>3, <2>1 DEF Compare
    <3>2. SessionsTypeOK'
      BY <3>1
    <3>3. password \in Passwords
      BY <2>1
    <3>4. ~must => password \in Chosen
      BY <3>3
    <3>5. readMust'[l] = must /\ \A k \in Logins : k # l => readMust'[k] = readMust[k]
      BY <3>1
    <3>6. \A k \in Logins : login'[k] = "matched" /\ ~readMust'[k] => password' \in Chosen
      BY <3>1, <3>4, <3>5
    <3>7. RowHonest' /\ GrantsHonest'
      BY <3>1, <3>3, <3>6
    <3> QED
      BY <3>2, <3>7
  <2>2. CASE w # password
    <3>1. failures' \in 0 .. MaxFailures - 1 /\ locked' \in BOOLEAN
      BY <1>3, <2>2, CountBounded DEF Compare, RecordFailure
    <3> QED
      BY <1>3, <2>2, <3>1 DEF Compare
  <2> QED
    BY <2>1, <2>2
<1> QED
  BY <1>1, <1>2, <1>3

\* The three steps of a change of the password.
LEMMA ChangeKeeps ==
  ASSUME IInv, NEW q \in Changes,
         UpdatePassword(q) \/ ReleaseSessions(q) \/ \E w \in Passwords : CompareCurrent(q, w)
  PROVE  IInv'
<1> DEFINE Steps == {"new", "compared", "updated", "done"}
<1> USE SessionsAssumption DEF IInv, SessionsTypeOK, RowHonest, GrantsHonest, row, attempts, Passwords
<1>1. ASSUME NEW s \in Steps, change' = [change EXCEPT ![q].step = s]
      PROVE  /\ change' \in [Changes -> [step : Steps, to : Chosen]]
             /\ change'[q].step = s
             /\ \A p \in Changes : p # q => change'[p] = change[p]
  BY <1>1
<1>2. CASE UpdatePassword(q)
  <2>1. change[q].to \in Chosen
    OBVIOUS
  <2> QED
    BY <1>1, <1>2, <2>1 DEF UpdatePassword
<1>3. CASE ReleaseSessions(q)
  BY <1>1, <1>3 DEF ReleaseSessions
<1>4. ASSUME NEW w \in Passwords, CompareCurrent(q, w) PROVE IInv'
  BY <1>1, <1>4 DEF CompareCurrent
<1> QED
  BY <1>2, <1>3, <1>4

\* The monitor stops in the middle of whatever its requests were doing.
LEMMA LossKeeps == ASSUME IInv, SessionsLost PROVE IInv'
<1> USE SessionsAssumption DEF IInv, SessionsTypeOK, RowHonest, GrantsHonest, row, attempts, Passwords, SessionsLost
<1>1. /\ change' \in [Changes -> [step : {"new", "compared", "updated", "done"}, to : Chosen]]
      /\ \A q \in Changes : change'[q].step # "updated"
  <2>1. ASSUME NEW q \in Changes
        PROVE  /\ change'[q] \in [step : {"new", "compared", "updated", "done"}, to : Chosen]
               /\ change'[q].step # "updated"
    OBVIOUS
  <2> QED
    BY <2>1
<1>2. \A l \in Logins : login'[l] \in {"new", "done"}
  OBVIOUS
<1>3. failures' \in 0 .. MaxFailures - 1 /\ locked' \in BOOLEAN
  BY CountBounded
<1>4. readMust' \in [Logins -> BOOLEAN]
  BY Zenon
<1>5. /\ password' \in Passwords \cup {NoRow} /\ must' \in BOOLEAN
      /\ restricted' \subseteq sessions' /\ sessions' \subseteq Logins
      /\ login' \in [Logins -> {"new", "sent", "matched", "done"}]
  BY <1>2
<1>6. SessionsTypeOK'
  BY <1>1, <1>3, <1>4, <1>5 DEF SessionsTypeOK
<1> QED
  BY <1>1, <1>2, <1>6

LEMMA StepInvariant == IInv /\ [Next]_vars => IInv'
<1> SUFFICES ASSUME IInv, [Next]_vars PROVE IInv'
  OBVIOUS
<1>1. CASE UNCHANGED authVars
  BY <1>1 DEF authVars, row, attempts, IInv, SessionsTypeOK, RowHonest, GrantsHonest
<1>2. CASE SessionStep
  <2>1. CASE EnsureDefaultAdmin
    BY <2>1, SessionsAssumption DEF EnsureDefaultAdmin, attempts, IInv, SessionsTypeOK, RowHonest, GrantsHonest, Passwords
  <2>2. CASE LockoutEnds
    BY <2>2 DEF LockoutEnds, row, IInv, SessionsTypeOK, RowHonest, GrantsHonest
  <2> QED
    BY <1>2, <2>1, <2>2, LoginKeeps, ChangeKeeps DEF SessionStep
<1>3. ASSUME NEW l \in Logins, EndSession(l) PROVE IInv'
  BY <1>3 DEF EndSession, row, attempts, IInv, SessionsTypeOK, RowHonest, GrantsHonest
<1>4. CASE RestartMonitor
  BY <1>4, LossKeeps DEF RestartMonitor
<1>5. CASE Authenticate \/ Logout
  BY <1>2, <1>3, <1>5 DEF Authenticate, Logout
<1>6. CASE \/ Commit \/ HubStep \/ Connect \/ ReadEvent \/ ReadFails \/ MonitorStep \/ RestartHub
           \/ \E c \in Slots : Handle(c)
           \/ \E b \in Tabs, l \in Logins : OpenTab(b, l)
           \/ \E b \in Tabs : ServeTab(b) \/ RemoveTab(b)
           \/ UNCHANGED vars
  BY <1>1, <1>6 DEF Commit, HubStep, Publish, Connect, Dial, ReadEvent, ReadFails, MonitorStep, TakeEvent,
     FanOut, RestartHub, Handle, AddClient, WriteMessage, RemoveClient, HangUp, OpenTab, ServeTab,
     RegisterTab, Snapshot, WriteTab, RemoveTab, vars
<1> QED
  BY <1>4, <1>5, <1>6 DEF Next

\* The monitor and its admin keep the invariant.
THEOREM Invariance == Spec => []IInv
  BY InitInvariant, StepInvariant, PTL DEF Spec

\* Login and ChangePassword, in any number and overlapping, with lockouts, logouts and
\* restarts of the monitor, let nobody act before the default password is gone.
THEOREM DefaultIsReplacedHolds == Spec => []DefaultIsReplaced
<1>1. IInv => DefaultIsReplaced
  BY DEF IInv, RowHonest, GrantsHonest, DefaultIsReplaced
<1> QED
  BY <1>1, Invariance, PTL

---------------------------------------------------------------------------
\* The order of events, as a fact about sequences

\* Where event i is in the sequence p of published events.
At(p, i) == CHOOSE j \in 1 .. Len(p) : p[j] = i

\* No event is published twice.
Distinct(p) == \A j, k \in 1 .. Len(p) : p[j] = p[k] => j = k

\* Everything in A was published before everything in B.
Ahead(p, A, B) == \A x \in A, y \in B : At(p, x) < At(p, y)

\* s follows the order of p, and s is in the opposite order.
Sorted(p, s) == \A j, k \in 1 .. Len(s) : j < k => At(p, s[j]) < At(p, s[k])
SortedDown(p, s) == \A j, k \in 1 .. Len(s) : j < k => At(p, s[k]) < At(p, s[j])

\* The elements of a sequence.
LEMMA ToSetIs ==
  ASSUME NEW S, NEW s \in Seq(S)
  PROVE  /\ ToSet(s) \subseteq S
         /\ Len(s) \in Nat
         /\ \A j \in 1 .. Len(s) : s[j] \in ToSet(s)
         /\ \A x \in ToSet(s) : \E j \in 1 .. Len(s) : s[j] = x
         /\ s = <<>> => ToSet(s) = {}
<1>1. DOMAIN s = 1 .. Len(s) /\ Len(s) \in Nat
  BY LenProperties
<1>2. \A j \in 1 .. Len(s) : s[j] \in S
  BY ElementOfSeq
<1> QED
  BY <1>1, <1>2 DEF ToSet

\* Events are at their places.
LEMMA PlaceOfEvent ==
  ASSUME NEW S, NEW p \in Seq(S), Distinct(p), NEW j \in 1 .. Len(p)
  PROVE  At(p, p[j]) = j
<1>1. At(p, p[j]) \in 1 .. Len(p) /\ p[At(p, p[j])] = p[j]
  BY DEF At
<1> QED
  BY <1>1 DEF Distinct

\* A sequence and one more element.
LEMMA AppendElements ==
  ASSUME NEW S, NEW s \in Seq(S), NEW i \in S
  PROVE  /\ Append(s, i) \in Seq(S)
         /\ Len(Append(s, i)) = Len(s) + 1
         /\ \A j \in 1 .. Len(s) : Append(s, i)[j] = s[j]
         /\ Append(s, i)[Len(s) + 1] = i
         /\ ToSet(Append(s, i)) = ToSet(s) \cup {i}
<1>1. /\ Append(s, i) \in Seq(S)
      /\ Len(Append(s, i)) = Len(s) + 1
      /\ \A j \in 1 .. Len(s) : Append(s, i)[j] = s[j]
      /\ Append(s, i)[Len(s) + 1] = i
  BY AppendProperties
<1>2. Len(s) \in Nat /\ DOMAIN s = 1 .. Len(s) /\ DOMAIN Append(s, i) = 1 .. Len(s) + 1
  BY <1>1, LenProperties
<1>3. ToSet(Append(s, i)) = ToSet(s) \cup {i}
  <2> DEFINE t == Append(s, i)
  <2> HIDE DEF t
  <2>1. /\ \A j \in 1 .. Len(s) : t[j] = s[j]
        /\ t[Len(s) + 1] = i
        /\ DOMAIN t = 1 .. Len(s) + 1
    BY <1>1, <1>2 DEF t
  <2>2. \A x \in ToSet(t) : x \in ToSet(s) \cup {i}
    BY <1>2, <2>1 DEF ToSet
  <2>3. \A x \in ToSet(s) \cup {i} : x \in ToSet(t)
    <3>1. i \in ToSet(t)
      BY <1>2, <2>1 DEF ToSet
    <3>2. \A x \in ToSet(s) : x \in ToSet(t)
      BY <1>2, <2>1 DEF ToSet
    <3> QED
      BY <3>1, <3>2
  <2> QED
    BY <2>2, <2>3 DEF t
<1> QED
  BY <1>1, <1>3

\* A sequence and what is left of it without its first element.
LEMMA TailElements ==
  ASSUME NEW S, NEW s \in Seq(S), s # <<>>
  PROVE  /\ Tail(s) \in Seq(S)
         /\ Len(Tail(s)) = Len(s) - 1
         /\ \A j \in 1 .. Len(s) - 1 : Tail(s)[j] = s[j + 1]
         /\ Head(s) = s[1] /\ Head(s) \in ToSet(s)
         /\ ToSet(s) = ToSet(Tail(s)) \cup {Head(s)}
<1>1. /\ Tail(s) \in Seq(S) /\ Len(Tail(s)) = Len(s) - 1
      /\ \A j \in 1 .. Len(s) - 1 : Tail(s)[j] = s[j + 1]
      /\ Head(s) = s[1]
  BY HeadTailProperties
<1>2. Len(s) \in Nat \ {0} /\ DOMAIN s = 1 .. Len(s) /\ DOMAIN Tail(s) = 1 .. Len(s) - 1
  BY <1>1, LenProperties, EmptySeq
<1>3. PICK t : t = Tail(s)
  OBVIOUS
<1>4. \A x \in ToSet(t) : x \in ToSet(s)
  BY <1>1, <1>2, <1>3 DEF ToSet
<1>5. s[1] \in ToSet(s)
  BY <1>2 DEF ToSet
<1>6. \A x \in ToSet(s) : x \in ToSet(t) \cup {s[1]}
  <2> SUFFICES ASSUME NEW j \in 1 .. Len(s), j # 1 PROVE s[j] \in ToSet(t)
    BY <1>2 DEF ToSet
  <2>1. j - 1 \in 1 .. Len(s) - 1 /\ t[j - 1] = s[j]
    BY <1>1, <1>2, <1>3
  <2> QED
    BY <1>2, <1>3, <2>1 DEF ToSet
<1> QED
  BY <1>1, <1>3, <1>4, <1>5, <1>6

\* Publishing an event leaves the others where they are and puts it after them.
LEMMA PublishPlaces ==
  ASSUME NEW S, NEW p \in Seq(S), Distinct(p), NEW i \in S, i \notin ToSet(p)
  PROVE  LET q == Append(p, i) IN
         /\ Distinct(q)
         /\ \A x \in ToSet(p) : At(q, x) = At(p, x) /\ At(p, x) \in 1 .. Len(p)
         /\ At(q, i) = Len(p) + 1
<1>1. PICK q : q = Append(p, i)
  OBVIOUS
<1>2. /\ q \in Seq(S) /\ Len(q) = Len(p) + 1 /\ Len(p) \in Nat
      /\ \A j \in 1 .. Len(p) : q[j] = p[j] /\ p[j] \in ToSet(p)
      /\ q[Len(p) + 1] = i
  BY <1>1, AppendElements, ToSetIs
<1>3. Distinct(q)
  BY <1>2 DEF Distinct
<1>4. ASSUME NEW x \in ToSet(p) PROVE At(q, x) = At(p, x) /\ At(p, x) \in 1 .. Len(p)
  <2>1. PICK j \in 1 .. Len(p) : p[j] = x
    BY <1>4, ToSetIs
  <2>2. At(p, x) = j
    BY <2>1, PlaceOfEvent
  <2>3. j \in 1 .. Len(q) /\ q[j] = x
    BY <1>2, <2>1
  <2>4. At(q, x) = j
    BY <1>2, <1>3, <2>3, PlaceOfEvent
  <2> QED
    BY <2>2, <2>4
<1>5. At(q, i) = Len(p) + 1
  <2>1. Len(p) + 1 \in 1 .. Len(q)
    BY <1>2
  <2> QED
    BY <1>2, <1>3, <2>1, PlaceOfEvent
<1> QED
  BY <1>1, <1>3, <1>4, <1>5

\* A send to a channel adds the event, or leaves a full channel as it is.
LEMMA OfferElements ==
  ASSUME NEW S, NEW s \in Seq(S), NEW i \in S, NEW n \in Nat
  PROVE  /\ Offer(s, i, n) \in Seq(S)
         /\ Len(s) <= n => Len(Offer(s, i, n)) <= n
         /\ ToSet(s) \subseteq ToSet(Offer(s, i, n))
         /\ ToSet(Offer(s, i, n)) \subseteq ToSet(s) \cup {i}
         /\ Len(s) < n => i \in ToSet(Offer(s, i, n))
<1>1. CASE Len(s) < n
  <2>1. /\ Append(s, i) \in Seq(S) /\ Len(Append(s, i)) = Len(s) + 1 /\ Len(s) \in Nat
        /\ ToSet(Append(s, i)) = ToSet(s) \cup {i}
    BY AppendElements, LenProperties
  <2> QED
    BY <1>1, <2>1 DEF Offer
<1>2. CASE ~(Len(s) < n)
  BY <1>2 DEF Offer
<1> QED
  BY <1>1, <1>2

\* An event that was published after everything in a channel goes to its end.
LEMMA AppendInOrder ==
  ASSUME NEW S, NEW p, NEW s \in Seq(S), NEW i \in S, Sorted(p, s), Ahead(p, ToSet(s), {i})
  PROVE  Sorted(p, Append(s, i))
<1>1. PICK t : t = Append(s, i)
  OBVIOUS
<1>2. /\ t \in Seq(S) /\ Len(t) = Len(s) + 1 /\ Len(s) \in Nat
      /\ \A j \in 1 .. Len(s) : t[j] = s[j]
      /\ t[Len(s) + 1] = i
      /\ \A j \in 1 .. Len(s) : s[j] \in ToSet(s)
  BY <1>1, AppendElements, ToSetIs
<1> SUFFICES ASSUME NEW j \in 1 .. Len(t), NEW k \in 1 .. Len(t), j < k
             PROVE  At(p, t[j]) < At(p, t[k])
  BY <1>1 DEF Sorted
<1>3. CASE k \in 1 .. Len(s)
  BY <1>2, <1>3 DEF Sorted
<1>4. CASE k = Len(s) + 1
  <2>1. j \in 1 .. Len(s) /\ t[j] \in ToSet(s) /\ t[k] = i
    BY <1>2, <1>4
  <2> QED
    BY <2>1 DEF Ahead
<1> QED
  BY <1>2, <1>3, <1>4

\* What is taken from a channel in order is ahead of the rest.
LEMMA TakeKeeps ==
  ASSUME NEW S, NEW p, NEW s \in Seq(S), s # <<>>, Sorted(p, s)
  PROVE  Sorted(p, Tail(s)) /\ Ahead(p, {Head(s)}, ToSet(Tail(s)))
<1>1. PICK t : t = Tail(s)
  OBVIOUS
<1>2. /\ t \in Seq(S) /\ Len(t) = Len(s) - 1 /\ Len(s) \in Nat \ {0}
      /\ \A j \in 1 .. Len(s) - 1 : t[j] = s[j + 1]
      /\ Head(s) = s[1]
  BY <1>1, TailElements, ToSetIs, EmptySeq
<1>3. Sorted(p, t)
  <2> SUFFICES ASSUME NEW j \in 1 .. Len(t), NEW k \in 1 .. Len(t), j < k
               PROVE  At(p, t[j]) < At(p, t[k])
    BY DEF Sorted
  <2>1. /\ j + 1 \in 1 .. Len(s) /\ k + 1 \in 1 .. Len(s) /\ j + 1 < k + 1
        /\ t[j] = s[j + 1] /\ t[k] = s[k + 1]
    BY <1>2
  <2> QED
    BY <2>1 DEF Sorted
<1>4. Ahead(p, {Head(s)}, ToSet(t))
  <2> SUFFICES ASSUME NEW y \in ToSet(t) PROVE At(p, s[1]) < At(p, y)
    BY <1>2 DEF Ahead
  <2>1. PICK j \in 1 .. Len(t) : t[j] = y
    BY <1>2, ToSetIs
  <2>2. 1 \in 1 .. Len(s) /\ j + 1 \in 1 .. Len(s) /\ 1 < j + 1 /\ y = s[j + 1]
    BY <1>2, <2>1
  <2> QED
    BY <2>2 DEF Sorted
<1> QED
  BY <1>1, <1>3, <1>4

\* Add puts an alert that is newer than the feed at its front.
LEMMA AddKeeps ==
  ASSUME NEW p, sos \in Seq(Alerts), NEW i \in Alerts
  PROVE  /\ Add(i) \in Seq(Alerts) /\ Len(Add(i)) <= MaxAlerts
         /\ ToSet(Add(i)) \subseteq ToSet(sos) \cup {i}
         /\ SortedDown(p, sos) /\ Ahead(p, ToSet(sos), {i}) => SortedDown(p, Add(i))
<1>1. PICK t : t = <<i>> \o sos
  OBVIOUS
<1>2. <<i>> \in Seq(Alerts) /\ Len(<<i>>) = 1 /\ <<i>>[1] = i
  OBVIOUS
<1>3. /\ t \in Seq(Alerts) /\ Len(t) = Len(sos) + 1 /\ Len(sos) \in Nat
      /\ t[1] = i
      /\ \A j \in 1 .. Len(sos) : sos[j] \in ToSet(sos)
      /\ \A j \in 2 .. Len(sos) + 1 : t[j] = sos[j - 1]
  <2>1. /\ t \in Seq(Alerts) /\ Len(t) = Len(<<i>>) + Len(sos)
        /\ \A j \in 1 .. Len(<<i>>) + Len(sos) :
              t[j] = IF j <= Len(<<i>>) THEN <<i>>[j] ELSE sos[j - Len(<<i>>)]
    BY <1>1, <1>2, ConcatProperties
  <2>2. Len(sos) \in Nat /\ \A j \in 1 .. Len(sos) : sos[j] \in ToSet(sos)
    BY ToSetIs
  <2> QED
    BY <1>2, <2>1, <2>2
<1>4. SortedDown(p, sos) /\ Ahead(p, ToSet(sos), {i}) => SortedDown(p, t)
  <2> SUFFICES ASSUME SortedDown(p, sos), Ahead(p, ToSet(sos), {i}),
                      NEW j \in 1 .. Len(t), NEW k \in 1 .. Len(t), j < k
               PROVE  At(p, t[k]) < At(p, t[j])
    BY DEF SortedDown
  <2>0. j \in Nat /\ k \in 2 .. Len(sos) + 1 /\ k - 1 \in 1 .. Len(sos)
    BY <1>3
  <2>1. k - 1 \in 1 .. Len(sos) /\ t[k] = sos[k - 1] /\ t[k] \in ToSet(sos)
    BY <1>3, <2>0
  <2>2. CASE j = 1
    BY <1>3, <2>1, <2>2 DEF Ahead
  <2>3. CASE j # 1
    <3>1. j - 1 \in 1 .. Len(sos) /\ t[j] = sos[j - 1] /\ j - 1 < k - 1
      BY <1>3, <2>0, <2>3
    <3> QED
      BY <2>1, <3>1 DEF SortedDown
  <2> QED
    BY <2>2, <2>3
<1>5. ASSUME NEW j \in 1 .. Len(t) PROVE t[j] \in ToSet(sos) \cup {i}
  BY <1>3
<1>6. CASE Len(t) > MaxAlerts
  <2>1. PICK u : u = SubSeq(t, 1, MaxAlerts)
    OBVIOUS
  <2>2. Add(i) = u
    BY <1>1, <1>6, <2>1 DEF Add
  <2>3. /\ u \in Seq(Alerts) /\ Len(u) = MaxAlerts
        /\ \A j \in 1 .. MaxAlerts : u[j] = t[j]
    <3>1. /\ \A j \in 1 .. MaxAlerts : t[j] \in Alerts
          /\ MaxAlerts \in Nat
      BY <1>3, <1>6, EventAssumption, ElementOfSeq
    <3>2. u = [j \in 1 .. MaxAlerts |-> t[j]]
      BY <1>3, <2>1, <3>1
    <3> QED
      BY <3>1, <3>2, IsASeq, LenProperties
  <2>4. ToSet(u) \subseteq ToSet(sos) \cup {i}
    <3> SUFFICES ASSUME NEW x \in ToSet(u) PROVE x \in ToSet(sos) \cup {i}
      OBVIOUS
    <3>1. PICK j \in 1 .. Len(u) : u[j] = x
      BY <2>3, ToSetIs
    <3>2. j \in 1 .. Len(t) /\ x = t[j]
      BY <1>3, <1>6, <2>3, <3>1, EventAssumption
    <3> QED
      BY <1>5, <3>2
  <2>5. SortedDown(p, t) => SortedDown(p, u)
    BY <1>3, <1>6, <2>3, EventAssumption DEF SortedDown
  <2> QED
    BY <1>4, <2>2, <2>3, <2>4, <2>5, EventAssumption
<1>7. CASE ~(Len(t) > MaxAlerts)
  <2>1. Add(i) = t
    BY <1>1, <1>7 DEF Add
  <2>2. ToSet(t) \subseteq ToSet(sos) \cup {i}
    <3> SUFFICES ASSUME NEW x \in ToSet(t) PROVE x \in ToSet(sos) \cup {i}
      OBVIOUS
    <3>1. PICK j \in 1 .. Len(t) : t[j] = x
      BY <1>3, ToSetIs
    <3> QED
      BY <1>5, <3>1
  <2> QED
    BY <1>3, <1>4, <1>7, <2>1, <2>2, EventAssumption
<1> QED
  BY <1>6, <1>7

---------------------------------------------------------------------------
\* Connections

\* A connection that the monitor does not read carries nothing, and the hub writes
\* nothing to it; a goroutine that is gone has left no channel behind.
SlotsHonest ==
    \A c \in Slots :
        /\ wire[c] # <<>> => c = link
        /\ handler[c] = "none" => queue[c] = <<>> /\ c \notin clients
        /\ handler[c] # "none" /\ c # link => c \in ended

\* Every step keeps the types.
LEMMA TypeStep ==
  ASSUME TypeOK, IInv, [Next]_vars
  PROVE  TypeOK'
<1>0. SessionsTypeOK'
  BY StepInvariant DEF IInv
<1>1. /\ MaxEvents \in Nat /\ HubBuffer \in Nat /\ WireBuffer \in Nat /\ FeedBuffer \in Nat
      /\ TabBuffer \in Nat /\ MaxRestarts \in Nat /\ MaxVisits \in Nat
      /\ MaxAlerts \in Nat \ {0} /\ Alerts \subseteq Events /\ Slots \subseteq Nat
  BY EventAssumption
<1>2. CASE Commit
  BY <1>0, <1>1, <1>2 DEF Commit, TypeOK, hubSide, net, monitorSide, pages
<1>3. ASSUME NEW i \in Events, Publish(i) PROVE TypeOK'
  <2>1. published' \in Seq(Events)
    BY <1>3, AppendProperties DEF Publish, TypeOK
  <2>2. /\ queue' \in [Slots -> Seq(Events)]
        /\ \A c \in Slots : Len(queue'[c]) <= HubBuffer
    <3>1. \A c \in Slots : /\ Offer(queue[c], i, HubBuffer) \in Seq(Events)
                           /\ Len(Offer(queue[c], i, HubBuffer)) <= HubBuffer
      BY <1>1, OfferElements DEF TypeOK
    <3>2. queue' = [c \in Slots |-> IF c \in clients THEN Offer(queue[c], i, HubBuffer) ELSE queue[c]]
      BY <1>3 DEF Publish
    <3> QED
      BY <3>1, <3>2 DEF TypeOK
  <2> QED
    BY <1>0, <1>3, <2>1, <2>2 DEF Publish, TypeOK, net, monitorSide, pages
<1>4. ASSUME NEW c \in Slots, AddClient(c) PROVE TypeOK'
  BY <1>0, <1>4 DEF AddClient, TypeOK, source, net, monitorSide, pages
<1>5. ASSUME NEW c \in Slots, WriteMessage(c) PROVE TypeOK'
  <2>1. /\ Tail(queue[c]) \in Seq(Events) /\ Len(Tail(queue[c])) <= HubBuffer
        /\ Head(queue[c]) \in Events
    <3>1. /\ queue[c] \in Seq(Events) /\ queue[c] # <<>> /\ Len(queue[c]) <= HubBuffer
      BY <1>5 DEF WriteMessage, TypeOK
    <3>2. /\ Tail(queue[c]) \in Seq(Events) /\ Len(Tail(queue[c])) = Len(queue[c]) - 1
          /\ Head(queue[c]) \in ToSet(queue[c])
          /\ Len(queue[c]) \in Nat /\ ToSet(queue[c]) \subseteq Events
      BY <3>1, TailElements, ToSetIs
    <3> QED
      BY <1>1, <3>1, <3>2
  <2>2. /\ Append(wire[c], Head(queue[c])) \in Seq(Events)
        /\ Len(Append(wire[c], Head(queue[c]))) <= WireBuffer
    <3>1. wire[c] \in Seq(Events) /\ Len(wire[c]) < WireBuffer /\ Len(wire[c]) \in Nat
      BY <1>5, LenProperties DEF WriteMessage, TypeOK
    <3>2. Len(Append(wire[c], Head(queue[c]))) = Len(wire[c]) + 1
      BY <2>1, <3>1, AppendElements
    <3> QED
      BY <1>1, <2>1, <3>1, <3>2, AppendElements
  <2>3. /\ queue' \in [Slots -> Seq(Events)] /\ wire' \in [Slots -> Seq(Events)]
        /\ \A d \in Slots : Len(queue'[d]) <= HubBuffer /\ Len(wire'[d]) <= WireBuffer
    BY <1>5, <2>1, <2>2 DEF WriteMessage, TypeOK
  <2> QED
    BY <1>0, <1>5, <2>3 DEF WriteMessage, TypeOK, source, monitorSide, pages
<1>6. ASSUME NEW c \in Slots, RemoveClient(c) PROVE TypeOK'
  <2>1. <<>> \in Seq(Events) /\ Len(<<>>) <= HubBuffer
    BY <1>1
  <2> QED
    BY <1>0, <1>6, <2>1 DEF RemoveClient, HangUp, TypeOK, source, monitorSide, pages
<1>7. ASSUME NEW c \in Slots, Dial(c) PROVE TypeOK'
  BY <1>0, <1>7 DEF Dial, TypeOK, source, net, pages
<1>8. CASE ReadEvent
  <2>1. /\ link \in Slots /\ wire[link] \in Seq(Events) /\ wire[link] # <<>>
        /\ Len(wire[link]) <= WireBuffer
    BY <1>8 DEF ReadEvent, TypeOK
  <2>2. /\ Tail(wire[link]) \in Seq(Events) /\ Len(Tail(wire[link])) <= WireBuffer
        /\ Head(wire[link]) \in Events
    <3>1. /\ Tail(wire[link]) \in Seq(Events) /\ Len(Tail(wire[link])) = Len(wire[link]) - 1
          /\ Head(wire[link]) \in ToSet(wire[link])
          /\ Len(wire[link]) \in Nat /\ ToSet(wire[link]) \subseteq Events
      BY <2>1, TailElements, ToSetIs
    <3> QED
      BY <1>1, <2>1, <3>1
  <2>3. feed' \in Seq(Events) /\ Len(feed') <= FeedBuffer
    <3>1. /\ Offer(feed, Head(wire[link]), FeedBuffer) \in Seq(Events)
          /\ Len(Offer(feed, Head(wire[link]), FeedBuffer)) <= FeedBuffer
      BY <1>1, <2>2, OfferElements DEF TypeOK
    <3> QED
      BY <1>8, <3>1 DEF ReadEvent, TypeOK
  <2>4. /\ wire' \in [Slots -> Seq(Events)] /\ \A d \in Slots : Len(wire'[d]) <= WireBuffer
    BY <1>8, <2>1, <2>2 DEF ReadEvent, TypeOK
  <2> QED
    BY <1>0, <1>8, <2>3, <2>4 DEF ReadEvent, TypeOK, source, hubSide, pages
<1>9. ASSUME CloseLink, link # NoSlot
      PROVE  /\ link' \in Slots \cup {NoSlot} /\ ended' \subseteq Slots
             /\ wire' \in [Slots -> Seq(Events)] /\ \A d \in Slots : Len(wire'[d]) <= WireBuffer
  <2>1. <<>> \in Seq(Events) /\ Len(<<>>) <= WireBuffer
    BY <1>1
  <2> QED
    BY <1>9, <2>1 DEF CloseLink, TypeOK
<1>10. CASE ReadFails
  BY <1>0, <1>9, <1>10 DEF ReadFails, TypeOK, source, hubSide, pages
<1>11. CASE TakeEvent
  <2>1. feed \in Seq(Events) /\ feed # <<>> /\ Len(feed) <= FeedBuffer
    BY <1>11 DEF TakeEvent, TypeOK
  <2>2. /\ Tail(feed) \in Seq(Events) /\ Len(Tail(feed)) <= FeedBuffer /\ Head(feed) \in Events
    <3>1. /\ Tail(feed) \in Seq(Events) /\ Len(Tail(feed)) = Len(feed) - 1
          /\ Head(feed) \in ToSet(feed) /\ Len(feed) \in Nat /\ ToSet(feed) \subseteq Events
      BY <2>1, TailElements, ToSetIs
    <3> QED
      BY <1>1, <2>1, <3>1
  <2>3. taken' \in Seq(Events) /\ Len(taken') <= 1
    BY <1>11, <2>2 DEF TakeEvent
  <2>4. sos' \in Seq(Alerts) /\ Len(sos') <= MaxAlerts
    BY <1>11, AddKeeps DEF TakeEvent, TypeOK
  <2> QED
    BY <1>0, <1>11, <2>2, <2>3, <2>4 DEF TakeEvent, TypeOK, source, hubSide, net, pages
<1>12. CASE FanOut
  <2>1. Head(taken) \in Events
    BY <1>12 DEF FanOut, TypeOK
  <2>2. \A b \in Tabs : /\ Offer(pane[b], Head(taken), TabBuffer) \in Seq(Events)
                        /\ Len(Offer(pane[b], Head(taken), TabBuffer)) <= TabBuffer
    BY <1>1, <2>1, OfferElements DEF TypeOK
  <2>3. pane' = [b \in Tabs |-> IF b \in browsers THEN Offer(pane[b], Head(taken), TabBuffer) ELSE pane[b]]
    BY <1>12 DEF FanOut
  <2>4. pane' \in [Tabs -> Seq(Events)] /\ \A b \in Tabs : Len(pane'[b]) <= TabBuffer
    BY <2>2, <2>3 DEF TypeOK
  <2>5. dropped' \in [Tabs -> SUBSET Events] /\ fanned' \subseteq Events
    BY <1>12, <2>1 DEF FanOut, TypeOK
  <2>6. taken' \in Seq(Events) /\ Len(taken') <= 1
    BY <1>12 DEF FanOut
  <2> QED
    BY <1>0, <1>12, <2>4, <2>5, <2>6 DEF FanOut, TypeOK, source, hubSide, net
<1>13. ASSUME NEW b \in Tabs, NEW l \in Logins, OpenTab(b, l) PROVE TypeOK'
  <2>1. visits' \in 0 .. MaxVisits
    BY <1>1, <1>13 DEF OpenTab, TypeOK
  <2>2. tab' \in [Tabs -> {"closed", "upgraded", "registered", "open", "blank"}]
    BY <1>13 DEF OpenTab, TypeOK
  <2> QED
    BY <1>0, <1>13, <2>1, <2>2 DEF OpenTab, TypeOK, source, hubSide, net, monitorSide
<1>14. ASSUME NEW b \in Tabs, RegisterTab(b) PROVE TypeOK'
  BY <1>0, <1>14 DEF RegisterTab, TypeOK, source, hubSide, net, monitorSide
<1>15. ASSUME NEW b \in Tabs, Snapshot(b) PROVE TypeOK'
  <2>1. 1 .. committed \subseteq Events
    BY <1>1 DEF TypeOK, Events
  <2> QED
    BY <1>0, <1>15, <2>1 DEF Snapshot, OverviewSnapshot, TypeOK, source, hubSide, net, monitorSide
<1>16. ASSUME NEW b \in Tabs, WriteTab(b) PROVE TypeOK'
  <2>1. pane[b] \in Seq(Events) /\ pane[b] # <<>> /\ Len(pane[b]) <= TabBuffer
    BY <1>16 DEF WriteTab, TypeOK
  <2>2. /\ Tail(pane[b]) \in Seq(Events) /\ Len(Tail(pane[b])) <= TabBuffer /\ Head(pane[b]) \in Events
    <3>1. /\ Tail(pane[b]) \in Seq(Events) /\ Len(Tail(pane[b])) = Len(pane[b]) - 1
          /\ Head(pane[b]) \in ToSet(pane[b]) /\ Len(pane[b]) \in Nat /\ ToSet(pane[b]) \subseteq Events
      BY <2>1, TailElements, ToSetIs
    <3> QED
      BY <1>1, <2>1, <3>1
  <2>3. Append(shown[b], Head(pane[b])) \in Seq(Events)
    BY <2>2, AppendProperties DEF TypeOK
  <2>4. /\ pane' \in [Tabs -> Seq(Events)] /\ shown' \in [Tabs -> Seq(Events)]
        /\ \A d \in Tabs : Len(pane'[d]) <= TabBuffer
    BY <1>16, <2>2, <2>3 DEF WriteTab, TypeOK
  <2> QED
    BY <1>0, <1>16, <2>4 DEF WriteTab, TypeOK, source, hubSide, net, monitorSide
<1>17. ASSUME NEW b \in Tabs, RemoveTab(b) PROVE TypeOK'
  <2>1. <<>> \in Seq(Events) /\ Len(<<>>) <= TabBuffer
    BY <1>1
  <2> QED
    BY <1>0, <1>17, <2>1 DEF RemoveTab, TypeOK, source, hubSide, net, monitorSide
<1>18. CASE RestartHub
  <2>1. <<>> \in Seq(Events) /\ Len(<<>>) <= HubBuffer /\ Len(<<>>) <= WireBuffer
    BY <1>1
  <2> QED
    BY <1>0, <1>1, <1>18, <2>1 DEF RestartHub, TypeOK, monitorSide, pages
<1>19. CASE RestartMonitor
  <2>1. /\ <<>> \in Seq(Events) /\ <<>> \in Seq(Alerts)
        /\ Len(<<>>) <= TabBuffer /\ Len(<<>>) <= FeedBuffer /\ Len(<<>>) <= MaxAlerts /\ Len(<<>>) <= 1
    BY <1>1
  <2>2. /\ link' \in Slots \cup {NoSlot} /\ ended' \subseteq Slots
        /\ wire' \in [Slots -> Seq(Events)] /\ \A d \in Slots : Len(wire'[d]) <= WireBuffer
    BY <1>9, <1>19 DEF RestartMonitor, TypeOK, net
  <2>3. /\ feed' \in Seq(Events) /\ Len(feed') <= FeedBuffer
        /\ taken' \in Seq(Events) /\ Len(taken') <= 1
        /\ sos' \in Seq(Alerts) /\ Len(sos') <= MaxAlerts
        /\ restarts' \in 0 .. MaxRestarts
    BY <1>1, <1>19, <2>1 DEF RestartMonitor, TypeOK
  <2>4. /\ tab' \in [Tabs -> {"closed", "upgraded", "registered", "open", "blank"}] /\ browsers' \subseteq Tabs
        /\ pane' \in [Tabs -> Seq(Events)] /\ shown' \in [Tabs -> Seq(Events)]
        /\ \A b \in Tabs : Len(pane'[b]) <= TabBuffer
        /\ snapshot' \in [Tabs -> SUBSET Events] /\ dropped' \in [Tabs -> SUBSET Events]
    BY <1>19, <2>1 DEF RestartMonitor
  <2> QED
    BY <1>0, <1>19, <2>2, <2>3, <2>4 DEF RestartMonitor, TypeOK, source, hubSide
<1>20. CASE UNCHANGED streamVars
  BY <1>0, <1>20 DEF TypeOK, streamVars, source, hubSide, net, monitorSide, pages
<1> QED
  BY <1>2, <1>3, <1>4, <1>5, <1>6, <1>7, <1>8, <1>10, <1>11, <1>12, <1>13, <1>14, <1>15, <1>16, <1>17,
     <1>18, <1>19, <1>20 DEF Next, HubStep, Handle, Connect, MonitorStep, ServeTab, Authenticate, Logout, vars

\* Every variable of the hub's events and the monitor keeps its type: no channel grows
\* beyond its capacity, however often the two reconnect and restart.
THEOREM TypeCorrect == Spec => []TypeOK
<1>1. Init => TypeOK
  <2> SUFFICES ASSUME Init PROVE TypeOK
    OBVIOUS
  <2>1. SessionsTypeOK
    BY InitInvariant DEF IInv
  <2> QED
    BY <2>1, EventAssumption DEF Init, TypeOK, Events
<1> QED
  BY <1>1, TypeStep, Invariance, PTL DEF Spec

---------------------------------------------------------------------------
\* The order of events

\* Events are published once, after they were committed, and nothing is on its way or
\* has arrived that was not published.
Sourced ==
    /\ Distinct(published)
    /\ ToSet(published) \subseteq 1 .. committed
    /\ pending \cap ToSet(published) = {}
    /\ \A c \in Slots : ToSet(queue[c]) \cup ToSet(wire[c]) \subseteq ToSet(published)
    /\ ToSet(feed) \cup ToSet(taken) \cup ToSet(sos) \cup fanned \subseteq ToSet(published)
    /\ \A b \in Tabs : ToSet(shown[b]) \cup ToSet(pane[b]) \subseteq ToSet(published)

\* What has passed the monitor's channel.
Passed ==
    {x \in Events : \/ x \in ToSet(taken) \cup ToSet(sos)
                    \/ \E b \in Tabs : x \in ToSet(shown[b]) \cup ToSet(pane[b])}

\* Every channel is in the order of Publish.
ChannelsOrdered ==
    /\ \A c \in Slots : Sorted(published, queue[c]) /\ Sorted(published, wire[c])
    /\ Sorted(published, feed)
    /\ SortedDown(published, sos)
    /\ \A b \in Tabs : Sorted(published, shown[b]) /\ Sorted(published, pane[b])

\* Along the way from the hub to the pages, what is further on was published earlier.
StagesOrdered ==
    /\ \A b \in Tabs :
        /\ Ahead(published, ToSet(shown[b]), ToSet(pane[b]))
        /\ Ahead(published, ToSet(shown[b]) \cup ToSet(pane[b]), ToSet(taken))
    /\ Ahead(published, Passed, ToSet(feed))
    /\ \A c \in Slots : c = link =>
        /\ Ahead(published, Passed \cup ToSet(feed), ToSet(wire[c]))
        /\ Ahead(published, Passed \cup ToSet(feed) \cup ToSet(wire[c]), ToSet(queue[c]))

\* The inductive invariant of the stream.
StreamInv == TypeOK /\ SlotsHonest /\ Sourced /\ ChannelsOrdered /\ StagesOrdered

\* The connections stay honest.
LEMMA SlotsStep ==
  ASSUME TypeOK, SlotsHonest, [Next]_vars
  PROVE  SlotsHonest'
<1> USE DEF SlotsHonest
<1>0. /\ handler \in [Slots -> {"none", "upgraded", "serving"}]
      /\ queue \in [Slots -> Seq(Events)] /\ wire \in [Slots -> Seq(Events)]
      /\ link \in Slots \cup {NoSlot} /\ NoSlot \notin Slots
  BY EventAssumption DEF TypeOK
<1>1. CASE UNCHANGED <<hubSide, net, link>>
  BY <1>1 DEF hubSide, net
<1>2. ASSUME NEW i \in Events, Publish(i) PROVE SlotsHonest'
  BY <1>0, <1>2 DEF Publish, net, monitorSide
<1>3. ASSUME NEW c \in Slots, AddClient(c) PROVE SlotsHonest'
  BY <1>0, <1>3 DEF AddClient, net, monitorSide
<1>4. ASSUME NEW c \in Slots, WriteMessage(c) PROVE SlotsHonest'
  <2>1. c = link /\ handler[c] # "none"
    BY <1>4 DEF WriteMessage
  <2> QED
    BY <1>0, <1>4, <2>1 DEF WriteMessage, monitorSide
<1>5. ASSUME NEW c \in Slots, RemoveClient(c) PROVE SlotsHonest'
  BY <1>0, <1>5 DEF RemoveClient, HangUp, monitorSide
<1>6. ASSUME NEW c \in Slots, Dial(c) PROVE SlotsHonest'
  BY <1>0, <1>6 DEF Dial, Idle, net
<1>7. CASE ReadEvent
  BY <1>0, <1>7 DEF ReadEvent, hubSide
<1>8. CASE CloseLink /\ link # NoSlot /\ UNCHANGED hubSide
  BY <1>0, <1>8 DEF CloseLink, hubSide
<1>9. CASE RestartHub
  BY <1>0, <1>9 DEF RestartHub, monitorSide
<1>10. CASE ReadFails \/ RestartMonitor
  BY <1>1, <1>8, <1>10 DEF ReadFails, RestartMonitor
<1>11. CASE \/ Commit \/ TakeEvent \/ FanOut \/ Authenticate \/ Logout \/ UNCHANGED vars
            \/ \E b \in Tabs, l \in Logins : OpenTab(b, l)
            \/ \E b \in Tabs : ServeTab(b) \/ RemoveTab(b)
  BY <1>1, <1>11 DEF Commit, TakeEvent, FanOut, Authenticate, Logout, OpenTab, ServeTab, RegisterTab, Snapshot,
     WriteTab, RemoveTab, vars, streamVars, monitorSide
<1> QED
  BY <1>2, <1>3, <1>4, <1>5, <1>6, <1>7, <1>9, <1>10, <1>11
     DEF Next, HubStep, Handle, Connect, MonitorStep

\* The order of what was published does not change when an event is added, and the
\* new event comes last.
LEMMA PublishKeepsOrder ==
  ASSUME NEW S, NEW p \in Seq(S), Distinct(p), NEW i \in S, i \notin ToSet(p)
  PROVE  LET q == Append(p, i) IN
         /\ \A A, B \in SUBSET ToSet(p) : Ahead(p, A, B) => Ahead(q, A, B) /\ Ahead(q, A, B \cup {i})
         /\ \A A \in SUBSET ToSet(p) : Ahead(q, A, {i})
         /\ \A s \in Seq(S) : ToSet(s) \subseteq ToSet(p) =>
               /\ Sorted(p, s) => Sorted(q, s)
               /\ SortedDown(p, s) => SortedDown(q, s)
<1>1. PICK q : q = Append(p, i)
  OBVIOUS
<1>2. /\ \A x \in ToSet(p) : At(q, x) = At(p, x) /\ At(p, x) \in 1 .. Len(p)
      /\ At(q, i) = Len(p) + 1 /\ Len(p) \in Nat
  BY <1>1, PublishPlaces, LenProperties
<1>3. ASSUME NEW A \in SUBSET ToSet(p) PROVE Ahead(q, A, {i})
  BY <1>2 DEF Ahead
<1>4. ASSUME NEW A \in SUBSET ToSet(p), NEW B \in SUBSET ToSet(p), Ahead(p, A, B)
      PROVE  Ahead(q, A, B) /\ Ahead(q, A, B \cup {i})
  <2>1. Ahead(q, A, B)
    BY <1>2, <1>4 DEF Ahead
  <2> QED
    BY <1>3, <2>1 DEF Ahead
<1>5. ASSUME NEW s \in Seq(S), ToSet(s) \subseteq ToSet(p)
      PROVE  /\ Sorted(p, s) => Sorted(q, s)
             /\ SortedDown(p, s) => SortedDown(q, s)
  <2>1. \A j \in 1 .. Len(s) : s[j] \in ToSet(p)
    BY <1>5, ToSetIs
  <2>2. \A j \in 1 .. Len(s) : At(q, s[j]) = At(p, s[j])
    BY <1>2, <2>1
  <2>3. Sorted(p, s) => Sorted(q, s)
    BY <2>2 DEF Sorted
  <2>4. SortedDown(p, s) => SortedDown(q, s)
    BY <2>2 DEF SortedDown
  <2> QED
    BY <2>3, <2>4
<1> QED
  BY <1>1, <1>3, <1>4, <1>5

\* A part of what is ahead is ahead of a part of the rest.
LEMMA AheadOfPart ==
  ASSUME NEW p, NEW A, NEW B, NEW C, NEW D, Ahead(p, A, B), C \subseteq A, D \subseteq B
  PROVE  Ahead(p, C, D)
  BY DEF Ahead

\* Publish keeps the order.
LEMMA PublishInOrder ==
  ASSUME StreamInv, NEW i \in Events, Publish(i)
  PROVE  Sourced' /\ ChannelsOrdered' /\ StagesOrdered'
<1> DEFINE p == published
           q == published'
<1>1. /\ p \in Seq(Events) /\ Distinct(p) /\ i \in 1 .. committed /\ i \notin ToSet(p)
      /\ q = Append(p, i)
  BY DEF StreamInv, TypeOK, Sourced, Publish
<1>2. ToSet(q) = ToSet(p) \cup {i} /\ Distinct(q)
  BY <1>1, AppendElements, PublishPlaces
<1>3. /\ \A A, B \in SUBSET ToSet(p) : Ahead(p, A, B) => Ahead(q, A, B) /\ Ahead(q, A, B \cup {i})
      /\ \A A \in SUBSET ToSet(p) : Ahead(q, A, {i})
      /\ \A s \in Seq(Events) : ToSet(s) \subseteq ToSet(p) =>
            /\ Sorted(p, s) => Sorted(q, s)
            /\ SortedDown(p, s) => SortedDown(q, s)
  BY <1>1, PublishKeepsOrder
<1>4. UNCHANGED <<committed, wire, link, feed, taken, sos, fanned, shown, pane>> /\ pending' = pending \ {i}
  BY DEF Publish, net, monitorSide, pages
<1>5. ASSUME NEW c \in Slots
      PROVE  /\ ToSet(queue'[c]) \subseteq ToSet(queue[c]) \cup {i}
             /\ Sorted(q, queue'[c])
  <2>1. queue[c] \in Seq(Events) /\ HubBuffer \in Nat
    BY EventAssumption DEF StreamInv, TypeOK
  <2>2. ToSet(queue[c]) \subseteq ToSet(p) /\ Sorted(p, queue[c])
    BY DEF StreamInv, Sourced, ChannelsOrdered
  <2>3. Sorted(q, queue[c]) /\ Ahead(q, ToSet(queue[c]), {i})
    BY <1>3, <2>1, <2>2
  <2>4. Sorted(q, Append(queue[c], i)) /\ ToSet(Append(queue[c], i)) = ToSet(queue[c]) \cup {i}
    BY <2>1, <2>3, AppendInOrder, AppendElements
  <2>5. queue'[c] \in {queue[c], Append(queue[c], i)}
    BY DEF Publish, Offer
  <2> QED
    BY <2>3, <2>4, <2>5
<1> HIDE DEF p, q
<1>6. Sourced'
  <2>1. \A c \in Slots : ToSet(queue'[c]) \cup ToSet(wire'[c]) \subseteq ToSet(q)
    BY <1>2, <1>4, <1>5 DEF StreamInv, Sourced, p
  <2>2. ToSet(q) \subseteq 1 .. committed' /\ pending' \cap ToSet(q) = {}
    BY <1>1, <1>2, <1>4 DEF StreamInv, Sourced, p
  <2>3. ToSet(feed') \cup ToSet(taken') \cup ToSet(sos') \cup fanned' \subseteq ToSet(q)
    BY <1>2, <1>4 DEF StreamInv, Sourced, p
  <2>4. \A b \in Tabs : ToSet(shown'[b]) \cup ToSet(pane'[b]) \subseteq ToSet(q)
    BY <1>2, <1>4 DEF StreamInv, Sourced, p
  <2> QED
    BY <1>2, <2>1, <2>2, <2>3, <2>4 DEF Sourced, q
<1>7. /\ \A c \in Slots : wire[c] \in Seq(Events) /\ ToSet(wire[c]) \subseteq ToSet(p) /\ Sorted(p, wire[c])
      /\ feed \in Seq(Events) /\ ToSet(feed) \subseteq ToSet(p) /\ Sorted(p, feed)
      /\ sos \in Seq(Events) /\ ToSet(sos) \subseteq ToSet(p) /\ SortedDown(p, sos)
      /\ \A b \in Tabs :
            /\ shown[b] \in Seq(Events) /\ ToSet(shown[b]) \subseteq ToSet(p) /\ Sorted(p, shown[b])
            /\ pane[b] \in Seq(Events) /\ ToSet(pane[b]) \subseteq ToSet(p) /\ Sorted(p, pane[b])
  <2>1. sos \in Seq(Alerts) /\ Seq(Alerts) \subseteq Seq(Events)
    BY EventAssumption DEF StreamInv, TypeOK
  <2> QED
    BY <2>1 DEF StreamInv, TypeOK, Sourced, ChannelsOrdered, p
<1>8. ChannelsOrdered'
  BY <1>3, <1>4, <1>5, <1>7 DEF ChannelsOrdered, q
<1>9. Passed' = Passed /\ Passed \in SUBSET ToSet(p)
  BY <1>4 DEF StreamInv, Sourced, Passed, p
<1>10. StagesOrdered'
  <2>1. /\ \A b \in Tabs :
            /\ Ahead(p, ToSet(shown[b]), ToSet(pane[b]))
            /\ Ahead(p, ToSet(shown[b]) \cup ToSet(pane[b]), ToSet(taken))
        /\ Ahead(p, Passed, ToSet(feed))
        /\ \A c \in Slots : c = link =>
            /\ Ahead(p, Passed \cup ToSet(feed), ToSet(wire[c]))
            /\ Ahead(p, Passed \cup ToSet(feed) \cup ToSet(wire[c]), ToSet(queue[c]))
    BY DEF StreamInv, StagesOrdered, p
  <2>2. ToSet(taken) \subseteq ToSet(p) /\ \A c \in Slots : ToSet(queue[c]) \subseteq ToSet(p)
    BY DEF StreamInv, Sourced, p
  <2>3. \A b \in Tabs :
            /\ Ahead(q, ToSet(shown[b]), ToSet(pane[b]))
            /\ Ahead(q, ToSet(shown[b]) \cup ToSet(pane[b]), ToSet(taken))
    BY <1>3, <1>7, <2>1, <2>2
  <2>4. Ahead(q, Passed, ToSet(feed))
    BY <1>3, <1>7, <1>9, <2>1
  <2>5. ASSUME NEW c \in Slots, c = link
        PROVE  /\ Ahead(q, Passed \cup ToSet(feed), ToSet(wire[c]))
               /\ Ahead(q, Passed \cup ToSet(feed) \cup ToSet(wire[c]), ToSet(queue'[c]))
    <3>0. PICK A, B : A = Passed \cup ToSet(feed) /\ B = Passed \cup ToSet(feed) \cup ToSet(wire[c])
      OBVIOUS
    <3>1. /\ A = Passed \cup ToSet(feed) /\ B = Passed \cup ToSet(feed) \cup ToSet(wire[c])
          /\ A \in SUBSET ToSet(p) /\ B \in SUBSET ToSet(p)
      BY <1>7, <1>9, <3>0
    <3>2. Ahead(q, A, ToSet(wire[c])) /\ Ahead(q, B, ToSet(queue[c]) \cup {i})
      BY <1>3, <1>7, <2>1, <2>2, <2>5, <3>1
    <3>3. Ahead(q, B, ToSet(queue'[c]))
      BY <1>5, <3>2, AheadOfPart
    <3> QED
      BY <3>1, <3>2, <3>3
  <2> QED
    BY <1>4, <1>9, <2>3, <2>4, <2>5 DEF StagesOrdered, q
<1> QED
  BY <1>6, <1>8, <1>10

\* The hub writes the oldest event of a channel.
LEMMA WriteInOrder ==
  ASSUME StreamInv, NEW c \in Slots, WriteMessage(c)
  PROVE  Sourced' /\ ChannelsOrdered' /\ StagesOrdered'
<1> DEFINE p == published
           x == Head(queue[c])
<1>1. c = link /\ queue[c] # <<>> /\ queue[c] \in Seq(Events) /\ wire[c] \in Seq(Events)
  BY DEF StreamInv, TypeOK, SlotsHonest, WriteMessage
<1>2. /\ UNCHANGED <<committed, pending, published, link, feed, taken, sos, fanned, shown, pane>>
      /\ queue'[c] = Tail(queue[c]) /\ wire'[c] = Append(wire[c], x)
      /\ \A d \in Slots : d # c => queue'[d] = queue[d] /\ wire'[d] = wire[d]
  BY DEF StreamInv, TypeOK, WriteMessage, source, monitorSide, pages
<1>3. /\ ToSet(queue[c]) = ToSet(queue'[c]) \cup {x} /\ x \in Events
      /\ ToSet(wire'[c]) = ToSet(wire[c]) \cup {x}
  <2>1. /\ x \in ToSet(queue[c]) /\ ToSet(queue[c]) \subseteq Events
        /\ ToSet(queue[c]) = ToSet(Tail(queue[c])) \cup {x}
    BY <1>1, TailElements, ToSetIs
  <2>2. x \in Events
    BY <2>1
  <2> HIDE DEF x
  <2>3. ToSet(Append(wire[c], x)) = ToSet(wire[c]) \cup {x}
    BY <1>1, <2>2, AppendElements
  <2> QED
    BY <1>2, <2>1, <2>2, <2>3
<1>4. Sorted(p, queue'[c]) /\ Ahead(p, {x}, ToSet(queue'[c]))
  <2>1. Sorted(p, queue[c])
    BY DEF StreamInv, ChannelsOrdered
  <2> QED
    BY <1>1, <1>2, <2>1, TakeKeeps
<1>5. /\ Ahead(p, Passed \cup ToSet(feed), ToSet(wire[c]))
      /\ Ahead(p, Passed \cup ToSet(feed) \cup ToSet(wire[c]), ToSet(queue[c]))
  BY <1>1 DEF StreamInv, StagesOrdered
<1> HIDE DEF p, x
<1>6. Sorted(p, wire'[c])
  <2>1. Sorted(p, wire[c])
    BY DEF StreamInv, ChannelsOrdered, p
  <2>2. Ahead(p, ToSet(wire[c]), {x})
    BY <1>3, <1>5, AheadOfPart
  <2> QED
    BY <1>1, <1>2, <1>3, <2>1, <2>2, AppendInOrder
<1>7. Sourced'
  BY <1>2, <1>3 DEF StreamInv, Sourced
<1>8. ChannelsOrdered'
  BY <1>2, <1>4, <1>6 DEF StreamInv, ChannelsOrdered, p
<1>9. Passed' = Passed
  BY <1>2 DEF Passed
<1>10. /\ Ahead(p, Passed \cup ToSet(feed), ToSet(wire'[c]))
       /\ Ahead(p, Passed \cup ToSet(feed) \cup ToSet(wire'[c]), ToSet(queue'[c]))
  BY <1>3, <1>4, <1>5 DEF Ahead
<1>11. StagesOrdered'
  BY <1>1, <1>2, <1>9, <1>10 DEF StreamInv, StagesOrdered, p
<1> QED
  BY <1>7, <1>8, <1>11

\* The monitor's client reads the oldest event of the connection and passes it on.
LEMMA ReadInOrder ==
  ASSUME StreamInv, ReadEvent
  PROVE  Sourced' /\ ChannelsOrdered' /\ StagesOrdered'
<1> DEFINE p == published
           x == Head(wire[link])
<1>1. /\ link \in Slots /\ wire[link] # <<>> /\ wire[link] \in Seq(Events) /\ feed \in Seq(Events)
      /\ FeedBuffer \in Nat
  BY EventAssumption DEF StreamInv, TypeOK, ReadEvent
<1>2. /\ UNCHANGED <<committed, pending, published, queue, link, taken, sos, fanned, shown, pane>>
      /\ wire'[link] = Tail(wire[link])
      /\ \A d \in Slots : d # link => wire'[d] = wire[d]
      /\ feed' \in {feed, Append(feed, x)}
  BY <1>1 DEF StreamInv, TypeOK, ReadEvent, Offer, source, hubSide, pages
<1>3. /\ ToSet(wire[link]) = ToSet(wire'[link]) \cup {x} /\ x \in Events
      /\ ToSet(feed') \subseteq ToSet(feed) \cup {x}
  <2>1. /\ x \in ToSet(wire[link]) /\ ToSet(wire[link]) \subseteq Events
        /\ ToSet(wire[link]) = ToSet(Tail(wire[link])) \cup {x}
    BY <1>1, TailElements, ToSetIs
  <2>2. x \in Events
    BY <2>1
  <2> HIDE DEF x
  <2>3. ToSet(Append(feed, x)) = ToSet(feed) \cup {x}
    BY <1>1, <2>2, AppendElements
  <2> QED
    BY <1>2, <2>1, <2>2, <2>3
<1>4. Sorted(p, wire'[link]) /\ Ahead(p, {x}, ToSet(wire'[link]))
  <2>1. Sorted(p, wire[link])
    BY <1>1 DEF StreamInv, ChannelsOrdered
  <2> QED
    BY <1>1, <1>2, <2>1, TakeKeeps
<1>5. /\ Ahead(p, Passed, ToSet(feed))
      /\ Ahead(p, Passed \cup ToSet(feed), ToSet(wire[link]))
      /\ Ahead(p, Passed \cup ToSet(feed) \cup ToSet(wire[link]), ToSet(queue[link]))
  BY <1>1 DEF StreamInv, StagesOrdered
<1> HIDE DEF p, x
<1>6. Sorted(p, feed')
  <2>1. Sorted(p, feed)
    BY DEF StreamInv, ChannelsOrdered, p
  <2>2. Ahead(p, ToSet(feed), {x})
    BY <1>3, <1>5, AheadOfPart
  <2>3. Sorted(p, Append(feed, x))
    BY <1>1, <1>3, <2>1, <2>2, AppendInOrder
  <2> QED
    BY <1>2, <2>1, <2>3
<1>7. Sourced'
  <2>1. x \in ToSet(published)
    BY <1>1, <1>3 DEF StreamInv, Sourced
  <2>2. \A d \in Slots : ToSet(wire'[d]) \subseteq ToSet(published)
    BY <1>2, <1>3 DEF StreamInv, Sourced
  <2> QED
    BY <1>2, <1>3, <2>1, <2>2 DEF StreamInv, Sourced
<1>8. ChannelsOrdered'
  <2>1. \A d \in Slots : Sorted(p, wire'[d])
    BY <1>2, <1>4 DEF StreamInv, ChannelsOrdered, p
  <2> QED
    BY <1>2, <1>6, <2>1 DEF StreamInv, ChannelsOrdered, p
<1>9. Passed' = Passed
  BY <1>2 DEF Passed
<1>10. /\ Ahead(p, Passed, ToSet(feed'))
       /\ Ahead(p, Passed \cup ToSet(feed'), ToSet(wire'[link]))
       /\ Ahead(p, Passed \cup ToSet(feed') \cup ToSet(wire'[link]), ToSet(queue[link]))
  BY <1>3, <1>4, <1>5 DEF Ahead
<1>11. StagesOrdered'
  BY <1>2, <1>9, <1>10 DEF StreamInv, StagesOrdered, p
<1> QED
  BY <1>7, <1>8, <1>11

\* The monitor takes the oldest event of its channel, and a new alert goes to the front
\* of the SOS feed.
LEMMA TakeInOrder ==
  ASSUME StreamInv, TakeEvent
  PROVE  Sourced' /\ ChannelsOrdered' /\ StagesOrdered'
<1> DEFINE p == published
           x == Head(feed)
<1>1. feed # <<>> /\ feed \in Seq(Events) /\ sos \in Seq(Alerts) /\ taken = <<>>
  BY DEF StreamInv, TypeOK, TakeEvent
<1>2. /\ UNCHANGED <<committed, pending, published, queue, wire, link, fanned, shown, pane>>
      /\ feed' = Tail(feed) /\ taken' = <<x>>
      /\ sos' = IF x \in Alerts THEN Add(x) ELSE sos
  BY DEF TakeEvent, source, hubSide, net, pages
<1>3. /\ ToSet(feed) = ToSet(feed') \cup {x} /\ x \in Events
      /\ ToSet(taken) = {} /\ ToSet(taken') = {x}
  <2>1. /\ x \in ToSet(feed) /\ ToSet(feed) \subseteq Events
        /\ ToSet(feed) = ToSet(Tail(feed)) \cup {x}
    BY <1>1, TailElements, ToSetIs
  <2>2. ToSet(<<>>) = {} /\ ToSet(<<x>>) = {x}
    BY DEF ToSet
  <2> QED
    BY <1>1, <1>2, <2>1, <2>2
<1>4. Sorted(p, feed') /\ Ahead(p, {x}, ToSet(feed'))
  <2>1. Sorted(p, feed)
    BY DEF StreamInv, ChannelsOrdered
  <2> QED
    BY <1>1, <1>2, <2>1, TakeKeeps
<1>5. /\ Ahead(p, Passed, ToSet(feed))
      /\ \A c \in Slots : c = link =>
            /\ Ahead(p, Passed \cup ToSet(feed), ToSet(wire[c]))
            /\ Ahead(p, Passed \cup ToSet(feed) \cup ToSet(wire[c]), ToSet(queue[c]))
  BY DEF StreamInv, StagesOrdered
<1> HIDE DEF p, x
<1>6. ToSet(sos) \subseteq Passed
  <2>1. ToSet(sos) \subseteq Events
    BY <1>1, EventAssumption, ToSetIs
  <2> QED
    BY <2>1 DEF Passed
<1>7. SortedDown(p, sos') /\ ToSet(sos') \subseteq ToSet(sos) \cup {x}
  <2>1. SortedDown(p, sos)
    BY DEF StreamInv, ChannelsOrdered, p
  <2>2. Ahead(p, ToSet(sos), {x})
    BY <1>3, <1>5, <1>6, AheadOfPart
  <2>3. CASE x \in Alerts
    BY <1>1, <1>2, <2>1, <2>2, <2>3, AddKeeps
  <2> QED
    BY <1>2, <2>1, <2>3
<1>8. Sourced'
  <2>1. x \in ToSet(published)
    BY <1>3 DEF StreamInv, Sourced
  <2> QED
    BY <1>2, <1>3, <1>7, <2>1 DEF StreamInv, Sourced
<1>9. ChannelsOrdered'
  BY <1>2, <1>4, <1>7 DEF StreamInv, ChannelsOrdered, p
<1>10. Passed' \subseteq Passed \cup {x}
  BY <1>2, <1>3, <1>7 DEF Passed
<1>11. \A b \in Tabs : Ahead(p, ToSet(shown[b]) \cup ToSet(pane[b]), {x})
  <2> SUFFICES ASSUME NEW b \in Tabs PROVE Ahead(p, ToSet(shown[b]) \cup ToSet(pane[b]), {x})
    OBVIOUS
  <2>1. ToSet(shown[b]) \cup ToSet(pane[b]) \subseteq Events
    BY ToSetIs DEF StreamInv, TypeOK
  <2>2. ToSet(shown[b]) \cup ToSet(pane[b]) \subseteq Passed
    BY <2>1 DEF Passed
  <2> QED
    BY <1>3, <1>5, <2>2, AheadOfPart
<1>12. Ahead(p, Passed', ToSet(feed'))
  <2>1. Ahead(p, Passed \cup {x}, ToSet(feed'))
    BY <1>3, <1>4, <1>5 DEF Ahead
  <2> QED
    BY <1>10, <2>1, AheadOfPart
<1>13. ASSUME NEW c \in Slots, c = link
       PROVE  /\ Ahead(p, Passed' \cup ToSet(feed'), ToSet(wire[c]))
              /\ Ahead(p, Passed' \cup ToSet(feed') \cup ToSet(wire[c]), ToSet(queue[c]))
  <2>1. Passed' \cup ToSet(feed') \subseteq Passed \cup ToSet(feed)
    BY <1>3, <1>10
  <2> QED
    BY <1>5, <1>13, <2>1 DEF Ahead
<1>14. StagesOrdered'
  <2>1. \A b \in Tabs : Ahead(p, ToSet(shown[b]), ToSet(pane[b]))
    BY DEF StreamInv, StagesOrdered, p
  <2> QED
    BY <1>2, <1>3, <1>11, <1>12, <1>13, <2>1 DEF StagesOrdered, p
<1> QED
  BY <1>8, <1>9, <1>14

\* The event that the monitor has taken goes to the end of every page's channel.
LEMMA FanOutInOrder ==
  ASSUME StreamInv, FanOut
  PROVE  Sourced' /\ ChannelsOrdered' /\ StagesOrdered'
<1> DEFINE p == published
           x == Head(taken)
<1>1. taken # <<>> /\ taken \in Seq(Events) /\ x \in ToSet(taken) /\ x \in Events /\ TabBuffer \in Nat
  <2>1. taken # <<>> /\ taken \in Seq(Events) /\ TabBuffer \in Nat
    BY EventAssumption DEF StreamInv, TypeOK, FanOut
  <2> QED
    BY <2>1, TailElements, ToSetIs
<1>2. /\ UNCHANGED <<committed, pending, published, queue, wire, link, feed, sos, shown>>
      /\ taken' = <<>> /\ fanned' = fanned \cup {x}
      /\ \A b \in Tabs : pane'[b] \in {pane[b], Append(pane[b], x)}
  BY DEF FanOut, Offer, source, hubSide, net
<1>3. /\ Ahead(p, Passed, ToSet(feed))
      /\ \A c \in Slots : c = link =>
            /\ Ahead(p, Passed \cup ToSet(feed), ToSet(wire[c]))
            /\ Ahead(p, Passed \cup ToSet(feed) \cup ToSet(wire[c]), ToSet(queue[c]))
      /\ \A b \in Tabs :
        /\ Ahead(p, ToSet(shown[b]), ToSet(pane[b]))
        /\ Ahead(p, ToSet(shown[b]) \cup ToSet(pane[b]), ToSet(taken))
  BY DEF StreamInv, StagesOrdered
<1> HIDE DEF p, x
<1>4. ASSUME NEW b \in Tabs
      PROVE  /\ ToSet(pane'[b]) \subseteq ToSet(pane[b]) \cup {x}
             /\ Sorted(p, pane'[b])
             /\ Ahead(p, ToSet(shown[b]), ToSet(pane'[b]))
  <2>1. pane[b] \in Seq(Events) /\ Sorted(p, pane[b])
    BY DEF StreamInv, TypeOK, ChannelsOrdered, p
  <2>2. Ahead(p, ToSet(pane[b]), {x}) /\ Ahead(p, ToSet(shown[b]), ToSet(pane[b]) \cup {x})
    BY <1>1, <1>3 DEF Ahead
  <2>3. ToSet(Append(pane[b], x)) = ToSet(pane[b]) \cup {x} /\ Sorted(p, Append(pane[b], x))
    BY <1>1, <2>1, <2>2, AppendElements, AppendInOrder
  <2>4. ToSet(pane'[b]) \subseteq ToSet(pane[b]) \cup {x} /\ Sorted(p, pane'[b])
    BY <1>2, <2>1, <2>3
  <2> QED
    BY <2>2, <2>4, AheadOfPart
<1>5. ToSet(taken') = {}
  BY <1>2 DEF ToSet
<1>6. Sourced'
  <2>1. x \in ToSet(published)
    BY <1>1 DEF StreamInv, Sourced
  <2>2. \A b \in Tabs : ToSet(shown'[b]) \cup ToSet(pane'[b]) \subseteq ToSet(published)
    BY <1>2, <1>4, <2>1 DEF StreamInv, Sourced
  <2> QED
    BY <1>2, <1>5, <2>1, <2>2 DEF StreamInv, Sourced
<1>7. ChannelsOrdered'
  BY <1>2, <1>4 DEF StreamInv, ChannelsOrdered, p
<1>8. Passed' \subseteq Passed
  BY <1>1, <1>2, <1>4, <1>5 DEF Passed
<1>9. StagesOrdered'
  <2>1. \A b \in Tabs : Ahead(p, ToSet(shown[b]) \cup ToSet(pane'[b]), {})
    BY DEF Ahead
  <2>2. Ahead(p, Passed', ToSet(feed))
    BY <1>3, <1>8, AheadOfPart
  <2>3. \A c \in Slots : c = link =>
            /\ Ahead(p, Passed' \cup ToSet(feed), ToSet(wire[c]))
            /\ Ahead(p, Passed' \cup ToSet(feed) \cup ToSet(wire[c]), ToSet(queue[c]))
    BY <1>3, <1>8 DEF Ahead
  <2> QED
    BY <1>2, <1>4, <1>5, <2>1, <2>2, <2>3 DEF StagesOrdered, p
<1> QED
  BY <1>6, <1>7, <1>9

\* A page gets the oldest event of its channel.
LEMMA WriteTabInOrder ==
  ASSUME StreamInv, NEW b \in Tabs, WriteTab(b)
  PROVE  Sourced' /\ ChannelsOrdered' /\ StagesOrdered'
<1> DEFINE p == published
           x == Head(pane[b])
<1>1. pane[b] # <<>> /\ pane[b] \in Seq(Events) /\ shown[b] \in Seq(Events)
  BY DEF StreamInv, TypeOK, WriteTab
<1>2. /\ UNCHANGED <<committed, pending, published, queue, wire, link, feed, taken, sos, fanned>>
      /\ pane'[b] = Tail(pane[b]) /\ shown'[b] = Append(shown[b], x)
      /\ \A d \in Tabs : d # b => pane'[d] = pane[d] /\ shown'[d] = shown[d]
  BY DEF StreamInv, TypeOK, WriteTab, source, hubSide, net, monitorSide
<1>3. /\ ToSet(pane[b]) = ToSet(pane'[b]) \cup {x} /\ x \in Events
      /\ ToSet(shown'[b]) = ToSet(shown[b]) \cup {x}
  <2>1. /\ x \in ToSet(pane[b]) /\ ToSet(pane[b]) \subseteq Events
        /\ ToSet(pane[b]) = ToSet(Tail(pane[b])) \cup {x}
    BY <1>1, TailElements, ToSetIs
  <2>2. x \in Events
    BY <2>1
  <2> HIDE DEF x
  <2>3. ToSet(Append(shown[b], x)) = ToSet(shown[b]) \cup {x}
    BY <1>1, <2>2, AppendElements
  <2> QED
    BY <1>2, <2>1, <2>2, <2>3
<1>4. Sorted(p, pane'[b]) /\ Ahead(p, {x}, ToSet(pane'[b]))
  <2>1. Sorted(p, pane[b])
    BY DEF StreamInv, ChannelsOrdered
  <2> QED
    BY <1>1, <1>2, <2>1, TakeKeeps
<1>5. Ahead(p, ToSet(shown[b]), ToSet(pane[b]))
  BY DEF StreamInv, StagesOrdered
<1> HIDE DEF p, x
<1>6. Sorted(p, shown'[b])
  <2>1. Sorted(p, shown[b])
    BY DEF StreamInv, ChannelsOrdered, p
  <2>2. Ahead(p, ToSet(shown[b]), {x})
    BY <1>3, <1>5, AheadOfPart
  <2> QED
    BY <1>1, <1>2, <1>3, <2>1, <2>2, AppendInOrder
<1>7. \A d \in Tabs : ToSet(shown'[d]) \cup ToSet(pane'[d]) = ToSet(shown[d]) \cup ToSet(pane[d])
  BY <1>2, <1>3
<1>8. Sourced'
  BY <1>2, <1>7 DEF StreamInv, Sourced
<1>9. ChannelsOrdered'
  BY <1>2, <1>4, <1>6 DEF StreamInv, ChannelsOrdered, p
<1>10. Passed' = Passed
  BY <1>2, <1>7 DEF Passed
<1>11. Ahead(p, ToSet(shown'[b]), ToSet(pane'[b]))
  BY <1>3, <1>4, <1>5 DEF Ahead
<1>12. StagesOrdered'
  BY <1>2, <1>7, <1>10, <1>11 DEF StreamInv, StagesOrdered, p
<1> QED
  BY <1>8, <1>9, <1>12

\* A step that publishes nothing and moves no event, but may lose what is in a channel
\* or begin with an empty connection.
Loses ==
    /\ UNCHANGED <<published, fanned>> /\ committed <= committed'
    /\ pending' \cap ToSet(published) = {}
    /\ \A c \in Slots : queue'[c] \in {queue[c], <<>>} /\ wire'[c] \in {wire[c], <<>>}
    /\ \A c \in Slots : c = link' => c = link \/ (queue'[c] = <<>> /\ wire'[c] = <<>>)
    /\ feed' \in {feed, <<>>} /\ taken' \in {taken, <<>>} /\ sos' \in {sos, <<>>}
    /\ \A b \in Tabs : shown'[b] \in {shown[b], <<>>} /\ pane'[b] \in {pane[b], <<>>}

\* Losing events does not disturb the order of the others.
LEMMA LossInOrder ==
  ASSUME StreamInv, TypeOK', Loses
  PROVE  Sourced' /\ ChannelsOrdered' /\ StagesOrdered'
<1> DEFINE p == published
<1>1. ToSet(<<>>) = {} /\ Sorted(p, <<>>) /\ SortedDown(p, <<>>)
  BY DEF ToSet, Sorted, SortedDown
<1>2. /\ \A c \in Slots : ToSet(queue'[c]) \subseteq ToSet(queue[c]) /\ ToSet(wire'[c]) \subseteq ToSet(wire[c])
      /\ ToSet(feed') \subseteq ToSet(feed) /\ ToSet(taken') \subseteq ToSet(taken)
      /\ ToSet(sos') \subseteq ToSet(sos)
      /\ \A b \in Tabs : ToSet(shown'[b]) \subseteq ToSet(shown[b]) /\ ToSet(pane'[b]) \subseteq ToSet(pane[b])
  BY <1>1 DEF Loses
<1> HIDE DEF p
<1>3. Sourced'
  <2>1. committed \in Nat /\ committed' \in Nat
    BY DEF StreamInv, TypeOK
  <2>2. 1 .. committed \subseteq 1 .. committed'
    BY <2>1 DEF Loses
  <2> QED
    BY <1>2, <2>2 DEF StreamInv, Sourced, Loses
<1>4. ChannelsOrdered'
  BY <1>1 DEF StreamInv, ChannelsOrdered, Loses, p
<1>5. Passed' \subseteq Passed
  BY <1>2 DEF Passed
<1>6. StagesOrdered'
  <2>1. /\ \A b \in Tabs :
            /\ Ahead(p, ToSet(shown[b]), ToSet(pane[b]))
            /\ Ahead(p, ToSet(shown[b]) \cup ToSet(pane[b]), ToSet(taken))
        /\ Ahead(p, Passed, ToSet(feed))
        /\ \A c \in Slots : c = link =>
            /\ Ahead(p, Passed \cup ToSet(feed), ToSet(wire[c]))
            /\ Ahead(p, Passed \cup ToSet(feed) \cup ToSet(wire[c]), ToSet(queue[c]))
    BY DEF StreamInv, StagesOrdered, p
  <2>2. \A b \in Tabs :
            /\ Ahead(p, ToSet(shown'[b]), ToSet(pane'[b]))
            /\ Ahead(p, ToSet(shown'[b]) \cup ToSet(pane'[b]), ToSet(taken'))
    BY <1>2, <2>1 DEF Ahead
  <2>3. Ahead(p, Passed', ToSet(feed'))
    BY <1>2, <1>5, <2>1, AheadOfPart
  <2>4. ASSUME NEW c \in Slots, c = link'
        PROVE  /\ Ahead(p, Passed' \cup ToSet(feed'), ToSet(wire'[c]))
               /\ Ahead(p, Passed' \cup ToSet(feed') \cup ToSet(wire'[c]), ToSet(queue'[c]))
    <3>1. CASE c = link
      <4>1. /\ Ahead(p, Passed \cup ToSet(feed), ToSet(wire[c]))
            /\ Ahead(p, Passed \cup ToSet(feed) \cup ToSet(wire[c]), ToSet(queue[c]))
        BY <2>1, <3>1
      <4>2. /\ Passed' \cup ToSet(feed') \subseteq Passed \cup ToSet(feed)
            /\ ToSet(wire'[c]) \subseteq ToSet(wire[c]) /\ ToSet(queue'[c]) \subseteq ToSet(queue[c])
        BY <1>2, <1>5
      <4> QED
        BY <4>1, <4>2 DEF Ahead
    <3>2. CASE c # link
      <4>1. ToSet(queue'[c]) = {} /\ ToSet(wire'[c]) = {}
        BY <1>1, <2>4, <3>2 DEF Loses
      <4> QED
        BY <4>1 DEF Ahead
    <3> QED
      BY <3>1, <3>2
  <2>5. published' = p
    BY DEF Loses, p
  <2> QED
    BY <2>2, <2>3, <2>4, <2>5 DEF StagesOrdered
<1> QED
  BY <1>3, <1>4, <1>6

\* The stream's invariant survives every step.
LEMMA StreamStep ==
  ASSUME StreamInv, IInv, [Next]_vars
  PROVE  StreamInv'
<1>1. TypeOK' /\ SlotsHonest'
  BY TypeStep, SlotsStep DEF StreamInv
<1>2. CASE Loses
  BY <1>1, <1>2, LossInOrder DEF StreamInv
<1>3. /\ committed \in Nat /\ pending \subseteq 1 .. committed
      /\ ToSet(published) \subseteq 1 .. committed /\ pending \cap ToSet(published) = {}
      /\ queue \in [Slots -> Seq(Events)] /\ wire \in [Slots -> Seq(Events)]
      /\ shown \in [Tabs -> Seq(Events)] /\ pane \in [Tabs -> Seq(Events)]
      /\ NoSlot \notin Slots
  <2>1. committed \in 0 .. MaxEvents /\ pending \subseteq 1 .. committed
        /\ queue \in [Slots -> Seq(Events)] /\ wire \in [Slots -> Seq(Events)]
        /\ shown \in [Tabs -> Seq(Events)] /\ pane \in [Tabs -> Seq(Events)]
    BY DEF StreamInv, TypeOK
  <2>2. /\ ToSet(published) \subseteq 1 .. committed /\ pending \cap ToSet(published) = {}
    BY DEF StreamInv, Sourced
  <2>3. NoSlot \notin Slots
    BY EventAssumption
  <2>4. committed \in Nat
    BY <2>1
  <2> QED
    BY <2>1, <2>2, <2>3, <2>4
<1>4. CASE Commit
  BY <1>2, <1>3, <1>4 DEF Commit, Loses, hubSide, net, monitorSide, pages
<1>5. CASE \/ UNCHANGED streamVars
           \/ \E b \in Tabs, l \in Logins : OpenTab(b, l)
           \/ \E b \in Tabs : RegisterTab(b) \/ Snapshot(b)
           \/ \E c \in Slots : AddClient(c)
  <2>1. UNCHANGED <<source, queue, net, monitorSide, pane, shown>>
    BY <1>5 DEF OpenTab, RegisterTab, Snapshot, AddClient, streamVars, source, hubSide, net, monitorSide, pages
  <2> QED
    BY <1>2, <1>3, <2>1 DEF Loses, source, net, monitorSide
<1>6. ASSUME NEW c \in Slots, RemoveClient(c) PROVE StreamInv'
  BY <1>2, <1>3, <1>6 DEF RemoveClient, HangUp, Loses, source, monitorSide, pages
<1>7. ASSUME NEW c \in Slots, Dial(c) PROVE StreamInv'
  <2>1. queue[c] = <<>> /\ wire[c] = <<>>
    BY <1>7 DEF StreamInv, SlotsHonest, Dial, Idle
  <2> QED
    BY <1>2, <1>3, <1>7, <2>1 DEF Dial, Loses, source, net, pages
<1>8. CASE ReadFails
  BY <1>2, <1>3, <1>8 DEF ReadFails, CloseLink, Loses, source, hubSide, pages
<1>9. ASSUME NEW b \in Tabs, RemoveTab(b) PROVE StreamInv'
  BY <1>2, <1>3, <1>9 DEF RemoveTab, Loses, source, hubSide, net, monitorSide
<1>10. CASE RestartHub
  BY <1>2, <1>3, <1>10 DEF RestartHub, Loses, monitorSide, pages
<1>11. CASE RestartMonitor
  <2>1. /\ \A c \in Slots : wire'[c] \in {wire[c], <<>>}
        /\ \A c \in Slots : c = link' => c = link
    BY <1>3, <1>11 DEF RestartMonitor, CloseLink, net
  <2> QED
    BY <1>2, <1>3, <1>11, <2>1 DEF RestartMonitor, Loses, source, hubSide
<1>12. ASSUME Sourced' /\ ChannelsOrdered' /\ StagesOrdered' PROVE StreamInv'
  BY <1>1, <1>12 DEF StreamInv
<1>13. CASE HubStep \/ \E c \in Slots : WriteMessage(c)
  BY <1>12, <1>13, PublishInOrder, WriteInOrder DEF HubStep
<1>14. CASE ReadEvent \/ MonitorStep \/ \E b \in Tabs : WriteTab(b)
  BY <1>12, <1>14, ReadInOrder, TakeInOrder, FanOutInOrder, WriteTabInOrder DEF MonitorStep
<1> QED
  BY <1>4, <1>5, <1>6, <1>7, <1>8, <1>9, <1>10, <1>11, <1>13, <1>14
     DEF Next, Handle, Connect, ServeTab, Authenticate, Logout, vars

LEMMA StreamInit == Init => StreamInv
<1> SUFFICES ASSUME Init PROVE StreamInv
  OBVIOUS
<1>1. TypeOK
  <2>1. SessionsTypeOK
    BY InitInvariant DEF IInv
  <2> QED
    BY <2>1, EventAssumption DEF Init, TypeOK, Events
<1>2. /\ published = <<>> /\ committed = 0 /\ pending = {} /\ fanned = {}
      /\ feed = <<>> /\ taken = <<>> /\ sos = <<>>
      /\ \A c \in Slots : queue[c] = <<>> /\ wire[c] = <<>> /\ handler[c] = "none" /\ c \notin clients
      /\ \A b \in Tabs : shown[b] = <<>> /\ pane[b] = <<>>
  BY DEF Init
<1>3. ToSet(<<>>) = {} /\ Distinct(<<>>) /\ Sorted(<<>>, <<>>) /\ SortedDown(<<>>, <<>>)
  BY DEF ToSet, Distinct, Sorted, SortedDown
<1>4. Passed = {}
  BY <1>2, <1>3 DEF Passed
<1>5. SlotsHonest /\ Sourced /\ ChannelsOrdered
  BY <1>2, <1>3 DEF SlotsHonest, Sourced, ChannelsOrdered
<1>6. StagesOrdered
  BY <1>2, <1>3, <1>4 DEF StagesOrdered, Ahead
<1> QED
  BY <1>1, <1>5, <1>6 DEF StreamInv

\* The invariant of the stream holds in every reachable state.
THEOREM StreamInvariance == Spec => []StreamInv
  BY StreamInit, StreamStep, Invariance, PTL DEF Spec

\* Every page, and the SOS feed from its end, follow the order in which the hub
\* published, for any number of pages and connections and channels of any capacity:
\* no event is repeated or overtaken by reconnects, restarts, drops and slow pages.
THEOREM InOrderHolds == Spec => []InOrder
<1>1. StreamInv => InOrder
  <2> SUFFICES ASSUME StreamInv PROVE InOrder
    OBVIOUS
  <2>1. \A x : Place(x) = At(published, x)
    BY DEF Place, At
  <2>2. Follows(Reverse(sos))
    <3>1. sos \in Seq(Alerts) /\ Len(sos) \in Nat /\ SortedDown(published, sos)
      BY LenProperties DEF StreamInv, TypeOK, ChannelsOrdered
    <3>2. PICK t : t = [j \in 1 .. Len(sos) |-> sos[Len(sos) - j + 1]]
      OBVIOUS
    <3>3. Reverse(sos) = t /\ Len(t) = Len(sos)
      BY <3>1, <3>2, LenProperties DEF Reverse
    <3>4. ASSUME NEW j \in 1 .. Len(t) - 1 PROVE Place(t[j]) < Place(t[j + 1])
      <4>1. /\ Len(sos) - j + 1 \in 1 .. Len(sos) /\ Len(sos) - (j + 1) + 1 \in 1 .. Len(sos)
            /\ Len(sos) - (j + 1) + 1 < Len(sos) - j + 1
        BY <3>1, <3>3
      <4>2. t[j] = sos[Len(sos) - j + 1] /\ t[j + 1] = sos[Len(sos) - (j + 1) + 1]
        BY <3>1, <3>2, <3>3
      <4> QED
        BY <2>1, <3>1, <4>1, <4>2 DEF SortedDown
    <3> QED
      BY <3>3, <3>4 DEF Follows
  <2>3. ASSUME NEW b \in Tabs PROVE Follows(shown[b] \o pane[b])
    <3>1. /\ shown[b] \in Seq(Events) /\ pane[b] \in Seq(Events)
          /\ Sorted(published, shown[b]) /\ Sorted(published, pane[b])
          /\ Ahead(published, ToSet(shown[b]), ToSet(pane[b]))
      BY DEF StreamInv, TypeOK, ChannelsOrdered, StagesOrdered
    <3>2. PICK m, n, t : m = Len(shown[b]) /\ n = Len(pane[b]) /\ t = shown[b] \o pane[b]
      OBVIOUS
    <3>3. /\ m \in Nat /\ n \in Nat /\ Len(t) = m + n
          /\ \A j \in 1 .. m + n : t[j] = IF j <= m THEN shown[b][j] ELSE pane[b][j - m]
      BY <3>1, <3>2, ConcatProperties, LenProperties
    <3>4. ASSUME NEW j \in 1 .. Len(t) - 1 PROVE Place(t[j]) < Place(t[j + 1])
      <4>0. j \in 1 .. m + n /\ j + 1 \in 1 .. m + n
        BY <3>3
      <4>1. CASE j + 1 <= m
        <5>1. j \in 1 .. m /\ j + 1 \in 1 .. m /\ j < j + 1 /\ t[j] = shown[b][j] /\ t[j + 1] = shown[b][j + 1]
          BY <3>3, <4>0, <4>1
        <5> QED
          BY <2>1, <3>1, <3>2, <5>1 DEF Sorted
      <4>2. CASE j = m
        <5>1. m \in 1 .. m /\ 1 \in 1 .. n /\ t[j] = shown[b][m] /\ t[j + 1] = pane[b][1]
          BY <3>3, <4>0, <4>2
        <5>2. t[j] \in ToSet(shown[b]) /\ t[j + 1] \in ToSet(pane[b])
          BY <3>1, <3>2, <5>1, ToSetIs
        <5> QED
          BY <2>1, <3>1, <5>2 DEF Ahead
      <4>3. CASE j > m
        <5>1. /\ j - m \in 1 .. n /\ j + 1 - m \in 1 .. n /\ j - m < j + 1 - m
              /\ t[j] = pane[b][j - m] /\ t[j + 1] = pane[b][j + 1 - m]
          BY <3>3, <4>0, <4>3
        <5> QED
          BY <2>1, <3>1, <3>2, <5>1 DEF Sorted
      <4> QED
        BY <3>3, <4>0, <4>1, <4>2, <4>3
    <3> QED
      BY <3>2, <3>4 DEF Follows
  <2> QED
    BY <2>2, <2>3 DEF InOrder
<1> QED
  BY <1>1, StreamInvariance, PTL

---------------------------------------------------------------------------
\* Pages

\* A page's channel is in the monitor's table exactly from its registration to its end.
PagesRegistered ==
    \A b \in Tabs : b \in browsers <=> tab[b] \in {"registered", "open", "blank"}

\* No change that the overview counts falls between a page's overview and its channel:
\* the counters are read after the channel is registered, so that such a change, once
\* the monitor has passed it on, is in one of them, or the channel was full.  Proved
\* for overviews that fail and for logins at any time.
THEOREM NoGapHolds == Spec => []NoGap
<1> DEFINE Known(b) == snapshot[b] \cup ToSet(shown[b]) \cup ToSet(pane[b]) \cup dropped[b]
           Inv == /\ PagesRegistered
                  /\ \A b \in Tabs : tab[b] = "open" => fanned \cap Counted \subseteq Known(b)
<1>1. Init => Inv
  BY DEF Init, PagesRegistered
<1>2. ASSUME StreamInv, Inv, [Next]_vars PROVE Inv'
  <2>0. /\ tab \in [Tabs -> {"closed", "upgraded", "registered", "open", "blank"}]
        /\ pane \in [Tabs -> Seq(Events)] /\ shown \in [Tabs -> Seq(Events)]
        /\ snapshot \in [Tabs -> SUBSET Events] /\ dropped \in [Tabs -> SUBSET Events]
        /\ fanned \subseteq 1 .. committed /\ TabBuffer \in Nat
    BY <1>2, EventAssumption DEF StreamInv, TypeOK, Sourced
  <2>1. CASE UNCHANGED <<tab, browsers, pane, shown, snapshot, dropped, fanned>>
    BY <1>2, <2>1 DEF PagesRegistered
  <2>2. CASE FanOut
    <3>1. PICK i : i = Head(taken)
      OBVIOUS
    <3>2. i \in Events
      <4>1. taken # <<>> /\ taken \in Seq(Events)
        BY <1>2, <2>2 DEF StreamInv, TypeOK, FanOut
      <4> QED
        BY <3>1, <4>1, TailElements, ToSetIs
    <3>3. /\ pane' = [b \in Tabs |-> IF b \in browsers THEN Offer(pane[b], i, TabBuffer) ELSE pane[b]]
          /\ dropped' = [b \in Tabs |-> IF b \in browsers /\ Len(pane[b]) >= TabBuffer
                                        THEN dropped[b] \cup {i} ELSE dropped[b]]
          /\ fanned' = fanned \cup {i}
          /\ UNCHANGED <<tab, browsers, shown, snapshot>>
      BY <2>2, <3>1 DEF FanOut
    <3>4. ASSUME NEW b \in Tabs, tab[b] = "open" PROVE fanned' \cap Counted \subseteq Known(b)'
      <4>1. b \in browsers /\ fanned \cap Counted \subseteq Known(b)
        BY <1>2, <3>4 DEF PagesRegistered
      <4>2. /\ ToSet(pane[b]) \subseteq ToSet(Offer(pane[b], i, TabBuffer))
            /\ Len(pane[b]) < TabBuffer => i \in ToSet(Offer(pane[b], i, TabBuffer))
            /\ Len(pane[b]) \in Nat
        BY <2>0, <3>2, OfferElements, LenProperties
      <4>3. /\ pane'[b] = Offer(pane[b], i, TabBuffer)
            /\ dropped'[b] = IF Len(pane[b]) >= TabBuffer THEN dropped[b] \cup {i} ELSE dropped[b]
        BY <3>3, <4>1
      <4>4. Known(b) \subseteq Known(b)'
        BY <3>3, <4>2, <4>3
      <4>5. i \in Known(b)'
        <5>1. CASE Len(pane[b]) < TabBuffer
          BY <5>1, <4>2, <4>3
        <5>2. CASE Len(pane[b]) >= TabBuffer
          BY <5>2, <4>3
        <5> QED
          BY <2>0, <4>2, <5>1, <5>2
      <4> QED
        BY <3>3, <4>1, <4>4, <4>5
    <3> QED
      BY <1>2, <3>3, <3>4 DEF PagesRegistered
  <2>3. ASSUME NEW b \in Tabs, NEW l \in Logins, OpenTab(b, l) PROVE Inv'
    BY <1>2, <2>0, <2>3 DEF OpenTab, PagesRegistered, monitorSide
  <2>4. ASSUME NEW b \in Tabs, RegisterTab(b) PROVE Inv'
    BY <1>2, <2>0, <2>4 DEF RegisterTab, PagesRegistered, monitorSide
  <2>5. ASSUME NEW b \in Tabs, Snapshot(b) PROVE Inv'
    <3>1. /\ tab[b] = "registered"
          /\ tab' \in {[tab EXCEPT ![b] = "open"], [tab EXCEPT ![b] = "blank"]}
          /\ tab'[b] = "open" => snapshot'[b] = Counted \cap 1 .. committed
          /\ \A d \in Tabs \ {b} : snapshot'[d] = snapshot[d]
          /\ UNCHANGED <<browsers, pane, shown, dropped, fanned>>
      BY <2>0, <2>5 DEF Snapshot, OverviewSnapshot, monitorSide
    <3>2. PagesRegistered'
      BY <1>2, <2>0, <3>1 DEF PagesRegistered
    <3>3. ASSUME NEW d \in Tabs, tab'[d] = "open" PROVE fanned' \cap Counted \subseteq Known(d)'
      <4>1. CASE d = b
        BY <2>0, <3>1, <3>3, <4>1
      <4>2. CASE d # b
        BY <1>2, <2>0, <3>1, <3>3, <4>2
      <4> QED
        BY <4>1, <4>2
    <3> QED
      BY <3>2, <3>3
  <2>6. ASSUME NEW b \in Tabs, WriteTab(b) PROVE Inv'
    <3>1. pane[b] # <<>> /\ pane[b] \in Seq(Events) /\ shown[b] \in Seq(Events)
      BY <2>0, <2>6 DEF WriteTab
    <3>2. /\ ToSet(pane[b]) = ToSet(Tail(pane[b])) \cup {Head(pane[b])}
          /\ ToSet(Append(shown[b], Head(pane[b]))) = ToSet(shown[b]) \cup {Head(pane[b])}
      <4>1. Head(pane[b]) \in Events
        BY <3>1, TailElements, ToSetIs
      <4> QED
        BY <3>1, <4>1, TailElements, AppendElements
    <3>3. \A d \in Tabs : Known(d)' = Known(d)
      BY <2>0, <2>6, <3>2 DEF WriteTab
    <3> QED
      BY <1>2, <2>6, <3>3 DEF WriteTab, PagesRegistered, monitorSide
  <2>7. ASSUME NEW b \in Tabs, RemoveTab(b) PROVE Inv'
    BY <1>2, <2>0, <2>7 DEF RemoveTab, PagesRegistered, monitorSide
  <2>8. CASE RestartMonitor
    BY <2>8 DEF RestartMonitor, PagesRegistered
  <2>9. CASE \/ Commit \/ HubStep \/ Connect \/ ReadEvent \/ ReadFails \/ TakeEvent \/ RestartHub
             \/ Authenticate \/ Logout \/ UNCHANGED vars
             \/ \E c \in Slots : Handle(c)
    BY <2>1, <2>9 DEF Commit, HubStep, Publish, Connect, Dial, ReadEvent, ReadFails, TakeEvent, RestartHub,
       Authenticate, Logout, Handle, AddClient, WriteMessage, RemoveClient, HangUp, vars, streamVars,
       monitorSide, pages
  <2> QED
    BY <1>2, <2>2, <2>3, <2>4, <2>5, <2>6, <2>7, <2>8, <2>9 DEF Next, MonitorStep, ServeTab
<1>3. Inv => NoGap
  BY DEF NoGap
<1> QED
  BY <1>1, <1>2, <1>3, StreamInvariance, PTL DEF Spec
=============================================================================
