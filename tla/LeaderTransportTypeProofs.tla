---------------------- MODULE LeaderTransportTypeProofs ----------------------
(* Type correctness of LeaderTransport, for any set of tabs and any bounds. *)
EXTENDS LeaderTransport, FiniteSetTheorems, TLAPS

-----------------------------------------------------------------------------
(* The operators on message queues.                                        *)

LEMMA SortedType ==
  ASSUME NEW S, IsFiniteSet(S)
  PROVE  Sorted(S) \in Seq(S)
<1>. DEFINE n == Cardinality(S)
            Orders == {s \in [1 .. n -> S] : \A i, j \in DOMAIN s : i < j => s[i] < s[j]}
<1>1. n \in Nat
  BY FS_CardinalityType
<1>2. Sorted(S) = IF Orders = {} THEN <<>> ELSE CHOOSE s \in Orders : TRUE
  BY DEF Sorted
<1>3. CASE Orders = {}
  BY <1>2, <1>3
<1>4. CASE Orders # {}
  <2>1. Sorted(S) \in Orders
    BY <1>2, <1>4
  <2>2. Sorted(S) \in [1 .. n -> S]
    BY <2>1
  <2>. QED BY <1>1, <2>2
<1>. QED BY <1>3, <1>4

LEMMA DiscoveryType ==
  ASSUME NEW l \in Nat
  PROVE  /\ \A kind \in Announcements : Discovery(kind, l, NoTab) \in Message
         /\ \A kind \in Handshakes, c \in Tabs : Discovery(kind, l, c) \in Message
BY DEF Discovery, Message

LEMMA RequestType ==
  ASSUME NEW l \in Nat, NEW c \in Tabs, NEW i \in Ids
  PROVE  Request(l, c, i) \in Message
BY DEF Request, Message, Requests, Envelopes

LEMMA AnswerType ==
  ASSUME NEW kind \in {"response", "error"}, NEW l \in Nat, NEW c \in Tabs,
         NEW i \in Ids, NEW of \in Requests
  PROVE  Answer(kind, l, c, i, of) \in Message
BY DEF Answer, Message, Envelopes

LEMMA MessageFields ==
  ASSUME NEW m \in Message
  PROVE  /\ m.leader \in Nat
         /\ m.kind \in Handshakes \cup Envelopes => m.client \in Tabs
         /\ m.kind \in Envelopes => m.id \in Ids /\ m.of \in Requests
BY DEF Message, Announcements, Handshakes, Envelopes

LEMMA BroadcastType ==
  ASSUME NEW box \in Boxes, NEW t \in Tabs, NEW m \in Message
  PROVE  Broadcast(box, t, m) \in Boxes
BY DEF Broadcast, Boxes

LEMMA PostRequestsType ==
  ASSUME NEW box \in Boxes, NEW t \in Tabs, NEW l \in Nat, NEW ids \in Seq(Ids)
  PROVE  PostRequests(box, t, l, ids) \in Boxes
<1>1. [i \in DOMAIN ids |-> Request(l, t, ids[i])] \in Seq(Message)
  <2>1. \A i \in DOMAIN ids : Request(l, t, ids[i]) \in Message
    BY RequestType
  <2>. QED BY <2>1
<1>. QED BY <1>1 DEF PostRequests, Boxes

LEMMA DroppedType == Dropped \in Message
BY DEF Dropped, Discovery, Message, Announcements

LEMMA DropAnswersType ==
  ASSUME NEW box \in Boxes, NEW t \in Tabs
  PROVE  DropAnswers(box, t) \in Boxes
BY DroppedType DEF DropAnswers, Drop, Boxes

LEMMA DropRequestsType ==
  ASSUME NEW box \in Boxes, NEW t \in Tabs, NEW C
  PROVE  DropRequests(box, t, C) \in Boxes
BY DroppedType DEF DropRequests, Drop, Boxes

\* The facts about inbox[t] that a handler of its first task needs.
LEMMA PopType ==
  ASSUME TypeOK, NEW t \in Tabs, inbox[t] # <<>>
  PROVE  Pop(t) \in Boxes /\ Head(inbox[t]) \in Message
<1>1. inbox[t] \in Seq(Message)
  BY DEF TypeOK, Boxes
<1>2. Head(inbox[t]) \in Message /\ Tail(inbox[t]) \in Seq(Message)
  BY <1>1
<1>. QED BY <1>2 DEF TypeOK, Pop, Boxes

LEMMA InFlightSortedType ==
  ASSUME TypeOK, NEW t \in Tabs
  PROVE  Sorted(inFlight[t]) \in Seq(Ids)
<1>1. IsFiniteSet(Ids)
  BY FS_Interval, BoundsAssumption DEF Ids
<1>2. inFlight[t] \subseteq Ids
  BY DEF TypeOK, CallType
<1>3. IsFiniteSet(inFlight[t])
  BY <1>1, <1>2, FS_Subset
<1>4. Sorted(inFlight[t]) \in Seq(inFlight[t])
  BY <1>3, SortedType
<1>. QED BY <1>2, <1>4

LEMMA FailPendingType ==
  ASSUME TypeOK, NEW t \in Tabs, NEW l \in Nat
  PROVE  FailPending(t, l) \in Boxes
<1>. DEFINE lids(c) == {r.lid : r \in {q \in idMap[t] : q.client = c}}
            entry(n) == CHOOSE r \in idMap[t] : r.lid = n
            error(c, n) == Answer("error", l, c, entry(n).id, <<c, entry(n).id>>)
            errors(c) == LET s == Sorted(lids(c)) IN [i \in DOMAIN s |-> error(c, s[i])]
            failed == [c \in Tabs |-> IF c \in bridges[t] /\ pair[c] = l
                                      THEN inbox[c] \o errors(c) ELSE inbox[c]]
<1>1. \A c \in Tabs : errors(c) \in Seq(Message)
  <2>. SUFFICES ASSUME NEW c \in Tabs PROVE errors(c) \in Seq(Message)
    OBVIOUS
  <2>. DEFINE mine == {q \in idMap[t] : q.client = c}
  <2>1. IsFiniteSet(mine)
    BY FS_Subset DEF TypeOK, LeaderType
  <2>2. IsFiniteSet(lids(c))
    <3>. DEFINE f == [r \in mine |-> r.lid]
    <3>1. f \in Surjection(mine, lids(c))
      BY DEF Surjection
    <3>. QED BY <2>1, <3>1, FS_Surjection
  <2>3. Sorted(lids(c)) \in Seq(lids(c))
    BY <2>2, SortedType
  <2>4. ASSUME NEW n \in lids(c)
        PROVE  error(c, n) \in Message
    <3>1. entry(n) \in idMap[t]
      OBVIOUS
    <3>2. entry(n).id \in Ids
      BY <3>1 DEF TypeOK, LeaderType
    <3>. QED BY <3>2, AnswerType DEF Requests
  <2>. DEFINE s == Sorted(lids(c))
  <2>5. errors(c) = [i \in DOMAIN s |-> error(c, s[i])]
    OBVIOUS
  <2>. HIDE DEF error, errors, lids, s
  <2>6. \A i \in DOMAIN s : error(c, s[i]) \in Message
    BY <2>3, <2>4 DEF s
  <2>. QED BY <2>3, <2>5, <2>6 DEF s
<1>2. failed \in Boxes
  <2>. HIDE DEF errors
  <2>. QED BY <1>1 DEF TypeOK, Boxes
<1>3. FailPending(t, l) = Broadcast(failed, t, Discovery("leader-failed", l, NoTab))
  BY DEF FailPending
<1>. QED BY <1>2, <1>3, BroadcastType, DiscoveryType DEF Announcements, Handshakes

-----------------------------------------------------------------------------
(* One lemma per action, one step per part of TypeOK that it can disturb.  *)

LEMMA UnchangedTypes ==
  /\ PairType /\ UNCHANGED pairVars => PairType'
  /\ CallType /\ UNCHANGED callVars => CallType'
  /\ LeaderType /\ UNCHANGED leaderVars => LeaderType'
  /\ WorkerType /\ UNCHANGED workerVars => WorkerType'
  /\ LockType /\ UNCHANGED lockVars => LockType'
  /\ BoundsType /\ UNCHANGED bounds => BoundsType'
BY DEF PairType, CallType, LeaderType, WorkerType, LockType, BoundsType,
   pairVars, callVars, leaderVars, workerVars, lockVars, bounds

LEMMA InitType == Init => TypeOK
BY FS_EmptySet
DEF Init, TypeOK, PairType, CallType, Boxes, LeaderType, WorkerType, LockType, BoundsType

LEMMA RejectAllType ==
  ASSUME CallType, NEW t \in Tabs
  PROVE  RejectAll(t) \in [Tabs -> [Ids -> {"none", "pending", "ok", "error", "gone"}]]
BY DEF CallType, RejectAll

LEMMA SendType ==
  ASSUME TypeOK, NEW t \in Tabs, NEW i \in Ids, Send(t, i)
  PROVE  TypeOK'
<1>0. inbox' \in Boxes
  <2>1. PostRequests(inbox, t, pair[t], <<i>>) \in Boxes
    <3>1. pair[t] \in Nat /\ <<i>> \in Seq(Ids)
      BY DEF TypeOK, PairType
    <3>. QED BY <3>1, PostRequestsType DEF TypeOK
  <2>. QED BY <2>1 DEF Send, TypeOK
<1>1. PairType' /\ LeaderType' /\ WorkerType' /\ LockType' /\ BoundsType'
  BY UnchangedTypes DEF TypeOK, Send
<1>2. CallType'
  BY DEF TypeOK, CallType, Send
<1>. QED BY <1>0, <1>1, <1>2 DEF TypeOK

LEMMA SendFailedType ==
  ASSUME TypeOK, NEW t \in Tabs, NEW i \in Ids, SendFailed(t, i)
  PROVE  TypeOK'
<1>0. inbox' \in Boxes
  BY DEF TypeOK, SendFailed
<1>1. PairType' /\ LeaderType' /\ WorkerType' /\ LockType' /\ BoundsType'
  BY UnchangedTypes DEF TypeOK, SendFailed
<1>2. CallType'
  BY DEF TypeOK, CallType, SendFailed
<1>. QED BY <1>0, <1>1, <1>2 DEF TypeOK

LEMMA OpenType ==
  ASSUME TypeOK, NEW t \in Tabs, Open(t)
  PROVE  TypeOK'
<1>0. inbox' \in Boxes
  BY BroadcastType, DiscoveryType DEF Open, TypeOK, Announcements, Handshakes
<1>1. CallType' /\ LeaderType' /\ WorkerType' /\ BoundsType'
  BY UnchangedTypes DEF TypeOK, Open
<1>2. PairType'
  BY DEF TypeOK, PairType, Open
<1>3. LockType'
  BY DEF TypeOK, LockType, Open
<1>. QED BY <1>0, <1>1, <1>2, <1>3 DEF TypeOK

LEMMA GrantLockType ==
  ASSUME TypeOK, NEW t \in Tabs, GrantLock(t)
  PROVE  TypeOK'
<1>0. inbox' \in Boxes
  BY DEF TypeOK, GrantLock
<1>1. PairType' /\ CallType' /\ LeaderType' /\ WorkerType' /\ BoundsType'
  BY UnchangedTypes DEF TypeOK, GrantLock
<1>2. LockType'
  BY DEF TypeOK, LockType, GrantLock
<1>. QED BY <1>0, <1>1, <1>2 DEF TypeOK

LEMMA GrantAfterCloseType ==
  ASSUME TypeOK, NEW t \in Tabs, GrantAfterClose(t)
  PROVE  TypeOK'
<1>0. inbox' \in Boxes
  BY DEF TypeOK, GrantAfterClose
<1>1. PairType' /\ CallType' /\ LeaderType' /\ WorkerType' /\ BoundsType'
  BY UnchangedTypes DEF TypeOK, GrantAfterClose
<1>2. LockType'
  BY DEF TypeOK, LockType, GrantAfterClose
<1>. QED BY <1>0, <1>1, <1>2 DEF TypeOK

LEMMA BecomeLeaderType ==
  ASSUME TypeOK, NEW t \in Tabs, BecomeLeader(t)
  PROVE  TypeOK'
<1>0. inbox' \in Boxes
  <2>. DEFINE l == epoch + 1
              replayed == Sorted(inFlight[t])
              detached == DropAnswers(inbox, t)
              posted == [i \in DOMAIN replayed |-> Request(l, t, replayed[i])]
              self == [detached EXCEPT ![t] = @ \o posted]
  <2>1. inbox' = Broadcast(self, t, Discovery("leader-elected", l, NoTab))
    BY DEF BecomeLeader, Replayed
  <2>2. l \in Nat /\ replayed \in Seq(Ids) /\ detached \in Boxes
    BY InFlightSortedType, DropAnswersType DEF TypeOK, LockType
  <2>. HIDE DEF l, replayed, detached
  <2>3. posted \in Seq(Message)
    <3>1. \A i \in DOMAIN replayed : Request(l, t, replayed[i]) \in Message
      BY <2>2, RequestType
    <3>. QED BY <2>2, <3>1
  <2>. HIDE DEF posted
  <2>4. self \in Boxes
    BY <2>2, <2>3 DEF Boxes
  <2>. QED BY <2>1, <2>2, <2>4, BroadcastType, DiscoveryType DEF Announcements, Handshakes
<1>1. CallType' /\ BoundsType'
  BY UnchangedTypes DEF TypeOK, BecomeLeader
<1>2. PairType'
  BY DEF TypeOK, PairType, BecomeLeader, LockType, SelfPair
<1>3. LeaderType'
  BY DEF TypeOK, LeaderType, BecomeLeader, LockType
<1>4. WorkerType'
  BY DEF TypeOK, WorkerType, BecomeLeader, LockType
<1>5. LockType'
  BY DEF TypeOK, LockType, BecomeLeader
<1>. QED BY <1>0, <1>1, <1>2, <1>3, <1>4, <1>5 DEF TypeOK

LEMMA GiveUpLeadershipType ==
  ASSUME TypeOK, NEW t \in Tabs, GiveUpLeadership(t)
  PROVE  /\ nextLid' = nextLid /\ failures' \in [Tabs -> Nat] => LeaderType'
         /\ ran' = ran => WorkerType'
         /\ holder' \in Tabs \cup {NoTab}
<1>1. nextLid' = nextLid /\ failures' \in [Tabs -> Nat] => LeaderType'
  BY FS_EmptySet DEF TypeOK, LeaderType, GiveUpLeadership
<1>2. ran' = ran => WorkerType'
  <2>1. workers' \subseteq Nat
    BY DEF TypeOK, WorkerType, GiveUpLeadership, StopWorker
  <2>2. jobs' \in [Tabs -> SUBSET Jobs] /\ replies' \in [Tabs -> Seq(Replies)]
    BY DEF TypeOK, WorkerType, GiveUpLeadership, StopWorker
  <2>. QED BY <2>1, <2>2 DEF TypeOK, WorkerType
<1>3. holder' \in Tabs \cup {NoTab}
  BY DEF TypeOK, LockType, GiveUpLeadership, ReleaseLock
<1>. QED BY <1>1, <1>2, <1>3

LEMMA WriterFailureType ==
  ASSUME TypeOK, NEW t \in Tabs, WriterFailure(t)
  PROVE  TypeOK'
<1>0. inbox' \in Boxes
  <2>1. FailPending(t, lead[t]) \in Boxes
    BY FailPendingType DEF TypeOK, LeaderType
  <2>. QED BY <2>1, DropRequestsType DEF WriterFailure
<1>1. GiveUpLeadership(t) /\ outcome' = RejectAll(t) /\ nextLid' = nextLid /\ ran' = ran
  BY DEF WriterFailure
<1>2. failures' \in [Tabs -> Nat]
  BY DEF TypeOK, LeaderType, WriterFailure, FailureCounts
<1>3. PairType'
  BY DEF TypeOK, PairType, WriterFailure
<1>4. CallType'
  BY <1>1, RejectAllType DEF TypeOK, CallType, WriterFailure
<1>5. LeaderType' /\ WorkerType'
  BY <1>1, <1>2, GiveUpLeadershipType
<1>6. LockType'
  BY <1>1, GiveUpLeadershipType DEF TypeOK, LockType, WriterFailure
<1>7. BoundsType'
  BY DEF TypeOK, BoundsType, WriterFailure
<1>. QED BY <1>0, <1>3, <1>4, <1>5, <1>6, <1>7 DEF TypeOK

LEMMA WriterFailureTerminalType ==
  ASSUME TypeOK, NEW t \in Tabs, WriterFailureTerminal(t)
  PROVE  TypeOK'
<1>0. inbox' \in Boxes
  <2>1. FailPending(t, lead[t]) \in Boxes
    BY FailPendingType DEF TypeOK, LeaderType
  <2>. QED BY <2>1 DEF WriterFailureTerminal, Boxes
<1>1. GiveUpLeadership(t) /\ outcome' = RejectAll(t) /\ nextLid' = nextLid /\ ran' = ran
  BY DEF WriterFailureTerminal
<1>2. failures' \in [Tabs -> Nat]
  BY DEF TypeOK, LeaderType, WriterFailureTerminal, FailureCounts
<1>3. PairType'
  BY DEF TypeOK, PairType, WriterFailureTerminal
<1>4. CallType'
  BY <1>1, RejectAllType DEF TypeOK, CallType, WriterFailureTerminal
<1>5. LeaderType' /\ WorkerType'
  BY <1>1, <1>2, GiveUpLeadershipType
<1>6. LockType'
  BY <1>1, GiveUpLeadershipType DEF TypeOK, LockType, WriterFailureTerminal
<1>7. BoundsType'
  BY DEF TypeOK, BoundsType, WriterFailureTerminal
<1>. QED BY <1>0, <1>3, <1>4, <1>5, <1>6, <1>7 DEF TypeOK

\* close() types every variable it touches; its callers settle the promises.
LEMMA CloseTransportType ==
  ASSUME TypeOK, NEW t \in Tabs, NEW box \in Boxes, CloseTransport(t, box),
         UNCHANGED <<ready, cur, nextLid, failures, ran, granted, nextTicket, epoch>>,
         outcome' \in [Tabs -> [Ids -> {"none", "pending", "ok", "error", "gone"}]]
  PROVE  /\ PairType' /\ CallType' /\ inbox' \in Boxes
         /\ LeaderType' /\ WorkerType' /\ LockType'
<1>1. PairType'
  BY DEF TypeOK, PairType, CloseTransport
<1>2. CallType'
  BY DEF TypeOK, CallType, CloseTransport
<1>3. inbox' \in Boxes
  BY DEF CloseTransport, Boxes
<1>4. LeaderType' /\ WorkerType'
  BY GiveUpLeadershipType DEF TypeOK, LeaderType, CloseTransport
<1>5. LockType'
  BY GiveUpLeadershipType DEF TypeOK, LockType, CloseTransport
<1>. QED BY <1>1, <1>2, <1>3, <1>4, <1>5

LEMMA TerminateType ==
  ASSUME TypeOK, NEW t \in Tabs, Terminate(t)
  PROVE  TypeOK'
<1>. DEFINE box == IF pair[t] = 0 THEN inbox ELSE PostRequests(inbox, t, pair[t], <<CloseId>>)
<1>1. pair[t] \in Nat /\ <<CloseId>> \in Seq(Ids)
  BY BoundsAssumption DEF TypeOK, PairType, CloseId, Ids
<1>2. box \in Boxes
  BY <1>1, PostRequestsType DEF TypeOK
<1>3. CloseTransport(t, box)
  BY DEF Terminate
<1>. HIDE DEF box
<1>4. outcome' \in [Tabs -> [Ids -> {"none", "pending", "ok", "error", "gone"}]]
  BY RejectAllType DEF Terminate, TypeOK
<1>5. BoundsType'
  BY UnchangedTypes DEF Terminate, TypeOK
<1>. QED BY <1>2, <1>3, <1>4, <1>5, CloseTransportType DEF Terminate, TypeOK

LEMMA LockRejectedType ==
  ASSUME TypeOK, NEW t \in Tabs, LockRejected(t)
  PROVE  TypeOK'
<1>1. BoundsType'
  BY DEF TypeOK, BoundsType, LockRejected
<1>2. CASE CloseTransport(t, inbox) /\ UNCHANGED outcome
  <2>1. outcome' \in [Tabs -> [Ids -> {"none", "pending", "ok", "error", "gone"}]]
    BY <1>2 DEF TypeOK, CallType
  <2>. QED BY <1>1, <1>2, <2>1, CloseTransportType DEF LockRejected, TypeOK
<1>3. CASE /\ outcome' = RejectAll(t)
           /\ ticket' = [ticket EXCEPT ![t] = 0]
           /\ UNCHANGED <<phase, pair, await, inFlight, inbox, lead, bridges,
                          idMap, workers, jobs, replies, holder>>
  <2>1. PairType' /\ LeaderType' /\ WorkerType' /\ inbox' \in Boxes
    BY <1>3, UnchangedTypes DEF TypeOK, LockRejected, pairVars, leaderVars, workerVars
  <2>2. CallType'
    BY <1>3, RejectAllType DEF TypeOK, CallType
  <2>3. LockType'
    BY <1>3 DEF TypeOK, LockType, LockRejected
  <2>. QED BY <1>1, <2>1, <2>2, <2>3 DEF TypeOK
<1>. QED BY <1>2, <1>3 DEF LockRejected

LEMMA UnloadType ==
  ASSUME TypeOK, NEW t \in Tabs, Unload(t)
  PROVE  TypeOK'
<1>0. inbox' \in Boxes
  BY DEF Unload, TypeOK, Boxes
<1>1. BoundsType'
  BY UnchangedTypes DEF TypeOK, Unload
<1>2. PairType'
  BY DEF TypeOK, PairType, Unload
<1>3. CallType'
  BY DEF TypeOK, CallType, Unload
<1>4. LeaderType'
  BY FS_EmptySet DEF TypeOK, LeaderType, Unload
<1>5. WorkerType'
  <2>1. workers' \subseteq Nat
    BY DEF TypeOK, WorkerType, Unload
  <2>2. jobs' \in [Tabs -> SUBSET Jobs] /\ replies' \in [Tabs -> Seq(Replies)]
    BY DEF TypeOK, WorkerType, Unload
  <2>. QED BY <2>1, <2>2 DEF TypeOK, WorkerType, Unload
<1>6. LockType'
  BY DEF TypeOK, LockType, Unload
<1>. QED BY <1>0, <1>1, <1>2, <1>3, <1>4, <1>5, <1>6 DEF TypeOK

LEMMA WithoutClientType ==
  ASSUME TypeOK, NEW t \in Tabs, NEW c
  PROVE  /\ WithoutClient(idMap[t], c) \subseteq [lid: Nat, client: Tabs, id: Ids]
         /\ IsFiniteSet(WithoutClient(idMap[t], c))
<1>1. WithoutClient(idMap[t], c) \subseteq idMap[t]
  BY DEF WithoutClient
<1>. QED BY <1>1, FS_Subset DEF TypeOK, LeaderType

LEMMA IgnoredType ==
  ASSUME TypeOK, NEW t \in Tabs, Ignored(t)
  PROVE  TypeOK'
<1>. DEFINE m == Head(inbox[t])
<1>a. inbox[t] # <<>>
  BY DEF Ignored
<1>b. m \in Message /\ Pop(t) \in Boxes
  BY <1>a, PopType
<1>0. inbox' \in Boxes
  BY <1>b DEF Ignored
<1>1. PairType' /\ CallType' /\ LeaderType' /\ WorkerType' /\ LockType' /\ BoundsType'
  BY UnchangedTypes DEF TypeOK, Ignored
<1>. QED BY <1>0, <1>1 DEF TypeOK

LEMMA PairWithLeaderType ==
  ASSUME TypeOK, NEW t \in Tabs, PairWithLeader(t)
  PROVE  TypeOK'
<1>. DEFINE m == Head(inbox[t])
<1>a. inbox[t] # <<>>
  BY DEF PairWithLeader, Handles
<1>b. m \in Message /\ Pop(t) \in Boxes
  BY <1>a, PopType
<1>0. inbox' \in Boxes
  <2>1. Discovery("pair-request", m.leader, t) \in Message
    BY <1>b, MessageFields, DiscoveryType DEF Announcements, Handshakes
  <2>. QED BY <1>b, <2>1, DropAnswersType, BroadcastType DEF PairWithLeader
<1>1. CallType' /\ LeaderType' /\ WorkerType' /\ LockType' /\ BoundsType'
  BY UnchangedTypes DEF TypeOK, PairWithLeader
<1>2. PairType'
  BY <1>b, MessageFields DEF TypeOK, PairType, PairWithLeader
<1>. QED BY <1>0, <1>1, <1>2 DEF TypeOK

LEMMA RetryPairType ==
  ASSUME TypeOK, NEW t \in Tabs, RetryPair(t)
  PROVE  TypeOK'
<1>0. inbox' \in Boxes
  <2>1. Discovery("pair-request", await[t], t) \in Message
    BY DiscoveryType DEF Announcements, Handshakes, TypeOK, PairType
  <2>. QED BY <2>1, BroadcastType DEF RetryPair, TypeOK
<1>1. PairType' /\ CallType' /\ LeaderType' /\ WorkerType' /\ LockType'
  BY UnchangedTypes DEF TypeOK, RetryPair
<1>2. BoundsType'
  BY DEF TypeOK, BoundsType, RetryPair
<1>. QED BY <1>0, <1>1, <1>2 DEF TypeOK

LEMMA PairAckType ==
  ASSUME TypeOK, NEW t \in Tabs, PairAck(t)
  PROVE  TypeOK'
<1>. DEFINE m == Head(inbox[t])
<1>a. inbox[t] # <<>>
  BY DEF PairAck, Handles
<1>b. m \in Message /\ Pop(t) \in Boxes
  BY <1>a, PopType
<1>0. inbox' \in Boxes
  <2>1. pair[t] \in Nat /\ Sorted(inFlight[t]) \in Seq(Ids)
    BY InFlightSortedType DEF TypeOK, PairType
  <2>. QED BY <1>b, <2>1, PostRequestsType DEF PairAck, Replayed
<1>1. CallType' /\ LeaderType' /\ WorkerType' /\ LockType' /\ BoundsType'
  BY UnchangedTypes DEF TypeOK, PairAck
<1>2. PairType'
  BY DEF TypeOK, PairType, PairAck
<1>. QED BY <1>0, <1>1, <1>2 DEF TypeOK

LEMMA LeaderFailedType ==
  ASSUME TypeOK, NEW t \in Tabs, LeaderFailed(t)
  PROVE  TypeOK'
<1>. DEFINE m == Head(inbox[t])
<1>a. inbox[t] # <<>>
  BY DEF LeaderFailed, Handles
<1>b. m \in Message /\ Pop(t) \in Boxes
  BY <1>a, PopType
<1>0. inbox' \in Boxes
  BY <1>b, DropAnswersType DEF LeaderFailed
<1>1. LeaderType' /\ WorkerType' /\ LockType' /\ BoundsType'
  BY UnchangedTypes DEF TypeOK, LeaderFailed
<1>2. PairType'
  BY DEF TypeOK, PairType, LeaderFailed
<1>3. CallType'
  BY RejectAllType DEF TypeOK, CallType, LeaderFailed
<1>. QED BY <1>0, <1>1, <1>2, <1>3 DEF TypeOK

LEMMA AnswerQueryType ==
  ASSUME TypeOK, NEW t \in Tabs, AnswerQuery(t)
  PROVE  TypeOK'
<1>. DEFINE m == Head(inbox[t])
<1>a. inbox[t] # <<>>
  BY DEF AnswerQuery, Handles
<1>b. m \in Message /\ Pop(t) \in Boxes
  BY <1>a, PopType
<1>0. inbox' \in Boxes
  <2>1. Discovery("leader-elected", lead[t], NoTab) \in Message
    BY DiscoveryType DEF Announcements, Handshakes, TypeOK, LeaderType
  <2>. QED BY <1>b, <2>1, BroadcastType DEF AnswerQuery
<1>1. PairType' /\ CallType' /\ LeaderType' /\ WorkerType' /\ LockType' /\ BoundsType'
  BY UnchangedTypes DEF TypeOK, AnswerQuery
<1>. QED BY <1>0, <1>1 DEF TypeOK

LEMMA ReceiveType ==
  ASSUME TypeOK, NEW t \in Tabs, Receive(t)
  PROVE  TypeOK'
<1>. DEFINE m == Head(inbox[t])
<1>a. inbox[t] # <<>>
  BY DEF Receive
<1>b. m \in Message /\ Pop(t) \in Boxes
  BY <1>a, PopType
<1>0. inbox' \in Boxes
  BY <1>b DEF Receive
<1>1. PairType' /\ LeaderType' /\ WorkerType' /\ LockType' /\ BoundsType'
  BY UnchangedTypes DEF TypeOK, Receive
<1>2. CallType'
  BY DEF TypeOK, CallType, Receive, SettleAs
<1>. QED BY <1>0, <1>1, <1>2 DEF TypeOK

LEMMA AcceptPairType ==
  ASSUME TypeOK, NEW t \in Tabs, AcceptPair(t)
  PROVE  TypeOK'
<1>. DEFINE m == Head(inbox[t])
<1>a. inbox[t] # <<>> /\ m.kind = "pair-request"
  BY DEF AcceptPair, Handles
<1>b. m \in Message /\ Pop(t) \in Boxes
  BY <1>a, PopType
<1>c. m.client \in Tabs
  BY <1>a, <1>b, MessageFields DEF Handshakes
<1>0. inbox' \in Boxes
  <2>1. Discovery("pair-ack", lead[t], m.client) \in Message
    BY <1>c, DiscoveryType DEF Handshakes, TypeOK, LeaderType
  <2>. QED BY <1>b, <2>1, DropRequestsType, BroadcastType DEF AcceptPair
<1>1. PairType' /\ CallType' /\ WorkerType' /\ LockType' /\ BoundsType'
  BY UnchangedTypes DEF TypeOK, AcceptPair
<1>2. LeaderType'
  BY <1>c, WithoutClientType DEF TypeOK, LeaderType, AcceptPair, WithBridge
<1>. QED BY <1>0, <1>1, <1>2 DEF TypeOK

LEMMA ForwardRequestType ==
  ASSUME TypeOK, NEW t \in Tabs, ForwardRequest(t)
  PROVE  TypeOK'
<1>. DEFINE m == Head(inbox[t])
<1>a. inbox[t] # <<>> /\ m.kind = "request"
  BY DEF ForwardRequest, Handles
<1>b. m \in Message /\ Pop(t) \in Boxes
  BY <1>a, PopType
<1>c. m.client \in Tabs /\ m.id \in Ids /\ m.of \in Requests
  BY <1>a, <1>b, MessageFields DEF Envelopes
<1>d. AllocateLeaderId(t, m.id) \in Nat
  BY DEF AllocateLeaderId, TypeOK, LeaderType
<1>0. inbox' \in Boxes
  BY <1>b DEF ForwardRequest
<1>1. PairType' /\ CallType' /\ LockType' /\ BoundsType'
  BY UnchangedTypes DEF TypeOK, ForwardRequest
<1>2. LeaderType'
  <2>. DEFINE r == [lid |-> AllocateLeaderId(t, m.id), client |-> m.client, id |-> m.id]
  <2>1. r \in [lid: Nat, client: Tabs, id: Ids]
    BY <1>c, <1>d
  <2>2. idMap' = [idMap EXCEPT ![t] = @ \cup {r}]
    BY DEF ForwardRequest
  <2>. HIDE DEF r
  <2>3. IsFiniteSet(idMap[t] \cup {r})
    BY FS_AddElement DEF TypeOK, LeaderType
  <2>4. /\ idMap' \in [Tabs -> SUBSET [lid: Nat, client: Tabs, id: Ids]]
        /\ \A u \in Tabs : IsFiniteSet(idMap'[u])
    BY <2>1, <2>2, <2>3 DEF TypeOK, LeaderType
  <2>5. lead' = lead /\ bridges' = bridges /\ failures' = failures /\ nextLid' \in [Tabs -> Nat]
    BY DEF TypeOK, LeaderType, ForwardRequest
  <2>. QED BY <2>4, <2>5 DEF TypeOK, LeaderType
<1>3. WorkerType'
  <2>1. [lid |-> AllocateLeaderId(t, m.id), of |-> m.of] \in Jobs
    BY <1>c, <1>d DEF Jobs
  <2>. QED BY <2>1 DEF TypeOK, WorkerType, ForwardRequest
<1>. QED BY <1>0, <1>1, <1>2, <1>3 DEF TypeOK

LEMMA InterceptCloseType ==
  ASSUME TypeOK, NEW t \in Tabs, InterceptClose(t)
  PROVE  TypeOK'
<1>. DEFINE m == Head(inbox[t])
<1>a. inbox[t] # <<>> /\ m.kind = "request"
  BY DEF InterceptClose, Handles
<1>b. m \in Message /\ Pop(t) \in Boxes
  BY <1>a, PopType
<1>c. m.client \in Tabs
  BY <1>a, <1>b, MessageFields DEF Envelopes
<1>0. inbox' \in Boxes
  <2>. DEFINE c == m.client
              a == Answer("response", lead[t], c, CloseId, <<c, CloseId>>)
              answered == [u \in Tabs |-> IF u = c /\ pair[c] = lead[t]
                                          THEN Append(Pop(t)[u], a) ELSE Pop(t)[u]]
  <2>1. inbox' = DropRequests(answered, t, {c})
    BY DEF InterceptClose
  <2>2. CloseId \in Ids
    BY BoundsAssumption DEF CloseId, Ids
  <2>3. a \in Message
    BY <1>c, <2>2, AnswerType DEF TypeOK, LeaderType, Requests
  <2>. HIDE DEF a
  <2>4. answered \in Boxes
    BY <1>b, <2>3 DEF Boxes
  <2>. QED BY <2>1, <2>4, DropRequestsType
<1>1. PairType' /\ CallType' /\ WorkerType' /\ LockType' /\ BoundsType'
  BY UnchangedTypes DEF TypeOK, InterceptClose
<1>2. LeaderType'
  BY WithoutClientType DEF TypeOK, LeaderType, InterceptClose
<1>. QED BY <1>0, <1>1, <1>2 DEF TypeOK

LEMMA WriterRunType ==
  ASSUME TypeOK, NEW t \in Tabs, WriterRun(t)
  PROVE  TypeOK'
<1>0. inbox' \in Boxes
  BY DEF TypeOK, WriterRun
<1>1. PairType' /\ CallType' /\ LeaderType' /\ LockType' /\ BoundsType'
  BY UnchangedTypes DEF TypeOK, WriterRun
<1>2. WorkerType'
  <2>1. PICK j \in jobs[t], kind \in {"response", "error"} :
          /\ jobs' = [jobs EXCEPT ![t] = @ \ {j}]
          /\ replies' = [replies EXCEPT ![t] = Append(@, [job |-> j, kind |-> kind])]
          /\ ran' = [ran EXCEPT ![j.of] = Append(@, lead[t])]
          /\ workers' = workers
    BY DEF WriterRun
  <2>2. j \in Jobs
    BY DEF TypeOK, WorkerType
  <2>3. [job |-> j, kind |-> kind] \in Replies
    BY <2>2 DEF Replies
  <2>4. jobs' \in [Tabs -> SUBSET Jobs] /\ replies' \in [Tabs -> Seq(Replies)]
    BY <2>1, <2>3 DEF TypeOK, WorkerType
  <2>5. j.of \in Requests /\ lead[t] \in Nat
    BY <2>2 DEF Jobs, TypeOK, LeaderType
  <2>6. ran' \in [Requests -> Seq(Nat)]
    BY <2>1, <2>5 DEF TypeOK, WorkerType
  <2>. QED BY <2>1, <2>4, <2>6 DEF TypeOK, WorkerType
<1>. QED BY <1>0, <1>1, <1>2 DEF TypeOK

LEMMA ForwardReplyType ==
  ASSUME TypeOK, NEW t \in Tabs, ForwardReply(t)
  PROVE  TypeOK'
<1>. DEFINE e == Head(replies[t])
<1>a. /\ replies[t] \in Seq(Replies) /\ replies[t] # <<>>
      /\ Tail(replies[t]) \in Seq(Replies)
  BY DEF TypeOK, WorkerType, ForwardReply
<1>b. e.job.of \in Requests /\ e.kind \in {"response", "error"}
  <2>1. e \in Replies
    BY <1>a
  <2>. QED BY <2>1 DEF Replies, Jobs
<1>0. inbox' \in Boxes
  <2>. DEFINE mine == {r \in idMap[t] : r.lid = e.job.lid}
              a(c) == Answer(e.kind, lead[t], c, (CHOOSE r \in mine : r.client = c).id, e.job.of)
  <2>1. inbox' = [c \in Tabs |-> IF pair[c] = lead[t] /\ \E r \in mine : r.client = c
                                 THEN Append(inbox[c], a(c)) ELSE inbox[c]]
    BY DEF ForwardReply
  <2>2. ASSUME NEW c \in Tabs, \E r \in mine : r.client = c
        PROVE  a(c) \in Message
    <3>1. (CHOOSE r \in mine : r.client = c) \in idMap[t]
      BY <2>2
    <3>2. (CHOOSE r \in mine : r.client = c).id \in Ids /\ lead[t] \in Nat
      BY <3>1 DEF TypeOK, LeaderType
    <3>. QED BY <1>b, <3>2, AnswerType
  <2>. HIDE DEF a, mine
  <2>. QED BY <2>1, <2>2 DEF TypeOK, Boxes
<1>1. PairType' /\ CallType' /\ LockType' /\ BoundsType'
  BY UnchangedTypes DEF TypeOK, ForwardReply
<1>2. LeaderType'
  <2>. DEFINE rest == idMap[t] \ {r \in idMap[t] : r.lid = e.job.lid}
  <2>1. idMap' = [idMap EXCEPT ![t] = rest]
    BY DEF ForwardReply
  <2>2. rest \subseteq idMap[t] /\ IsFiniteSet(rest)
    BY FS_Subset DEF TypeOK, LeaderType
  <2>. HIDE DEF rest
  <2>3. /\ idMap' \in [Tabs -> SUBSET [lid: Nat, client: Tabs, id: Ids]]
        /\ \A u \in Tabs : IsFiniteSet(idMap'[u])
    BY <2>1, <2>2 DEF TypeOK, LeaderType
  <2>. QED BY <2>3 DEF TypeOK, LeaderType, ForwardReply
<1>3. WorkerType'
  BY <1>a DEF TypeOK, WorkerType, ForwardReply
<1>. QED BY <1>0, <1>1, <1>2, <1>3 DEF TypeOK

-----------------------------------------------------------------------------
LEMMA TaskType ==
  ASSUME TypeOK, NEW t \in Tabs, Task(t)
  PROVE  TypeOK'
BY IgnoredType, PairWithLeaderType, AcceptPairType, PairAckType, LeaderFailedType,
   AnswerQueryType, ForwardRequestType, InterceptCloseType, ReceiveType DEF Task

LEMMA EnvironmentType ==
  ASSUME TypeOK, NEW t \in Tabs, Environment(t)
  PROVE  TypeOK'
BY OpenType, SendType, SendFailedType, UnloadType, WriterFailureType,
   WriterFailureTerminalType, LockRejectedType, RetryPairType DEF Environment

LEMMA StepType == TypeOK /\ [Next]_vars => TypeOK'
<1>1. ASSUME TypeOK, UNCHANGED vars PROVE TypeOK'
  BY <1>1, UnchangedTypes DEF TypeOK, vars
<1>. QED
  BY <1>1, EnvironmentType, TaskType, TerminateType, GrantLockType, GrantAfterCloseType,
     BecomeLeaderType, WriterRunType, ForwardReplyType DEF Next

\* In every behaviour each variable keeps its type; in particular only
\* requests the tab's WorkerClient issued are ever queued, forwarded,
\* answered or mapped by a bridge.
THEOREM TypeCorrect == Spec => []TypeOK
<1>. QED BY InitType, StepType, PTL DEF Spec

=============================================================================
