------------------------ MODULE LeaderTransportProofs ------------------------
(***************************************************************************)
(* Proofs about LeaderTransport, for any set of tabs and any bounds: one   *)
(* worker at a time and no orphaned lock; answers that reach only their    *)
(* request; the refinement of StorageService; pair-acks that mean what     *)
(* they say, and leaders that stay their own clients; requests that are    *)
(* never stranded.                                                         *)
(***************************************************************************)
EXTENDS LeaderTransportTypeProofs

-----------------------------------------------------------------------------
(* The election.                                                           *)

\* The election's own state and how the lock, the leader ids and the running
\* workers hang together.  Inductive; it says more than SingleWriter does
\* because a grant whose callback is outstanding must exclude a leader too.
LockInv ==
  /\ holder \in Tabs \cup {NoTab}
  /\ granted \in Tabs \cup {NoTab}
  /\ epoch \in Nat
  /\ lead \in [Tabs -> Nat]
  /\ workers \subseteq Nat \ {0}
  /\ granted # NoTab => holder = granted
  /\ \A t \in Tabs : lead[t] # 0 => holder = t /\ granted # t /\ lead[t] \in workers
  /\ \A w \in workers : \E t \in Tabs : lead[t] = w
  /\ holder # NoTab => granted = holder \/ lead[holder] # 0

\* The variables LockInv speaks of.
electionVars == <<holder, granted, epoch, lead, workers>>

LEMMA InitLockInv == Init => LockInv
BY TabsAssumption DEF Init, LockInv

\* What giving up leadership does to the election's state.
LEMMA GiveUpPreservesLockInv ==
  ASSUME NEW t \in Tabs, LockInv, GiveUpLeadership(t), granted' = granted, epoch' = epoch
  PROVE  LockInv'
BY TabsAssumption DEF LockInv, GiveUpLeadership, StopWorker, ReleaseLock

LEMMA GrantPreservesLockInv ==
  ASSUME NEW t \in Tabs, LockInv, GrantLock(t)
  PROVE  LockInv'
BY TabsAssumption DEF LockInv, GrantLock, leaderVars, workerVars

LEMMA GrantAfterClosePreservesLockInv ==
  ASSUME NEW t \in Tabs, LockInv, GrantAfterClose(t)
  PROVE  LockInv'
BY TabsAssumption DEF LockInv, GrantAfterClose, leaderVars, workerVars

LEMMA BecomeLeaderPreservesLockInv ==
  ASSUME NEW t \in Tabs, LockInv, BecomeLeader(t)
  PROVE  LockInv'
<1>1. /\ granted = t /\ granted' = NoTab /\ holder' = holder
      /\ epoch' = epoch + 1
      /\ lead' = [lead EXCEPT ![t] = epoch + 1]
      /\ workers' = workers \cup {epoch + 1}
  BY DEF BecomeLeader
<1>2. holder = t /\ \A u \in Tabs : lead[u] = 0
  BY <1>1, TabsAssumption DEF LockInv
<1>3. workers = {}
  BY <1>2 DEF LockInv
<1>. QED
  BY <1>1, <1>2, <1>3, TabsAssumption DEF LockInv

LEMMA UnloadPreservesLockInv ==
  ASSUME NEW t \in Tabs, LockInv, Unload(t)
  PROVE  LockInv'
BY TabsAssumption DEF LockInv, Unload

\* Every other action leaves the election alone or gives leadership up.
LEMMA EnvironmentPreservesLockInv ==
  ASSUME NEW t \in Tabs, LockInv, Environment(t)
  PROVE  LockInv'
<1>1. CASE Open(t)
  BY <1>1 DEF LockInv, Open, leaderVars, workerVars
<1>2. CASE \E i \in Ids : Send(t, i) \/ SendFailed(t, i)
  BY <1>2 DEF LockInv, Send, SendFailed, leaderVars, workerVars, lockVars
<1>3. CASE Unload(t)
  BY <1>3, UnloadPreservesLockInv
<1>4. CASE WriterFailure(t)
  <2>1. GiveUpLeadership(t) /\ granted' = granted /\ epoch' = epoch
    BY <1>4 DEF WriterFailure
  <2>. QED BY <2>1, GiveUpPreservesLockInv
<1>5. CASE WriterFailureTerminal(t)
  <2>1. GiveUpLeadership(t) /\ granted' = granted /\ epoch' = epoch
    BY <1>5 DEF WriterFailureTerminal
  <2>. QED BY <2>1, GiveUpPreservesLockInv
<1>6. CASE LockRejected(t)
  <2>1. granted' = granted /\ epoch' = epoch
    BY <1>6 DEF LockRejected
  <2>2. \/ GiveUpLeadership(t)
        \/ holder' = holder /\ lead' = lead /\ workers' = workers
    BY <1>6 DEF LockRejected, CloseTransport
  <2>. QED BY <2>1, <2>2, GiveUpPreservesLockInv DEF LockInv
<1>7. CASE RetryPair(t)
  BY <1>7 DEF LockInv, RetryPair, leaderVars, workerVars, lockVars
<1>. QED
  BY <1>1, <1>2, <1>3, <1>4, <1>5, <1>6, <1>7 DEF Environment

LEMMA TaskKeepsElection ==
  ASSUME NEW t \in Tabs, Task(t)
  PROVE  UNCHANGED electionVars
<1>1. CASE Ignored(t)
  BY <1>1 DEF Ignored, electionVars, leaderVars, workerVars, lockVars
<1>2. CASE PairWithLeader(t)
  BY <1>2 DEF PairWithLeader, electionVars, leaderVars, workerVars, lockVars
<1>3. CASE AcceptPair(t)
  BY <1>3 DEF AcceptPair, electionVars, workerVars, lockVars
<1>4. CASE PairAck(t)
  BY <1>4 DEF PairAck, electionVars, leaderVars, workerVars, lockVars
<1>5. CASE LeaderFailed(t)
  BY <1>5 DEF LeaderFailed, electionVars, leaderVars, workerVars, lockVars
<1>6. CASE AnswerQuery(t)
  BY <1>6 DEF AnswerQuery, electionVars, leaderVars, workerVars, lockVars
<1>7. CASE ForwardRequest(t)
  BY <1>7 DEF ForwardRequest, electionVars, lockVars
<1>8. CASE InterceptClose(t)
  BY <1>8 DEF InterceptClose, electionVars, workerVars, lockVars
<1>9. CASE Receive(t)
  BY <1>9 DEF Receive, electionVars, leaderVars, workerVars, lockVars
<1>. QED
  BY <1>1, <1>2, <1>3, <1>4, <1>5, <1>6, <1>7, <1>8, <1>9 DEF Task

LEMMA StepPreservesLockInv == LockInv /\ [Next]_vars => LockInv'
<1>1. ASSUME LockInv, NEW t \in Tabs, Task(t) PROVE LockInv'
  BY <1>1, TaskKeepsElection DEF LockInv, electionVars
<1>2. ASSUME LockInv, NEW t \in Tabs, Terminate(t) PROVE LockInv'
  <2>1. GiveUpLeadership(t) /\ granted' = granted /\ epoch' = epoch
    BY <1>2 DEF Terminate, CloseTransport
  <2>. QED BY <1>2, <2>1, GiveUpPreservesLockInv
<1>3. ASSUME LockInv, NEW t \in Tabs, WriterRun(t) \/ ForwardReply(t) PROVE LockInv'
  BY <1>3 DEF LockInv, WriterRun, ForwardReply, leaderVars, lockVars
<1>4. ASSUME LockInv, UNCHANGED vars PROVE LockInv'
  BY <1>4 DEF LockInv, vars, leaderVars, workerVars, lockVars
<1>. QED
  BY <1>1, <1>2, <1>3, <1>4, EnvironmentPreservesLockInv, GrantPreservesLockInv,
     GrantAfterClosePreservesLockInv, BecomeLeaderPreservesLockInv DEF Next

LEMMA LockInvariant == Spec => []LockInv
<1>. QED BY InitLockInv, StepPreservesLockInv, PTL DEF Spec

\* However many tabs open, crash, close or unload, in any order: never two
\* database workers, and the running one belongs to the lock's holder.
THEOREM OneWriter == Spec => []SingleWriter
<1>1. LockInv => SingleWriter
  BY TabsAssumption DEF LockInv, SingleWriter
<1>. QED BY <1>1, LockInvariant, PTL

\* The lock is only ever held by a tab that runs the worker or is about to:
\* no path out of leadership forgets to release it.
THEOREM LockNeverOrphaned == Spec => []LockNotOrphaned
<1>1. LockInv => LockNotOrphaned
  BY TabsAssumption DEF LockInv, LockNotOrphaned
<1>. QED BY <1>1, LockInvariant, PTL

-----------------------------------------------------------------------------
(* What is carried between the tabs.  A request in a queue, at a worker or *)
(* in its replies has been issued, an answer in the queue of a tab is to   *)
(* the request whose id it bears, and a positive one is to a request that  *)
(* has run.  The rewritten ids make that inductive: each bridge entry has  *)
(* an id of its own, and a job or a reply whose id is still mapped is for  *)
(* the client and the request of that entry.                               *)

Issued(oc, q) == oc[q[1]][q[2]] # "none"
SoundFor(u, oc, rn) ==
  {m \in Message :
     /\ m.kind = "request" =>
          m.of = <<m.client, m.id>> /\ (m.id # CloseId => Issued(oc, m.of))
     /\ m.kind \in {"response", "error"} => m.of = <<u, m.id>>
     /\ m.kind = "response" /\ m.id # CloseId => rn[m.of] # <<>>}
SoundBoxes(oc, rn) ==
  {box \in Boxes : \A u \in Tabs : box[u] \in Seq(SoundFor(u, oc, rn))}

InFlightIssued == \A t \in Tabs : \A i \in inFlight[t] : outcome[t][i] # "none"
EntriesDistinct ==
  \A t \in Tabs :
    /\ \A r \in idMap[t] : r.lid < nextLid[t]
    /\ \A r, s \in idMap[t] : r.lid = s.lid => r = s
\* A job under the id lid for request q, with the maps and ids as given.
JobSound(t, lid, q) ==
  /\ lid < nextLid[t]
  /\ Issued(outcome, q)
  /\ \A r \in idMap[t] : r.lid = lid => q = <<r.client, r.id>>
JobsSound == \A t \in Tabs : \A j \in jobs[t] : JobSound(t, j.lid, j.of)
RepliesSound ==
  \A t \in Tabs : \A k \in DOMAIN replies[t] :
    /\ JobSound(t, replies[t][k].job.lid, replies[t][k].job.of)
    /\ ran[replies[t][k].job.of] # <<>>

BridgeInv == EntriesDistinct /\ JobsSound /\ RepliesSound
DeliveryInv == inbox \in SoundBoxes(outcome, ran) /\ InFlightIssued /\ BridgeInv

-----------------------------------------------------------------------------
(* The operators on message queues keep them sound.                        *)

\* A message that carries no request and no answer is sound anywhere.
LEMMA QuietSound ==
  ASSUME NEW m \in Message, m.kind \notin Envelopes, NEW oc, NEW rn
  PROVE  \A u : m \in SoundFor(u, oc, rn)
BY DEF SoundFor, Envelopes

LEMMA RequestSound ==
  ASSUME NEW l \in Nat, NEW c \in Tabs, NEW i \in Ids, NEW oc, NEW rn,
         i # CloseId => oc[c][i] # "none"
  PROVE  \A u : Request(l, c, i) \in SoundFor(u, oc, rn)
<1>1. Request(l, c, i) \in Message
  BY RequestType
<1>2. /\ Request(l, c, i).kind = "request" /\ Request(l, c, i).of = <<c, i>>
      /\ Request(l, c, i).client = c /\ Request(l, c, i).id = i
  BY DEF Request
<1>. HIDE DEF Request
<1>. QED BY <1>1, <1>2 DEF SoundFor, Issued

LEMMA AnswerSound ==
  ASSUME NEW kind \in {"response", "error"}, NEW l \in Nat, NEW c \in Tabs, NEW i \in Ids,
         NEW oc, NEW rn, kind = "response" /\ i # CloseId => rn[<<c, i>>] # <<>>
  PROVE  Answer(kind, l, c, i, <<c, i>>) \in SoundFor(c, oc, rn)
<1>. DEFINE m == Answer(kind, l, c, i, <<c, i>>)
<1>1. m \in Message
  BY AnswerType DEF Requests
<1>2. m.kind = kind /\ m.of = <<c, i>> /\ m.id = i
  BY DEF Answer
<1>. HIDE DEF m
<1>3. m \in SoundFor(c, oc, rn)
  BY <1>1, <1>2 DEF SoundFor
<1>. QED BY <1>3 DEF m

\* Later promises and runs leave what was sound sound.
LEMMA SoundGrows ==
  ASSUME NEW oc, NEW rn, NEW oc2, NEW rn2, NEW box \in SoundBoxes(oc, rn),
         \A q \in Requests : Issued(oc, q) => Issued(oc2, q),
         \A q \in Requests : rn[q] # <<>> => rn2[q] # <<>>
  PROVE  box \in SoundBoxes(oc2, rn2)
<1>1. ASSUME NEW u \in Tabs PROVE SoundFor(u, oc, rn) \subseteq SoundFor(u, oc2, rn2)
  <2>. SUFFICES ASSUME NEW m \in SoundFor(u, oc, rn) PROVE m \in SoundFor(u, oc2, rn2)
    OBVIOUS
  <2>1. m \in Message /\ (m.kind \in Envelopes => m.of \in Requests)
    BY MessageFields DEF SoundFor
  <2>. QED BY <2>1 DEF SoundFor, Envelopes
<1>2. \A u \in Tabs : box[u] \in Seq(SoundFor(u, oc2, rn2))
  BY <1>1 DEF SoundBoxes
<1>. QED BY <1>2 DEF SoundBoxes

LEMMA BroadcastSound ==
  ASSUME NEW oc, NEW rn, NEW box \in SoundBoxes(oc, rn), NEW t \in Tabs, NEW m \in Message,
         m.kind \notin Envelopes
  PROVE  Broadcast(box, t, m) \in SoundBoxes(oc, rn)
<1>1. Broadcast(box, t, m) \in Boxes
  BY BroadcastType DEF SoundBoxes
<1>2. \A u \in Tabs : m \in SoundFor(u, oc, rn)
  BY QuietSound
<1>3. \A u \in Tabs : Broadcast(box, t, m)[u] \in Seq(SoundFor(u, oc, rn))
  BY <1>2 DEF Broadcast, SoundBoxes
<1>. QED BY <1>1, <1>3 DEF SoundBoxes

LEMMA PostRequestsSound ==
  ASSUME NEW oc, NEW rn, NEW box \in SoundBoxes(oc, rn), NEW t \in Tabs, NEW l \in Nat,
         NEW ids \in Seq(Ids), \A k \in DOMAIN ids : ids[k] # CloseId => oc[t][ids[k]] # "none"
  PROVE  /\ PostRequests(box, t, l, ids) \in SoundBoxes(oc, rn)
         /\ \A u \in Tabs : [i \in DOMAIN ids |-> Request(l, t, ids[i])] \in Seq(SoundFor(u, oc, rn))
<1>1. PostRequests(box, t, l, ids) \in Boxes
  BY PostRequestsType DEF SoundBoxes
<1>2. \A u \in Tabs : [i \in DOMAIN ids |-> Request(l, t, ids[i])] \in Seq(SoundFor(u, oc, rn))
  <2>. SUFFICES ASSUME NEW u \in Tabs
                PROVE  [i \in DOMAIN ids |-> Request(l, t, ids[i])] \in Seq(SoundFor(u, oc, rn))
    OBVIOUS
  <2>1. \A i \in DOMAIN ids : Request(l, t, ids[i]) \in SoundFor(u, oc, rn)
    BY RequestSound
  <2>. QED BY <2>1
<1>3. \A u \in Tabs : PostRequests(box, t, l, ids)[u] \in Seq(SoundFor(u, oc, rn))
  BY <1>2 DEF PostRequests, SoundBoxes
<1>. QED BY <1>1, <1>2, <1>3 DEF SoundBoxes

LEMMA DropSound ==
  ASSUME NEW oc, NEW rn, NEW box \in SoundBoxes(oc, rn), NEW t \in Tabs, NEW C
  PROVE  DropAnswers(box, t) \in SoundBoxes(oc, rn) /\ DropRequests(box, t, C) \in SoundBoxes(oc, rn)
<1>1. DropAnswers(box, t) \in Boxes /\ DropRequests(box, t, C) \in Boxes
  BY DropAnswersType, DropRequestsType DEF SoundBoxes
<1>2. \A u \in Tabs : Dropped \in SoundFor(u, oc, rn)
  <2>1. Dropped.kind = "dropped"
    BY DEF Dropped, Discovery
  <2>. QED BY <2>1, DroppedType, QuietSound DEF Envelopes
<1>3. \A u \in Tabs : box[u] \in Seq(SoundFor(u, oc, rn)) /\ box \in [Tabs -> Seq(Message)]
  BY DEF SoundBoxes, Boxes
<1>4. \A u \in Tabs : DropAnswers(box, t)[u] \in Seq(SoundFor(u, oc, rn))
  BY <1>2, <1>3 DEF DropAnswers, Drop
<1>5. \A u \in Tabs : DropRequests(box, t, C)[u] \in Seq(SoundFor(u, oc, rn))
  BY <1>2, <1>3 DEF DropRequests, Drop
<1>. QED BY <1>1, <1>4, <1>5 DEF SoundBoxes

LEMMA ClearSound ==
  ASSUME NEW oc, NEW rn, NEW box \in SoundBoxes(oc, rn), NEW t \in Tabs
  PROVE  [box EXCEPT ![t] = <<>>] \in SoundBoxes(oc, rn)
<1>1. box \in [Tabs -> Seq(Message)] /\ \A u \in Tabs : box[u] \in Seq(SoundFor(u, oc, rn))
  BY DEF SoundBoxes, Boxes
<1>2. <<>> \in Seq(Message) /\ \A u \in Tabs : <<>> \in Seq(SoundFor(u, oc, rn))
  OBVIOUS
<1>3. \A u \in Tabs : [box EXCEPT ![t] = <<>>][u] = IF u = t THEN <<>> ELSE box[u]
  BY <1>1
<1>4. [box EXCEPT ![t] = <<>>] \in Boxes
  BY <1>1, <1>2 DEF Boxes
<1>5. \A u \in Tabs : [box EXCEPT ![t] = <<>>][u] \in Seq(SoundFor(u, oc, rn))
  BY <1>1, <1>2, <1>3
<1>. QED BY <1>4, <1>5 DEF SoundBoxes

\* The first task of a tab, and its queue without it.
LEMMA PopSound ==
  ASSUME inbox \in SoundBoxes(outcome, ran), NEW t \in Tabs, inbox[t] # <<>>
  PROVE  Pop(t) \in SoundBoxes(outcome, ran) /\ Head(inbox[t]) \in SoundFor(t, outcome, ran)
<1>1. inbox[t] \in Seq(SoundFor(t, outcome, ran)) /\ inbox \in [Tabs -> Seq(Message)]
  BY DEF SoundBoxes, Boxes
<1>2. /\ Head(inbox[t]) \in SoundFor(t, outcome, ran)
      /\ Tail(inbox[t]) \in Seq(SoundFor(t, outcome, ran)) /\ Tail(inbox[t]) \in Seq(Message)
  BY <1>1
<1>3. Pop(t) \in Boxes /\ \A u \in Tabs : Pop(t)[u] \in Seq(SoundFor(u, outcome, ran))
  BY <1>1, <1>2 DEF Pop, Boxes, SoundBoxes
<1>. QED BY <1>2, <1>3 DEF SoundBoxes

\* The errors of failPending name the requests they fail.
LEMMA FailPendingSound ==
  ASSUME TypeOK, inbox \in SoundBoxes(outcome, ran), NEW t \in Tabs, NEW l \in Nat
  PROVE  FailPending(t, l) \in SoundBoxes(outcome, ran)
<1>. DEFINE lids(c) == {r.lid : r \in {q \in idMap[t] : q.client = c}}
            entry(n) == CHOOSE r \in idMap[t] : r.lid = n
            error(c, n) == Answer("error", l, c, entry(n).id, <<c, entry(n).id>>)
            errors(c) == LET s == Sorted(lids(c)) IN [i \in DOMAIN s |-> error(c, s[i])]
            failed == [c \in Tabs |-> IF c \in bridges[t] /\ pair[c] = l
                                      THEN inbox[c] \o errors(c) ELSE inbox[c]]
            Sound(c) == SoundFor(c, outcome, ran)
<1>1. \A c \in Tabs : errors(c) \in Seq(Sound(c)) /\ errors(c) \in Seq(Message)
  <2>. SUFFICES ASSUME NEW c \in Tabs PROVE errors(c) \in Seq(Sound(c)) /\ errors(c) \in Seq(Message)
    OBVIOUS
  <2>. DEFINE mine == {q \in idMap[t] : q.client = c}
  <2>1. IsFiniteSet(mine)
    BY FS_Subset DEF TypeOK, LeaderType
  <2>2. IsFiniteSet(lids(c))
    <3>. DEFINE f == [r \in mine |-> r.lid]
    <3>1. f \in Surjection(mine, lids(c))
      BY DEF Surjection
    <3>. QED BY <2>1, <3>1, FS_Surjection
  <2>3. Sorted(lids(c)) \in Seq(lids(c))
    BY <2>2, SortedType
  <2>4. ASSUME NEW n \in lids(c)
        PROVE  error(c, n) \in Sound(c) /\ error(c, n) \in Message
    <3>1. entry(n) \in idMap[t]
      OBVIOUS
    <3>2. entry(n).id \in Ids
      BY <3>1 DEF TypeOK, LeaderType
    <3>. QED BY <3>2, AnswerSound, AnswerType DEF Requests
  <2>. DEFINE s == Sorted(lids(c))
  <2>5. errors(c) = [i \in DOMAIN s |-> error(c, s[i])]
    OBVIOUS
  <2>. HIDE DEF error, errors, lids, s, Sound
  <2>6. \A i \in DOMAIN s : error(c, s[i]) \in Sound(c) /\ error(c, s[i]) \in Message
    BY <2>3, <2>4 DEF s
  <2>. QED BY <2>3, <2>5, <2>6 DEF s
<1>2. failed \in SoundBoxes(outcome, ran)
  <2>. HIDE DEF errors
  <2>1. failed \in Boxes
    BY <1>1 DEF SoundBoxes, Boxes
  <2>2. \A c \in Tabs : inbox[c] \in Seq(Sound(c))
    BY DEF SoundBoxes
  <2>. HIDE DEF Sound
  <2>3. \A c \in Tabs : failed[c] \in Seq(Sound(c))
    BY <1>1, <2>2
  <2>. QED BY <2>1, <2>3 DEF SoundBoxes, Sound
<1>3. FailPending(t, l) = Broadcast(failed, t, Discovery("leader-failed", l, NoTab))
  BY DEF FailPending
<1>4. /\ Discovery("leader-failed", l, NoTab) \in Message
      /\ Discovery("leader-failed", l, NoTab).kind \notin Envelopes
  BY DiscoveryType DEF Announcements, Envelopes, Discovery
<1>. QED BY <1>2, <1>3, <1>4, BroadcastSound

-----------------------------------------------------------------------------
(* Promises and runs only move forward.                                    *)

PromisesKept == \A t \in Tabs, i \in Ids : outcome[t][i] # "none" => outcome'[t][i] # "none"
RunsKept == \A q \in Requests : ran[q] # <<>> => ran'[q] # <<>>

\* What a step does to the promises: a tab issues or refuses one request,
\* settles one, or gives up all its pending ones.
OutcomeStep ==
  \/ outcome' = outcome
  \/ \E t \in Tabs, i \in Ids : Send(t, i) \/ SendFailed(t, i)
  \/ \E t \in Tabs : Receive(t)
  \/ \E t \in Tabs : outcome' = RejectAll(t)
  \/ \E t \in Tabs : outcome' = [outcome EXCEPT ![t] =
                        [i \in Ids |-> IF @[i] = "pending" THEN "gone" ELSE @[i]]]

LEMMA OutcomeMoves == [Next]_vars => OutcomeStep
<1>1. ASSUME NEW t \in Tabs, Environment(t) PROVE OutcomeStep
  BY <1>1 DEF Environment, Open, Unload, WriterFailure, WriterFailureTerminal, LockRejected,
              RetryPair, callVars, OutcomeStep
<1>2. ASSUME NEW t \in Tabs, Task(t) PROVE OutcomeStep
  BY <1>2 DEF Task, Ignored, PairWithLeader, AcceptPair, PairAck, LeaderFailed, AnswerQuery,
              ForwardRequest, InterceptClose, callVars, OutcomeStep
<1>3. ASSUME NEW t \in Tabs, Terminate(t) PROVE OutcomeStep
  BY <1>3 DEF Terminate, OutcomeStep
<1>4. ASSUME NEW t \in Tabs, \/ GrantLock(t) \/ GrantAfterClose(t) \/ BecomeLeader(t)
                             \/ WriterRun(t) \/ ForwardReply(t)
      PROVE  outcome' = outcome
  BY <1>4 DEF GrantLock, GrantAfterClose, BecomeLeader, WriterRun, ForwardReply, callVars
<1>5. UNCHANGED vars => outcome' = outcome
  BY DEF vars, callVars
<1>. QED BY <1>1, <1>2, <1>3, <1>4, <1>5 DEF Next, OutcomeStep

LEMMA PromisesMonotone == TypeOK /\ OutcomeStep => PromisesKept
<1>. SUFFICES ASSUME TypeOK, OutcomeStep PROVE PromisesKept
  OBVIOUS
<1>0. outcome \in [Tabs -> [Ids -> {"none", "pending", "ok", "error", "gone"}]]
  BY DEF TypeOK, CallType
<1>1. ASSUME NEW t \in Tabs, NEW i \in Ids, Send(t, i) \/ SendFailed(t, i) PROVE PromisesKept
  BY <1>0, <1>1 DEF Send, SendFailed, PromisesKept
<1>2. ASSUME NEW t \in Tabs, Receive(t) PROVE PromisesKept
  BY <1>0, <1>2 DEF Receive, SettleAs, PromisesKept
<1>3. ASSUME NEW t \in Tabs, outcome' = RejectAll(t) PROVE PromisesKept
  BY <1>0, <1>3 DEF RejectAll, PromisesKept
<1>4. ASSUME NEW t \in Tabs,
             outcome' = [outcome EXCEPT ![t] =
                          [i \in Ids |-> IF @[i] = "pending" THEN "gone" ELSE @[i]]]
      PROVE  PromisesKept
  BY <1>0, <1>4 DEF PromisesKept
<1>. QED BY <1>1, <1>2, <1>3, <1>4 DEF OutcomeStep, PromisesKept

\* Only the worker runs requests.
LEMMA RanMoves == [Next]_vars => ran' = ran \/ \E t \in Tabs : WriterRun(t)
<1>1. ASSUME NEW t \in Tabs, Environment(t) PROVE ran' = ran
  BY <1>1 DEF Environment, Open, Send, SendFailed, Unload, WriterFailure, WriterFailureTerminal,
              LockRejected, RetryPair, workerVars
<1>2. ASSUME NEW t \in Tabs, Task(t) PROVE ran' = ran
  BY <1>2 DEF Task, Ignored, PairWithLeader, AcceptPair, PairAck, LeaderFailed, AnswerQuery,
              ForwardRequest, InterceptClose, Receive, workerVars
<1>3. ASSUME NEW t \in Tabs, \/ Terminate(t) \/ GrantLock(t) \/ GrantAfterClose(t)
                             \/ BecomeLeader(t) \/ ForwardReply(t)
      PROVE  ran' = ran
  BY <1>3 DEF Terminate, GrantLock, GrantAfterClose, BecomeLeader, ForwardReply, workerVars
<1>4. UNCHANGED vars => ran' = ran
  BY DEF vars, workerVars
<1>. QED BY <1>1, <1>2, <1>3, <1>4 DEF Next

LEMMA RunsMonotone == TypeOK /\ [Next]_vars => RunsKept
<1>. SUFFICES ASSUME TypeOK, NEW t \in Tabs, WriterRun(t) PROVE RunsKept
  BY RanMoves DEF RunsKept
<1>1. PICK j \in jobs[t] : ran' = [ran EXCEPT ![j.of] = Append(@, lead[t])]
  BY DEF WriterRun
<1>2. ran \in [Requests -> Seq(Nat)] /\ lead[t] \in Nat
  BY DEF TypeOK, WorkerType, LeaderType
<1>3. \A q \in Requests : ran'[q] = ran[q] \/ ran'[q] = Append(ran[q], lead[t])
  BY <1>1, <1>2
<1>4. \A q \in Requests : ran[q] \in Seq(Nat) /\ Append(ran[q], lead[t]) # <<>>
  BY <1>2
<1>. QED BY <1>3, <1>4 DEF RunsKept

LEMMA IssuedKept ==
  ASSUME PromisesKept, NEW q \in Requests, Issued(outcome, q)
  PROVE  Issued(outcome', q)
BY DEF PromisesKept, Issued, Requests

\* A step that posts nothing unsound to the queues as they were.
LEMMA SoundKept ==
  ASSUME PromisesKept, RunsKept, inbox' \in SoundBoxes(outcome, ran)
  PROVE  inbox' \in SoundBoxes(outcome', ran')
BY SoundGrows, IssuedKept DEF RunsKept

-----------------------------------------------------------------------------
(* The bridges' maps and the worker's queues.                              *)

\* The steps that add nothing to a bridge's map, to the jobs or the replies.
BridgesShrink ==
  \A t \in Tabs :
    /\ idMap'[t] \subseteq idMap[t]
    /\ nextLid'[t] = nextLid[t]
    /\ jobs'[t] \subseteq jobs[t]
    /\ \/ replies'[t] = replies[t]
       \/ replies'[t] = <<>>
       \/ replies[t] # <<>> /\ replies'[t] = Tail(replies[t])

StillSound(t, lid, q) ==
  /\ lid < nextLid'[t]
  /\ Issued(outcome', q)
  /\ \A r \in idMap'[t] : r.lid = lid => q = <<r.client, r.id>>

LEMMA JobKept ==
  ASSUME PromisesKept, NEW t \in Tabs, NEW lid, NEW q \in Requests, JobSound(t, lid, q),
         idMap'[t] \subseteq idMap[t], nextLid'[t] = nextLid[t]
  PROVE  StillSound(t, lid, q)
BY IssuedKept DEF JobSound, StillSound

LEMMA ShrinkKeepsBridges ==
  ASSUME TypeOK, BridgeInv, PromisesKept, RunsKept, BridgesShrink
  PROVE  BridgeInv'
<1>0. /\ jobs \in [Tabs -> SUBSET Jobs] /\ replies \in [Tabs -> Seq(Replies)]
      /\ \A j \in Jobs : j.of \in Requests
      /\ \A a \in Replies : a.job \in Jobs
  BY DEF TypeOK, WorkerType, Jobs, Replies
<1>1. EntriesDistinct'
  BY DEF BridgeInv, EntriesDistinct, BridgesShrink
<1>2. JobsSound'
  <2>. SUFFICES ASSUME NEW t \in Tabs, NEW j \in jobs'[t] PROVE StillSound(t, j.lid, j.of)
    BY DEF JobsSound, JobSound, StillSound
  <2>1. j \in jobs[t] /\ j.of \in Requests /\ JobSound(t, j.lid, j.of)
    BY <1>0 DEF BridgesShrink, BridgeInv, JobsSound
  <2>. QED BY <2>1, JobKept DEF BridgesShrink
<1>3. RepliesSound'
  <2>. SUFFICES ASSUME NEW t \in Tabs, NEW k \in DOMAIN replies'[t]
                PROVE  /\ StillSound(t, replies'[t][k].job.lid, replies'[t][k].job.of)
                       /\ ran'[replies'[t][k].job.of] # <<>>
    BY DEF RepliesSound, JobSound, StillSound
  <2>1. PICK n \in DOMAIN replies[t] : replies'[t][k] = replies[t][n]
    <3>0. replies[t] \in Seq(Replies)
      BY <1>0
    <3>1. CASE replies'[t] = replies[t]
      BY <3>1
    <3>2. CASE replies'[t] = <<>>
      BY <3>2
    <3>3. CASE replies[t] # <<>> /\ replies'[t] = Tail(replies[t])
      <4>1. k + 1 \in DOMAIN replies[t] /\ replies'[t][k] = replies[t][k + 1]
        BY <3>0, <3>3
      <4>. QED BY <4>1
    <3>. QED BY <3>1, <3>2, <3>3 DEF BridgesShrink
  <2>. DEFINE a == replies[t][n]
  <2>2. a \in Replies /\ JobSound(t, a.job.lid, a.job.of) /\ ran[a.job.of] # <<>>
    BY <1>0 DEF BridgeInv, RepliesSound
  <2>3. a.job.of \in Requests
    BY <1>0, <2>2
  <2>4. StillSound(t, a.job.lid, a.job.of)
    BY <2>2, <2>3, JobKept DEF BridgesShrink
  <2>. QED BY <2>1, <2>2, <2>3, <2>4 DEF RunsKept
<1>. QED BY <1>1, <1>2, <1>3 DEF BridgeInv

\* The steps that leave the leader's and the worker's variables alone.
LEMMA SameBridges == UNCHANGED <<idMap, nextLid, jobs, replies>> => BridgesShrink
BY DEF BridgesShrink

LEMMA GiveUpShrinks ==
  ASSUME TypeOK, NEW t \in Tabs, GiveUpLeadership(t), nextLid' = nextLid
  PROVE  BridgesShrink
BY DEF TypeOK, LeaderType, WorkerType, GiveUpLeadership, BridgesShrink

\* Everything but forwarding a request and running one.
LEMMA BridgeMoves ==
  ASSUME TypeOK, [Next]_vars
  PROVE  BridgesShrink \/ \E t \in Tabs : ForwardRequest(t) \/ WriterRun(t)
<1>0. /\ idMap \in [Tabs -> SUBSET [lid: Nat, client: Tabs, id: Ids]]
      /\ jobs \in [Tabs -> SUBSET Jobs] /\ replies \in [Tabs -> Seq(Replies)]
  BY DEF TypeOK, LeaderType, WorkerType
<1>1. ASSUME NEW t \in Tabs,
             Open(t) \/ (\E i \in Ids : Send(t, i) \/ SendFailed(t, i)) \/ RetryPair(t)
      PROVE  BridgesShrink
  BY <1>1, SameBridges DEF Open, Send, SendFailed, RetryPair, leaderVars, workerVars
<1>2. ASSUME NEW t \in Tabs, WriterFailure(t) \/ WriterFailureTerminal(t) \/ Terminate(t)
      PROVE  BridgesShrink
  <2>1. GiveUpLeadership(t) /\ nextLid' = nextLid
    BY <1>2 DEF WriterFailure, WriterFailureTerminal, Terminate, CloseTransport
  <2>. QED BY <2>1, GiveUpShrinks
<1>3. ASSUME NEW t \in Tabs, LockRejected(t) PROVE BridgesShrink
  <2>1. nextLid' = nextLid /\ (GiveUpLeadership(t) \/ UNCHANGED <<idMap, jobs, replies>>)
    BY <1>3 DEF LockRejected, CloseTransport
  <2>. QED BY <2>1, GiveUpShrinks, SameBridges
<1>4. ASSUME NEW t \in Tabs, Unload(t) PROVE BridgesShrink
  BY <1>0, <1>4 DEF Unload, BridgesShrink
<1>5. ASSUME NEW t \in Tabs,
             \/ Ignored(t) \/ PairWithLeader(t) \/ PairAck(t) \/ LeaderFailed(t)
             \/ AnswerQuery(t) \/ Receive(t)
      PROVE  BridgesShrink
  BY <1>5, SameBridges DEF Ignored, PairWithLeader, PairAck, LeaderFailed, AnswerQuery, Receive,
                           leaderVars, workerVars
<1>6. ASSUME NEW t \in Tabs, AcceptPair(t) \/ InterceptClose(t) PROVE BridgesShrink
  <2>1. UNCHANGED <<nextLid, jobs, replies>> /\ \E c : idMap' = [idMap EXCEPT ![t] = WithoutClient(@, c)]
    BY <1>6 DEF AcceptPair, InterceptClose, workerVars
  <2>. QED BY <1>0, <2>1 DEF WithoutClient, BridgesShrink
<1>7. ASSUME NEW t \in Tabs, GrantLock(t) \/ GrantAfterClose(t) \/ BecomeLeader(t)
      PROVE  BridgesShrink
  BY <1>0, <1>7 DEF GrantLock, GrantAfterClose, BecomeLeader, leaderVars, workerVars, BridgesShrink
<1>8. ASSUME NEW t \in Tabs, ForwardReply(t) PROVE BridgesShrink
  BY <1>0, <1>8 DEF ForwardReply, BridgesShrink
<1>9. UNCHANGED vars => BridgesShrink
  BY SameBridges DEF vars, leaderVars, workerVars
<1>. QED BY <1>1, <1>2, <1>3, <1>4, <1>5, <1>6, <1>7, <1>8, <1>9 DEF Next, Environment, Task

\* A forwarded request gets an id no entry, job or reply of the leader has.
LEMMA ForwardRequestBridges ==
  ASSUME TypeOK, DeliveryInv, NEW t \in Tabs, ForwardRequest(t), PromisesKept, RunsKept
  PROVE  BridgeInv'
<1>. DEFINE m == Head(inbox[t])
            lid == nextLid[t]
            r0 == [lid |-> lid, client |-> m.client, id |-> m.id]
            j0 == [lid |-> lid, of |-> m.of]
<1>0. /\ idMap \in [Tabs -> SUBSET [lid: Nat, client: Tabs, id: Ids]]
      /\ jobs \in [Tabs -> SUBSET Jobs] /\ replies \in [Tabs -> Seq(Replies)]
      /\ nextLid \in [Tabs -> Nat]
      /\ \A j \in Jobs : j.of \in Requests /\ j.lid \in Nat
      /\ \A a \in Replies : a.job \in Jobs
  BY DEF TypeOK, LeaderType, WorkerType, Jobs, Replies
<1>1. /\ idMap' = [idMap EXCEPT ![t] = @ \cup {r0}]
      /\ jobs' = [jobs EXCEPT ![t] = @ \cup {j0}]
      /\ nextLid' = [nextLid EXCEPT ![t] = @ + 1]
      /\ replies' = replies
      /\ inbox[t] # <<>> /\ m.kind = "request" /\ m.id # CloseId
  BY DEF ForwardRequest, AllocateLeaderId, Handles
<1>2. m.of = <<m.client, m.id>> /\ Issued(outcome, m.of) /\ m.of \in Requests
  <2>1. m \in SoundFor(t, outcome, ran)
    BY <1>1, PopSound DEF DeliveryInv
  <2>2. m \in Message
    BY <2>1 DEF SoundFor
  <2>. QED BY <1>1, <2>1, <2>2, MessageFields DEF SoundFor, Envelopes
<1>3. Issued(outcome', m.of)
  BY <1>2, IssuedKept
<1>4. r0.lid = lid /\ r0.client = m.client /\ r0.id = m.id /\ j0.lid = lid /\ j0.of = m.of
  OBVIOUS
<1>5. /\ idMap'[t] = idMap[t] \cup {r0} /\ jobs'[t] = jobs[t] \cup {j0}
      /\ nextLid'[t] = lid + 1 /\ lid \in Nat
      /\ \A u \in Tabs : u # t => idMap'[u] = idMap[u] /\ jobs'[u] = jobs[u] /\ nextLid'[u] = nextLid[u]
  BY <1>0, <1>1
<1>. HIDE DEF m, lid, r0, j0
<1>6. /\ \A r \in idMap[t] : r.lid < lid /\ r.lid \in Nat
      /\ \A r, s \in idMap[t] : r.lid = s.lid => r = s
  BY <1>0 DEF DeliveryInv, BridgeInv, EntriesDistinct, lid
<1>7. EntriesDistinct'
  <2>1. ASSUME NEW u \in Tabs
        PROVE  /\ \A r \in idMap'[u] : r.lid < nextLid'[u]
               /\ \A r, s \in idMap'[u] : r.lid = s.lid => r = s
    <3>1. CASE u = t
      BY <1>4, <1>5, <1>6, <3>1
    <3>2. CASE u # t
      BY <1>5, <3>2 DEF DeliveryInv, BridgeInv, EntriesDistinct
    <3>. QED BY <3>1, <3>2
  <2>. QED BY <2>1 DEF EntriesDistinct
<1>8. ASSUME NEW u \in Tabs, NEW n \in Nat, NEW q \in Requests, JobSound(u, n, q)
      PROVE  StillSound(u, n, q)
  <2>1. Issued(outcome', q)
    BY <1>8, IssuedKept DEF JobSound
  <2>2. CASE u = t
    <3>1. n < lid
      BY <1>8, <2>2 DEF JobSound, lid
    <3>2. n < nextLid'[u] /\ n # r0.lid
      BY <1>4, <1>5, <2>2, <3>1
    <3>3. \A r \in idMap'[u] : r.lid = n => q = <<r.client, r.id>>
      BY <1>5, <1>8, <2>2, <3>2 DEF JobSound
    <3>. QED BY <2>1, <3>2, <3>3 DEF StillSound
  <2>3. CASE u # t
    BY <1>5, <1>8, <2>1, <2>3 DEF JobSound, StillSound
  <2>. QED BY <2>2, <2>3
<1>9. StillSound(t, lid, m.of)
  <2>1. lid < nextLid'[t]
    BY <1>5
  <2>2. \A r \in idMap'[t] : r.lid = lid => m.of = <<r.client, r.id>>
    <3>. SUFFICES ASSUME NEW r \in idMap'[t], r.lid = lid PROVE m.of = <<r.client, r.id>>
      OBVIOUS
    <3>1. r = r0
      BY <1>5, <1>6
    <3>. QED BY <1>2, <1>4, <3>1
  <2>. QED BY <1>3, <2>1, <2>2 DEF StillSound
<1>10. JobsSound'
  <2>. SUFFICES ASSUME NEW u \in Tabs, NEW j \in jobs'[u] PROVE StillSound(u, j.lid, j.of)
    BY DEF JobsSound, JobSound, StillSound
  <2>1. CASE j \in jobs[u]
    <3>1. j.of \in Requests /\ j.lid \in Nat /\ JobSound(u, j.lid, j.of)
      BY <1>0, <2>1 DEF DeliveryInv, BridgeInv, JobsSound
    <3>. QED BY <1>8, <3>1
  <2>2. CASE j \notin jobs[u]
    <3>1. u = t /\ j = j0
      BY <1>5, <2>2
    <3>. QED BY <1>4, <1>9, <3>1
  <2>. QED BY <2>1, <2>2
<1>11. RepliesSound'
  <2>. SUFFICES ASSUME NEW u \in Tabs, NEW k \in DOMAIN replies[u]
                PROVE  /\ StillSound(u, replies[u][k].job.lid, replies[u][k].job.of)
                       /\ ran'[replies[u][k].job.of] # <<>>
    BY <1>1 DEF RepliesSound, JobSound, StillSound
  <2>. DEFINE a == replies[u][k]
  <2>1. a \in Replies /\ JobSound(u, a.job.lid, a.job.of) /\ ran[a.job.of] # <<>>
    BY <1>0 DEF DeliveryInv, BridgeInv, RepliesSound
  <2>2. a.job.of \in Requests /\ a.job.lid \in Nat
    BY <1>0, <2>1
  <2>. QED BY <1>8, <2>1, <2>2 DEF RunsKept
<1>. QED BY <1>7, <1>10, <1>11 DEF BridgeInv

LEMMA AppendNotEmpty == \A s \in Seq(Nat), n \in Nat : Append(s, n) # <<>>
OBVIOUS

LEMMA WriterRunBridges ==
  ASSUME TypeOK, BridgeInv, NEW t \in Tabs, WriterRun(t), PromisesKept, RunsKept
  PROVE  BridgeInv'
<1>1. PICK j \in jobs[t], kind \in {"response", "error"} :
        /\ jobs' = [jobs EXCEPT ![t] = @ \ {j}]
        /\ replies' = [replies EXCEPT ![t] = Append(@, [job |-> j, kind |-> kind])]
        /\ ran' = [ran EXCEPT ![j.of] = Append(@, lead[t])]
  BY DEF WriterRun
<1>. DEFINE a0 == [job |-> j, kind |-> kind]
<1>2. /\ jobs \in [Tabs -> SUBSET Jobs] /\ replies \in [Tabs -> Seq(Replies)]
      /\ \A x \in Jobs : x.of \in Requests
      /\ \A a \in Replies : a.job \in Jobs
      /\ ran \in [Requests -> Seq(Nat)] /\ lead[t] \in Nat
  BY DEF TypeOK, LeaderType, WorkerType, Jobs, Replies
<1>3. a0.job = j /\ a0 \in Replies /\ j.of \in Requests
  BY <1>2 DEF Replies
<1>4. UNCHANGED <<idMap, nextLid, outcome>>
  BY DEF WriterRun, leaderVars, callVars
<1>5. \A u \in Tabs : \A lid, q : JobSound(u, lid, q) => StillSound(u, lid, q)
  BY <1>4 DEF JobSound, StillSound
<1>6. ran'[j.of] # <<>>
  <2>0. ran \in [Requests -> Seq(Nat)] /\ j.of \in Requests
    BY <1>2, <1>3
  <2>1. ran'[j.of] = Append(ran[j.of], lead[t])
    <3>. DEFINE q == j.of
    <3>1. q \in DOMAIN ran /\ ran' = [ran EXCEPT ![q] = Append(@, lead[t])]
      BY <1>1, <2>0
    <3>. HIDE DEF q
    <3>2. ran'[q] = Append(ran[q], lead[t])
      BY <3>1
    <3>. QED BY <3>2 DEF q
  <2>2. ran[j.of] \in Seq(Nat)
    BY <2>0
  <2>3. lead[t] \in Nat
    BY <1>2
  <2>. QED BY <2>1, <2>2, <2>3, AppendNotEmpty
<1>7. JobsSound'
  <2>1. \A u \in Tabs : jobs'[u] \subseteq jobs[u]
    BY <1>1, <1>2
  <2>2. \A u \in Tabs : \A x \in jobs'[u] : StillSound(u, x.lid, x.of)
    BY <1>5, <2>1 DEF BridgeInv, JobsSound
  <2>. QED BY <2>2 DEF JobsSound, JobSound, StillSound
<1>8. RepliesSound'
  <2>. SUFFICES ASSUME NEW u \in Tabs, NEW k \in DOMAIN replies'[u]
                PROVE  /\ StillSound(u, replies'[u][k].job.lid, replies'[u][k].job.of)
                       /\ ran'[replies'[u][k].job.of] # <<>>
    BY DEF RepliesSound, JobSound, StillSound
  <2>. HIDE DEF a0
  <2>1. \/ k \in DOMAIN replies[u] /\ replies'[u][k] = replies[u][k]
        \/ u = t /\ replies'[u][k] = a0
    BY <1>1, <1>2, <1>3 DEF a0
  <2>2. CASE k \in DOMAIN replies[u] /\ replies'[u][k] = replies[u][k]
    <3>1. replies[u][k] \in Replies
      BY <1>2, <2>2
    <3>2. replies[u][k].job.of \in Requests
      BY <1>2, <3>1
    <3>. QED BY <1>5, <2>2, <3>2 DEF BridgeInv, RepliesSound, RunsKept
  <2>3. CASE u = t /\ replies'[u][k] = a0
    BY <1>3, <1>5, <1>6, <2>3 DEF BridgeInv, JobsSound
  <2>. QED BY <2>1, <2>2, <2>3
<1>. QED BY <1>4, <1>7, <1>8 DEF BridgeInv, EntriesDistinct

-----------------------------------------------------------------------------
(* The queues, action by action.                                           *)

LEMMA DiscoveryQuiet ==
  ASSUME NEW l \in Nat
  PROVE  /\ \A kind \in {"leader-elected", "leader-failed", "leader-query"} :
              Discovery(kind, l, NoTab) \in Message /\ Discovery(kind, l, NoTab).kind \notin Envelopes
         /\ \A kind \in Handshakes, c \in Tabs :
              Discovery(kind, l, c) \in Message /\ Discovery(kind, l, c).kind \notin Envelopes
<1>1. \A kind, c : Discovery(kind, l, c).kind = kind
  BY DEF Discovery
<1>2. \A kind \in {"leader-elected", "leader-failed", "leader-query"} :
        kind \in Announcements /\ kind \notin Envelopes
  BY DEF Announcements, Envelopes
<1>3. \A kind \in Handshakes : kind \notin Envelopes
  BY DEF Handshakes, Envelopes
<1>. QED BY <1>1, <1>2, <1>3, DiscoveryType

\* What is replayed to a new leader has been issued.
LEMMA ReplayedIssued ==
  ASSUME TypeOK, InFlightIssued, NEW t \in Tabs
  PROVE  /\ Replayed(t) \in Seq(Ids)
         /\ \A k \in DOMAIN Replayed(t) : outcome[t][Replayed(t)[k]] # "none"
<1>1. IsFiniteSet(Ids)
  BY FS_Interval, BoundsAssumption DEF Ids
<1>2. inFlight[t] \subseteq Ids
  BY DEF TypeOK, CallType
<1>3. IsFiniteSet(inFlight[t])
  BY <1>1, <1>2, FS_Subset
<1>4. Sorted(inFlight[t]) \in Seq(inFlight[t])
  BY <1>3, SortedType
<1>. QED BY <1>2, <1>4 DEF Replayed, InFlightIssued

LEMMA EnvironmentSound ==
  ASSUME TypeOK, inbox \in SoundBoxes(outcome, ran), NEW t \in Tabs, Environment(t),
         ~\E i \in Ids : Send(t, i)
  PROVE  inbox' \in SoundBoxes(outcome, ran)
<1>0. 0 \in Nat /\ lead[t] \in Nat /\ await[t] \in Nat
  BY DEF TypeOK, LeaderType, PairType
<1>1. CASE Open(t)
  BY <1>0, <1>1, DiscoveryQuiet, BroadcastSound DEF Open
<1>2. CASE \E i \in Ids : SendFailed(t, i)
  BY <1>2 DEF SendFailed
<1>3. CASE Unload(t)
  BY <1>3, ClearSound DEF Unload
<1>4. CASE WriterFailure(t)
  BY <1>0, <1>4, FailPendingSound, DropSound DEF WriterFailure
<1>5. CASE WriterFailureTerminal(t)
  BY <1>0, <1>5, FailPendingSound, ClearSound DEF WriterFailureTerminal
<1>6. CASE LockRejected(t)
  BY <1>6, ClearSound DEF LockRejected, CloseTransport
<1>7. CASE RetryPair(t)
  BY <1>0, <1>7, DiscoveryQuiet, BroadcastSound DEF RetryPair, Handshakes
<1>. QED BY <1>1, <1>2, <1>3, <1>4, <1>5, <1>6, <1>7 DEF Environment

\* A new request is posted as its promise becomes pending.
LEMMA SendSound ==
  ASSUME TypeOK, inbox \in SoundBoxes(outcome, ran), PromisesKept, RunsKept,
         NEW t \in Tabs, NEW i \in Ids, Send(t, i)
  PROVE  inbox' \in SoundBoxes(outcome', ran')
<1>1. inbox \in SoundBoxes(outcome', ran')
  BY SoundGrows, IssuedKept DEF RunsKept
<1>2. outcome'[t][i] = "pending" /\ pair[t] \in Nat
  BY DEF TypeOK, CallType, PairType, Send
<1>3. <<i>> \in Seq(Ids) /\ \A k \in DOMAIN <<i>> : <<i>>[k] = i
  OBVIOUS
<1>4. PostRequests(inbox, t, pair[t], <<i>>) \in SoundBoxes(outcome', ran')
  BY <1>1, <1>2, <1>3, PostRequestsSound
<1>. QED BY <1>1, <1>4 DEF Send

LEMMA TerminateSound ==
  ASSUME TypeOK, inbox \in SoundBoxes(outcome, ran), NEW t \in Tabs, Terminate(t)
  PROVE  inbox' \in SoundBoxes(outcome, ran)
<1>1. pair[t] \in Nat /\ CloseId \in Ids
  BY BoundsAssumption DEF TypeOK, PairType, CloseId, Ids
<1>2. <<CloseId>> \in Seq(Ids) /\ \A k \in DOMAIN <<CloseId>> : <<CloseId>>[k] = CloseId
  BY <1>1
<1>3. PostRequests(inbox, t, pair[t], <<CloseId>>) \in SoundBoxes(outcome, ran)
  BY <1>1, <1>2, PostRequestsSound
<1>. QED BY <1>3, ClearSound DEF Terminate, CloseTransport

LEMMA BecomeLeaderSound ==
  ASSUME TypeOK, inbox \in SoundBoxes(outcome, ran), InFlightIssued, NEW t \in Tabs, BecomeLeader(t)
  PROVE  inbox' \in SoundBoxes(outcome, ran)
<1>. DEFINE l == epoch + 1
            replay == [i \in DOMAIN Replayed(t) |-> Request(l, t, Replayed(t)[i])]
            detached == DropAnswers(inbox, t)
            self == [detached EXCEPT ![t] = @ \o replay]
<1>0. l \in Nat /\ detached \in SoundBoxes(outcome, ran)
  BY DropSound DEF TypeOK, LockType
<1>1. inbox' = Broadcast(self, t, Discovery("leader-elected", l, NoTab))
  BY DEF BecomeLeader
<1>2. \A u \in Tabs : replay \in Seq(SoundFor(u, outcome, ran))
  BY <1>0, ReplayedIssued, PostRequestsSound
<1>3. replay \in Seq(Message)
  <2>1. \A i \in DOMAIN Replayed(t) : Request(l, t, Replayed(t)[i]) \in Message
    BY <1>0, ReplayedIssued, RequestType
  <2>2. Replayed(t) \in Seq(Ids)
    BY ReplayedIssued
  <2>. QED BY <2>1, <2>2
<1>. HIDE DEF replay, detached, l
<1>4. /\ detached \in [Tabs -> Seq(Message)]
      /\ \A u \in Tabs : detached[u] \in Seq(SoundFor(u, outcome, ran))
  BY <1>0 DEF SoundBoxes, Boxes
<1>5. \A u \in Tabs : self[u] = IF u = t THEN detached[t] \o replay ELSE detached[u]
  BY <1>4
<1>6. self \in [Tabs -> Seq(Message)]
  BY <1>3, <1>4
<1>7. \A u \in Tabs : self[u] \in Seq(SoundFor(u, outcome, ran))
  <2>. SUFFICES ASSUME NEW u \in Tabs PROVE self[u] \in Seq(SoundFor(u, outcome, ran))
    OBVIOUS
  <2>. DEFINE S == SoundFor(u, outcome, ran)
  <2>1. detached[u] \in Seq(S) /\ replay \in Seq(S)
    BY <1>2, <1>4
  <2>2. self[u] = detached[u] \o replay \/ self[u] = detached[u]
    BY <1>5
  <2>. HIDE DEF S, self
  <2>3. detached[u] \o replay \in Seq(S)
    BY <2>1
  <2>4. self[u] \in Seq(S)
    BY <2>1, <2>2, <2>3
  <2>. QED BY <2>4 DEF S
<1>8. self \in SoundBoxes(outcome, ran)
  BY <1>6, <1>7 DEF SoundBoxes, Boxes
<1>. QED BY <1>0, <1>1, <1>8, DiscoveryQuiet, BroadcastSound

LEMMA HandlersSound ==
  ASSUME TypeOK, inbox \in SoundBoxes(outcome, ran), InFlightIssued, NEW t \in Tabs,
         \/ Ignored(t) \/ PairWithLeader(t) \/ AcceptPair(t) \/ PairAck(t) \/ LeaderFailed(t)
         \/ AnswerQuery(t) \/ ForwardRequest(t) \/ Receive(t)
  PROVE  inbox' \in SoundBoxes(outcome, ran)
<1>0. inbox[t] # <<>>
  BY DEF Ignored, PairWithLeader, AcceptPair, PairAck, LeaderFailed, AnswerQuery, ForwardRequest,
         Receive, Handles
<1>1. Pop(t) \in SoundBoxes(outcome, ran)
  BY <1>0, PopSound
<1>2. /\ Head(inbox[t]) \in Message /\ Head(inbox[t]).leader \in Nat
      /\ Head(inbox[t]).kind \in Handshakes => Head(inbox[t]).client \in Tabs
      /\ lead[t] \in Nat /\ pair[t] \in Nat
  BY <1>0, PopType, MessageFields DEF TypeOK, LeaderType, PairType
<1>3. CASE Ignored(t) \/ ForwardRequest(t) \/ Receive(t)
  BY <1>1, <1>3 DEF Ignored, ForwardRequest, Receive
<1>4. CASE PairWithLeader(t)
  BY <1>1, <1>2, <1>4, DropSound, DiscoveryQuiet, BroadcastSound DEF PairWithLeader, Handshakes
<1>5. CASE AcceptPair(t)
  <2>. DEFINE c == Head(inbox[t]).client
  <2>1. c \in Tabs /\ inbox' = Broadcast(DropRequests(Pop(t), t, {c}), t, Discovery("pair-ack", lead[t], c))
    BY <1>2, <1>5 DEF AcceptPair, Handles, Handshakes
  <2>. QED BY <1>1, <1>2, <2>1, DropSound, DiscoveryQuiet, BroadcastSound DEF Handshakes
<1>6. CASE PairAck(t)
  <2>1. PostRequests(Pop(t), t, pair[t], Replayed(t)) \in SoundBoxes(outcome, ran)
    BY <1>1, <1>2, ReplayedIssued, PostRequestsSound
  <2>. QED BY <1>6, <2>1 DEF PairAck
<1>7. CASE LeaderFailed(t)
  BY <1>1, <1>7, DropSound DEF LeaderFailed
<1>8. CASE AnswerQuery(t)
  BY <1>1, <1>2, <1>8, DiscoveryQuiet, BroadcastSound DEF AnswerQuery
<1>. QED BY <1>3, <1>4, <1>5, <1>6, <1>7, <1>8

LEMMA InterceptCloseSound ==
  ASSUME TypeOK, inbox \in SoundBoxes(outcome, ran), NEW t \in Tabs, InterceptClose(t)
  PROVE  inbox' \in SoundBoxes(outcome, ran)
<1>. DEFINE c == Head(inbox[t]).client
            a == Answer("response", lead[t], c, CloseId, <<c, CloseId>>)
            answered == [u \in Tabs |-> IF u = c /\ pair[c] = lead[t]
                                        THEN Append(Pop(t)[u], a) ELSE Pop(t)[u]]
<1>1. inbox[t] # <<>> /\ Head(inbox[t]).kind = "request" /\ inbox' = DropRequests(answered, t, {c})
  BY DEF InterceptClose, Handles
<1>2. Pop(t) \in SoundBoxes(outcome, ran) /\ c \in Tabs
  BY <1>1, PopSound, PopType, MessageFields DEF Envelopes
<1>3. a \in SoundFor(c, outcome, ran)
  <2>1. CloseId \in Ids /\ lead[t] \in Nat
    BY BoundsAssumption DEF CloseId, Ids, TypeOK, LeaderType
  <2>. QED BY <1>2, <2>1, AnswerSound
<1>. HIDE DEF a, c
<1>4. answered \in SoundBoxes(outcome, ran)
  <2>1. Pop(t) \in [Tabs -> Seq(Message)] /\ \A u \in Tabs : Pop(t)[u] \in Seq(SoundFor(u, outcome, ran))
    BY <1>2 DEF SoundBoxes, Boxes
  <2>2. a \in Message
    BY <1>3 DEF SoundFor
  <2>3. answered \in Boxes
    BY <2>1, <2>2 DEF Boxes
  <2>4. \A u \in Tabs : answered[u] \in Seq(SoundFor(u, outcome, ran))
    BY <1>3, <2>1
  <2>. QED BY <2>3, <2>4 DEF SoundBoxes
<1>. QED BY <1>1, <1>4, DropSound

\* The worker's reply goes to the client and the request of the one entry
\* that has its id.
LEMMA ForwardReplySound ==
  ASSUME TypeOK, DeliveryInv, NEW t \in Tabs, ForwardReply(t)
  PROVE  inbox' \in SoundBoxes(outcome, ran)
<1>. DEFINE e == Head(replies[t])
            mine == {r \in idMap[t] : r.lid = e.job.lid}
            a(c) == Answer(e.kind, lead[t], c, (CHOOSE r \in mine : r.client = c).id, e.job.of)
            P(c) == pair[c] = lead[t] /\ \E r \in mine : r.client = c
<1>1. replies[t] # <<>> /\ inbox' = [c \in Tabs |-> IF P(c) THEN Append(inbox[c], a(c)) ELSE inbox[c]]
  BY DEF ForwardReply
<1>2. replies[t] \in Seq(Replies)
  BY DEF TypeOK, WorkerType
<1>3. e \in Replies /\ 1 \in DOMAIN replies[t] /\ e = replies[t][1]
  BY <1>1, <1>2
<1>4. e.job.of \in Requests /\ e.kind \in {"response", "error"}
  BY <1>3 DEF Replies, Jobs
<1>5. JobSound(t, e.job.lid, e.job.of) /\ ran[e.job.of] # <<>>
  BY <1>3 DEF DeliveryInv, BridgeInv, RepliesSound
<1>6. ASSUME NEW c \in Tabs, P(c) PROVE a(c) \in SoundFor(c, outcome, ran)
  <2>. DEFINE r == CHOOSE r \in mine : r.client = c
  <2>1. r \in mine /\ r.client = c
    BY <1>6
  <2>2. r \in idMap[t] /\ r.lid = e.job.lid
    BY <2>1
  <2>3. e.job.of = <<c, r.id>>
    BY <1>5, <2>1, <2>2 DEF JobSound
  <2>4. r.id \in Ids /\ lead[t] \in Nat
    BY <2>2 DEF TypeOK, LeaderType
  <2>5. a(c) = Answer(e.kind, lead[t], c, r.id, <<c, r.id>>)
    BY <2>3
  <2>. HIDE DEF r, a, e
  <2>. QED BY <1>4, <1>5, <2>3, <2>4, <2>5, AnswerSound
<1>. HIDE DEF P, a
<1>7. inbox \in [Tabs -> Seq(Message)] /\ \A c \in Tabs : inbox[c] \in Seq(SoundFor(c, outcome, ran))
  BY DEF DeliveryInv, SoundBoxes, Boxes
<1>8. \A c \in Tabs : P(c) => a(c) \in Message
  BY <1>6 DEF SoundFor
<1>9. inbox' \in Boxes
  BY <1>1, <1>7, <1>8 DEF Boxes
<1>10. \A c \in Tabs : inbox'[c] \in Seq(SoundFor(c, outcome, ran))
  BY <1>1, <1>6, <1>7
<1>. QED BY <1>9, <1>10 DEF SoundBoxes

-----------------------------------------------------------------------------
\* Only requests that are issued are in flight.
LEMMA InFlightStep ==
  ASSUME TypeOK, InFlightIssued, PromisesKept, [Next]_vars
  PROVE  InFlightIssued'
<1>0. /\ inFlight \in [Tabs -> SUBSET Ids]
      /\ outcome \in [Tabs -> [Ids -> {"none", "pending", "ok", "error", "gone"}]]
  BY DEF TypeOK, CallType
<1>1. (\A u \in Tabs : inFlight'[u] \subseteq inFlight[u]) => InFlightIssued'
  BY <1>0 DEF InFlightIssued, PromisesKept
<1>2. ASSUME NEW t \in Tabs, NEW i \in Ids, Send(t, i) PROVE InFlightIssued'
  <2>1. /\ inFlight' = [inFlight EXCEPT ![t] = @ \cup {i}]
        /\ outcome'[t][i] = "pending"
    BY <1>0, <1>2 DEF Send
  <2>. QED BY <1>0, <2>1 DEF InFlightIssued, PromisesKept
<1>3. ASSUME NEW t \in Tabs, Environment(t), ~\E i \in Ids : Send(t, i)
      PROVE  \A u \in Tabs : inFlight'[u] \subseteq inFlight[u]
  BY <1>0, <1>3 DEF Environment, Open, SendFailed, Unload, WriterFailure, WriterFailureTerminal,
                    LockRejected, CloseTransport, RetryPair, callVars
<1>4. ASSUME NEW t \in Tabs, Task(t) PROVE \A u \in Tabs : inFlight'[u] \subseteq inFlight[u]
  BY <1>0, <1>4 DEF Task, Ignored, PairWithLeader, AcceptPair, PairAck, LeaderFailed, AnswerQuery,
                    ForwardRequest, InterceptClose, Receive, callVars
<1>5. ASSUME NEW t \in Tabs, \/ Terminate(t) \/ GrantLock(t) \/ GrantAfterClose(t)
                             \/ BecomeLeader(t) \/ WriterRun(t) \/ ForwardReply(t)
      PROVE  \A u \in Tabs : inFlight'[u] \subseteq inFlight[u]
  BY <1>0, <1>5 DEF Terminate, CloseTransport, GrantLock, GrantAfterClose, BecomeLeader, WriterRun,
                    ForwardReply, callVars
<1>6. UNCHANGED vars => inFlight' = inFlight
  BY DEF vars, callVars
<1>. QED BY <1>1, <1>2, <1>3, <1>4, <1>5, <1>6 DEF Next

LEMMA InboxStep ==
  ASSUME TypeOK, DeliveryInv, PromisesKept, RunsKept, [Next]_vars
  PROVE  inbox' \in SoundBoxes(outcome', ran')
<1>0. inbox \in SoundBoxes(outcome, ran) /\ InFlightIssued
  BY DEF DeliveryInv
<1>1. ASSUME NEW t \in Tabs, Environment(t), ~\E i \in Ids : Send(t, i)
      PROVE  inbox' \in SoundBoxes(outcome, ran)
  BY <1>0, <1>1, EnvironmentSound
<1>2. ASSUME NEW t \in Tabs, NEW i \in Ids, Send(t, i)
      PROVE  inbox' \in SoundBoxes(outcome', ran')
  BY <1>0, <1>2, SendSound
<1>3. ASSUME NEW t \in Tabs, Task(t) PROVE inbox' \in SoundBoxes(outcome, ran)
  BY <1>0, <1>3, HandlersSound, InterceptCloseSound DEF Task
<1>4. ASSUME NEW t \in Tabs, Terminate(t) \/ BecomeLeader(t) \/ ForwardReply(t)
      PROVE  inbox' \in SoundBoxes(outcome, ran)
  BY <1>0, <1>4, TerminateSound, BecomeLeaderSound, ForwardReplySound
<1>5. ASSUME NEW t \in Tabs, GrantLock(t) \/ GrantAfterClose(t) \/ WriterRun(t)
      PROVE  inbox' \in SoundBoxes(outcome, ran)
  BY <1>0, <1>5 DEF GrantLock, GrantAfterClose, WriterRun
<1>6. UNCHANGED vars => inbox' \in SoundBoxes(outcome, ran)
  BY <1>0 DEF vars
<1>. QED BY <1>1, <1>2, <1>3, <1>4, <1>5, <1>6, SoundKept DEF Next

LEMMA InitDelivery == Init => DeliveryInv
<1>. SUFFICES ASSUME Init PROVE DeliveryInv
  OBVIOUS
<1>1. inbox = [t \in Tabs |-> <<>>]
  BY DEF Init
<1>2. inbox \in SoundBoxes(outcome, ran)
  <2>1. <<>> \in Seq(Message) /\ \A u \in Tabs : <<>> \in Seq(SoundFor(u, outcome, ran))
    OBVIOUS
  <2>2. inbox \in Boxes
    BY <1>1, <2>1 DEF Boxes
  <2>3. \A u \in Tabs : inbox[u] \in Seq(SoundFor(u, outcome, ran))
    BY <1>1, <2>1
  <2>. QED BY <2>2, <2>3 DEF SoundBoxes
<1>3. InFlightIssued /\ EntriesDistinct /\ JobsSound /\ RepliesSound
  BY DEF Init, InFlightIssued, EntriesDistinct, JobsSound, RepliesSound
<1>. QED BY <1>2, <1>3 DEF DeliveryInv, BridgeInv

LEMMA StepDelivery == TypeOK /\ DeliveryInv /\ [Next]_vars => DeliveryInv'
<1>. SUFFICES ASSUME TypeOK, DeliveryInv, [Next]_vars PROVE DeliveryInv'
  OBVIOUS
<1>1. PromisesKept /\ RunsKept
  BY OutcomeMoves, PromisesMonotone, RunsMonotone
<1>2. inbox' \in SoundBoxes(outcome', ran')
  BY <1>1, InboxStep
<1>3. InFlightIssued'
  BY <1>1, InFlightStep DEF DeliveryInv
<1>4. BridgeInv'
  BY <1>1, BridgeMoves, ShrinkKeepsBridges, ForwardRequestBridges, WriterRunBridges DEF DeliveryInv
<1>. QED BY <1>2, <1>3, <1>4 DEF DeliveryInv, SoundBoxes, SoundFor, Issued

LEMMA DeliveryInvariant == Spec => [](TypeOK /\ DeliveryInv)
<1>. QED BY TypeCorrect, InitDelivery, StepDelivery, PTL DEF Spec

\* An answer reaches only the request it answers, for any number of tabs whose
\* request ids collide, through bridges replaced, disposed and failed: a late
\* reply finds no entry of another request under its id.
THEOREM AnswersReachTheirRequest == Spec => []NoCrossTalk
<1>1. DeliveryInv => NoCrossTalk
  <2>. SUFFICES ASSUME DeliveryInv, NEW t \in Tabs, NEW i \in DOMAIN inbox[t],
                       inbox[t][i].kind \in {"response", "error"}
                PROVE  inbox[t][i].of = <<t, inbox[t][i].id>>
    BY DEF NoCrossTalk
  <2>1. inbox[t] \in Seq(SoundFor(t, outcome, ran))
    BY DEF DeliveryInv, SoundBoxes
  <2>2. inbox[t][i] \in SoundFor(t, outcome, ran)
    BY <2>1
  <2>. QED BY <2>2 DEF SoundFor
<1>. QED BY <1>1, DeliveryInvariant, PTL

-----------------------------------------------------------------------------
(* The transport implements StorageService: what each kind of step is      *)
(* there.  The abstract writer is the one running worker, if any; the      *)
(* abstract statuses are the promises of the calls.                        *)

Serving(W) == IF W = {} THEN 0 ELSE CHOOSE w \in W : TRUE

Promises(oc) == [q \in Tabs \X Calls |-> oc[q[1]][q[2]]]

LEMMA ServingIs == Serving({}) = 0 /\ \A w : Serving({w}) = w
BY DEF Serving

\* LockInv in the form the mapping uses.
LEMMA WorkersAre ==
  ASSUME LockInv, NEW t \in Tabs
  PROVE  /\ lead[t] # 0 => workers = {lead[t]}
         /\ workers \ {lead[t]} = workers \/ workers \ {lead[t]} = {}
         /\ lead[t] \in workers => lead[t] # 0
<1>1. ASSUME lead[t] # 0 PROVE workers = {lead[t]}
  BY <1>1, TabsAssumption DEF LockInv
<1>2. 0 \notin workers
  BY DEF LockInv
<1>. QED BY <1>1, <1>2

LEMMA MapStart ==
  ASSUME workers = {}, workers' = {epoch + 1}, epoch' = epoch + 1, outcome' = outcome, ran' = ran
  PROVE  Service!Start
<1>1. Serving(workers) = 0 /\ Serving(workers') = epoch + 1
  BY ServingIs
<1>. QED BY <1>1 DEF Service!Start, Serving

\* One promise of a tab changes: the abstract statuses change at that request.
LEMMA StatusUpdate ==
  ASSUME TypeOK, NEW t \in Tabs, NEW i \in Calls, NEW s, outcome' = [outcome EXCEPT ![t][i] = s]
  PROVE  Promises(outcome') = [Promises(outcome) EXCEPT ![<<t, i>>] = s]
<1>0. /\ outcome \in [Tabs -> [Ids -> {"none", "pending", "ok", "error", "gone"}]]
      /\ Calls \subseteq Ids
  BY BoundsAssumption DEF TypeOK, CallType, Calls, Ids
<1>1. \A u \in Tabs, k \in Calls : outcome'[u][k] = IF u = t /\ k = i THEN s ELSE outcome[u][k]
  BY <1>0
<1>2. \A q \in Tabs \X Calls : q[1] \in Tabs /\ q[2] \in Calls /\ q = <<q[1], q[2]>>
  OBVIOUS
<1>3. \A q \in Tabs \X Calls :
        outcome'[q[1]][q[2]] = IF q = <<t, i>> THEN s ELSE outcome[q[1]][q[2]]
  <2>. SUFFICES ASSUME NEW q \in Tabs \X Calls
                PROVE  outcome'[q[1]][q[2]] = IF q = <<t, i>> THEN s ELSE outcome[q[1]][q[2]]
    OBVIOUS
  <2>1. q = <<t, i>> <=> q[1] = t /\ q[2] = i
    BY <1>2
  <2>. QED BY <1>1, <1>2, <2>1
<1>. QED BY <1>3 DEF Promises

LEMMA MapIssue ==
  ASSUME TypeOK, NEW t \in Tabs, NEW i \in Ids, NEW s \in {"pending", "error"},
         outcome[t][i] = "none", outcome' = [outcome EXCEPT ![t][i] = s],
         workers' = workers, epoch' = epoch, ran' = ran
  PROVE  Service!Next \/ UNCHANGED Service!vars
<1>0. outcome \in [Tabs -> [Ids -> {"none", "pending", "ok", "error", "gone"}]]
  BY DEF TypeOK, CallType
<1>. DEFINE status == Promises(outcome)
            next == Promises(outcome')
<1>1. CASE i \in Calls
  <2>1. <<t, i>> \in Tabs \X Calls /\ status[<<t, i>>] = "none"
    BY <1>1 DEF Promises
  <2>2. next = [status EXCEPT ![<<t, i>>] = s]
    BY <1>1, StatusUpdate
  <2>3. Service!Issue(<<t, i>>)
    <3>1. next = [status EXCEPT ![<<t, i>>] = "pending"] \/ next = [status EXCEPT ![<<t, i>>] = "error"]
      BY <2>2
    <3>. QED BY <2>1, <3>1 DEF Service!Issue, Promises
  <2>. QED BY <2>1, <2>3 DEF Service!Next
<1>2. CASE i \notin Calls
  <2>1. next = status
    BY <1>0, <1>2 DEF Promises
  <2>. QED BY <2>1 DEF Service!vars, Promises
<1>. QED BY <1>1, <1>2

LEMMA MapResolve ==
  ASSUME TypeOK, NEW t \in Tabs, NEW i \in Ids,
         outcome[t][i] = "pending", i \in Calls => ran[<<t, i>>] # <<>>,
         outcome' = [outcome EXCEPT ![t][i] = "ok"],
         workers' = workers, epoch' = epoch, ran' = ran
  PROVE  Service!Next \/ UNCHANGED Service!vars
<1>0. outcome \in [Tabs -> [Ids -> {"none", "pending", "ok", "error", "gone"}]]
  BY DEF TypeOK, CallType
<1>. DEFINE status == Promises(outcome)
            next == Promises(outcome')
<1>1. CASE i \in Calls
  <2>1. <<t, i>> \in Tabs \X Calls /\ status[<<t, i>>] = "pending"
    BY <1>1 DEF Promises
  <2>2. next = [status EXCEPT ![<<t, i>>] = "ok"]
    BY <1>1, StatusUpdate, ZenonT(60)
  <2>3. Service!Resolve(<<t, i>>)
    BY <1>1, <2>1, <2>2 DEF Service!Resolve, Promises
  <2>. QED BY <2>1, <2>3 DEF Service!Next
<1>2. CASE i \notin Calls
  <2>1. next = status
    BY <1>0, <1>2 DEF Promises
  <2>. QED BY <2>1 DEF Service!vars, Promises
<1>. QED BY <1>1, <1>2

LEMMA MapRun ==
  ASSUME TypeOK, NEW q \in Requests, NEW w, workers = {w}, w # 0, Issued(outcome, q),
         ran' = [ran EXCEPT ![q] = Append(@, w)],
         workers' = workers, epoch' = epoch, outcome' = outcome
  PROVE  Service!Next \/ UNCHANGED Service!vars
<1>0. ran \in [Requests -> Seq(Nat)]
  BY DEF TypeOK, WorkerType
<1>. DEFINE runs == [x \in Tabs \X Calls |-> ran[x]]
            next == [x \in Tabs \X Calls |-> ran'[x]]
<1>1. Serving(workers) = w
  BY ServingIs
<1>2. Tabs \X Calls \subseteq Requests
  BY BoundsAssumption DEF Requests, Calls, Ids
<1>3. CASE q \in Tabs \X Calls
  <2>1. next = [runs EXCEPT ![q] = Append(@, w)]
    BY <1>0, <1>2, <1>3
  <2>2. Service!Run(q)
    BY <1>1, <1>3, <2>1 DEF Service!Run, Serving, Issued
  <2>. QED BY <1>3, <2>2 DEF Service!Next
<1>4. CASE q \notin Tabs \X Calls
  <2>1. next = runs
    BY <1>0, <1>2, <1>4
  <2>. QED BY <2>1 DEF Service!vars
<1>. QED BY <1>3, <1>4

\* Any other step rejects or forgets pending promises, possibly none, and
\* possibly stops the worker.
LEMMA MapReject ==
  ASSUME TypeOK, NEW s \in {"error", "gone"}, workers' = workers \/ workers' = {},
         epoch' = epoch, ran' = ran,
         \A t \in Tabs, i \in Ids :
            \/ outcome'[t][i] = outcome[t][i]
            \/ outcome[t][i] = "pending" /\ outcome'[t][i] = s
  PROVE  Service!Next
<1>. DEFINE status == [q \in Tabs \X Calls |-> outcome[q[1]][q[2]]]
            next == [q \in Tabs \X Calls |-> outcome'[q[1]][q[2]]]
            S == {q \in Tabs \X Calls : status[q] = "pending" /\ next[q] = s}
<1>1. Serving(workers') = Serving(workers) \/ Serving(workers') = 0
  BY ServingIs
<1>2. Calls \subseteq Ids
  BY BoundsAssumption DEF Calls, Ids
<1>3. next = [q \in Tabs \X Calls |-> IF q \in S THEN s ELSE status[q]]
  <2>1. ASSUME NEW q \in Tabs \X Calls PROVE next[q] = IF q \in S THEN s ELSE status[q]
    BY <1>2
  <2>. QED BY <2>1
<1>4. S \in SUBSET {q \in Tabs \X Calls : status[q] = "pending"}
  OBVIOUS
<1>5. Service!RejectOrStop
  BY <1>1, <1>3, <1>4 DEF Service!RejectOrStop, Service!Give, Serving
<1>. QED BY <1>5 DEF Service!Next

\* The steps that only carry messages, move the lock or give up.
LEMMA MapQuiet ==
  ASSUME TypeOK, outcome' = outcome, ran' = ran, epoch' = epoch,
         workers' = workers \/ workers' = {}
  PROVE  Service!Next
BY MapReject

LEMMA RejectAllEffect ==
  ASSUME TypeOK, NEW t \in Tabs, outcome' = RejectAll(t)
  PROVE  \A u \in Tabs, i \in Ids :
            \/ outcome'[u][i] = outcome[u][i]
            \/ outcome[u][i] = "pending" /\ outcome'[u][i] = "error"
BY DEF TypeOK, CallType, RejectAll

LEMMA EnvironmentMaps ==
  ASSUME TypeOK, LockInv, NEW t \in Tabs, Environment(t)
  PROVE  Service!Next \/ UNCHANGED Service!vars
<1>0. workers \ {lead[t]} = workers \/ workers \ {lead[t]} = {}
  BY WorkersAre
<1>1. CASE Open(t) \/ RetryPair(t)
  BY <1>1, MapQuiet DEF Open, RetryPair, callVars, workerVars, lockVars
<1>2. ASSUME NEW i \in Ids, Send(t, i) PROVE Service!Next \/ UNCHANGED Service!vars
  BY <1>2, MapIssue DEF Send, MaySend, workerVars, lockVars
<1>3. ASSUME NEW i \in Ids, SendFailed(t, i) PROVE Service!Next \/ UNCHANGED Service!vars
  BY <1>3, MapIssue DEF SendFailed, MaySend, workerVars, lockVars
<1>4. CASE Unload(t)
  <2>1. \A u \in Tabs, i \in Ids :
            \/ outcome'[u][i] = outcome[u][i]
            \/ outcome[u][i] = "pending" /\ outcome'[u][i] = "gone"
    BY <1>4 DEF Unload, TypeOK, CallType
  <2>2. (workers' = workers \/ workers' = {}) /\ epoch' = epoch /\ ran' = ran
    BY <1>0, <1>4 DEF Unload
  <2>. QED BY <2>1, <2>2, MapReject
<1>5. CASE WriterFailure(t) \/ WriterFailureTerminal(t)
  <2>1. /\ outcome' = RejectAll(t) /\ workers' = workers \ {lead[t]}
        /\ epoch' = epoch /\ ran' = ran
    BY <1>5 DEF WriterFailure, WriterFailureTerminal, GiveUpLeadership, StopWorker
  <2>. QED BY <1>0, <2>1, RejectAllEffect, MapReject
<1>6. CASE LockRejected(t)
  <2>1. /\ outcome' = RejectAll(t) \/ outcome' = outcome
        /\ workers' = workers \ {lead[t]} \/ workers' = workers
        /\ epoch' = epoch /\ ran' = ran
    BY <1>6 DEF LockRejected, CloseTransport, GiveUpLeadership, StopWorker
  <2>. QED BY <1>0, <2>1, RejectAllEffect, MapReject, MapQuiet
<1>. QED BY <1>1, <1>2, <1>3, <1>4, <1>5, <1>6 DEF Environment

\* An answer settles its promise, once: positively only if the request ran.
LEMMA ReceiveMaps ==
  ASSUME TypeOK, DeliveryInv, NEW t \in Tabs, Receive(t)
  PROVE  Service!Next \/ UNCHANGED Service!vars
<1>. DEFINE m == Head(inbox[t])
<1>1. /\ inbox[t] # <<>> /\ m.kind \in {"response", "error"}
      /\ outcome' = [outcome EXCEPT ![t][m.id] = SettleAs(@, m.kind)]
      /\ workers' = workers /\ ran' = ran /\ epoch' = epoch
  BY DEF Receive, workerVars, lockVars
<1>2. m \in SoundFor(t, outcome, ran)
  BY <1>1, PopSound DEF DeliveryInv
<1>3. m.id \in Ids /\ m.of = <<t, m.id>>
  <2>1. m \in Message
    BY <1>2 DEF SoundFor
  <2>. QED BY <1>1, <1>2, <2>1, MessageFields DEF SoundFor, Envelopes
<1>4. outcome \in [Tabs -> [Ids -> {"none", "pending", "ok", "error", "gone"}]]
  BY DEF TypeOK, CallType
<1>5. CASE outcome[t][m.id] # "pending"
  <2>1. outcome' = outcome
    <3>. HIDE DEF m
    <3>. QED BY <1>1, <1>3, <1>4, <1>5 DEF SettleAs
  <2>. QED BY <1>1, <2>1, MapQuiet
<1>6. CASE outcome[t][m.id] = "pending" /\ m.kind = "response"
  <2>1. outcome' = [outcome EXCEPT ![t][m.id] = "ok"]
    BY <1>1, <1>6 DEF SettleAs
  <2>2. m.id \in Calls => ran[<<t, m.id>>] # <<>>
    <3>1. m.id \in Calls => m.id # CloseId
      BY BoundsAssumption DEF Calls, CloseId
    <3>. QED BY <1>2, <1>3, <1>6, <3>1 DEF SoundFor
  <2>. QED BY <1>1, <1>3, <1>6, <2>1, <2>2, MapResolve
<1>7. CASE outcome[t][m.id] = "pending" /\ m.kind = "error"
  <2>1. outcome' = [outcome EXCEPT ![t][m.id] = "error"]
    BY <1>1, <1>7 DEF SettleAs
  <2>2. \A u \in Tabs, i \in Ids :
            \/ outcome'[u][i] = outcome[u][i]
            \/ outcome[u][i] = "pending" /\ outcome'[u][i] = "error"
    <3>. HIDE DEF m
    <3>. QED BY <1>3, <1>4, <1>7, <2>1
  <2>. QED BY <1>1, <2>2, MapReject
<1>. QED BY <1>1, <1>5, <1>6, <1>7

LEMMA TaskMaps ==
  ASSUME TypeOK, DeliveryInv, NEW t \in Tabs, Task(t)
  PROVE  Service!Next \/ UNCHANGED Service!vars
<1>1. CASE Ignored(t) \/ PairWithLeader(t) \/ AcceptPair(t) \/ PairAck(t) \/ AnswerQuery(t)
  BY <1>1, MapQuiet DEF Ignored, PairWithLeader, AcceptPair, PairAck, AnswerQuery, callVars,
                        workerVars, lockVars
<1>2. CASE ForwardRequest(t) \/ InterceptClose(t)
  BY <1>2, MapQuiet DEF ForwardRequest, InterceptClose, callVars, workerVars, lockVars
<1>3. CASE LeaderFailed(t)
  <2>1. outcome' = RejectAll(t) /\ workers' = workers /\ ran' = ran /\ epoch' = epoch
    BY <1>3 DEF LeaderFailed, workerVars, lockVars
  <2>. QED BY <2>1, RejectAllEffect, MapReject
<1>4. CASE Receive(t)
  BY <1>4, ReceiveMaps
<1>. QED BY <1>1, <1>2, <1>3, <1>4 DEF Task

LEMMA BecomeLeaderMaps ==
  ASSUME LockInv, NEW t \in Tabs, BecomeLeader(t)
  PROVE  Service!Next
<1>1. /\ granted = t /\ epoch' = epoch + 1 /\ workers' = workers \cup {epoch + 1}
      /\ outcome' = outcome /\ ran' = ran
  BY DEF BecomeLeader, callVars
<1>2. \A u \in Tabs : lead[u] = 0
  BY <1>1, TabsAssumption DEF LockInv
<1>3. workers = {}
  BY <1>2 DEF LockInv
<1>4. workers' = {epoch + 1}
  BY <1>1, <1>3
<1>. QED BY <1>1, <1>3, <1>4, MapStart DEF Service!Next

LEMMA WriterRunMaps ==
  ASSUME TypeOK, LockInv, DeliveryInv, NEW t \in Tabs, WriterRun(t)
  PROVE  Service!Next \/ UNCHANGED Service!vars
<1>1. PICK j \in jobs[t] : lead[t] \in workers /\ ran' = [ran EXCEPT ![j.of] = Append(@, lead[t])]
  BY DEF WriterRun
<1>2. workers' = workers /\ epoch' = epoch /\ outcome' = outcome
  BY DEF WriterRun, callVars, lockVars
<1>3. lead[t] # 0 /\ workers = {lead[t]}
  BY <1>1, WorkersAre
<1>4. j.of \in Requests
  BY DEF TypeOK, WorkerType, Jobs
<1>5. Issued(outcome, j.of)
  BY DEF DeliveryInv, BridgeInv, JobsSound, JobSound
<1>. QED BY <1>1, <1>2, <1>3, <1>4, <1>5, MapRun

LEMMA StepMaps ==
  ASSUME TypeOK, LockInv, DeliveryInv, [Next]_vars
  PROVE  Service!Next \/ UNCHANGED Service!vars
<1>1. ASSUME NEW t \in Tabs, Terminate(t) PROVE Service!Next
  <2>1. /\ outcome' = RejectAll(t) /\ workers' = workers \ {lead[t]}
        /\ epoch' = epoch /\ ran' = ran
    BY <1>1 DEF Terminate, CloseTransport, GiveUpLeadership, StopWorker
  <2>. QED BY <2>1, WorkersAre, RejectAllEffect, MapReject
<1>2. ASSUME NEW t \in Tabs, GrantLock(t) \/ GrantAfterClose(t) \/ ForwardReply(t)
      PROVE  Service!Next
  BY <1>2, MapQuiet DEF GrantLock, GrantAfterClose, ForwardReply, callVars, workerVars, lockVars
<1>3. UNCHANGED vars => Service!Next
  BY MapQuiet DEF vars, callVars, workerVars, lockVars
<1>. QED BY <1>1, <1>2, <1>3, EnvironmentMaps, TaskMaps, BecomeLeaderMaps, WriterRunMaps DEF Next

LEMMA InitMaps == Init => Service!Init
<1>. SUFFICES ASSUME Init PROVE Service!Init
  OBVIOUS
<1>1. /\ workers = {} /\ epoch = 0 /\ outcome = [t \in Tabs |-> [i \in Ids |-> "none"]]
      /\ ran = [q \in Requests |-> <<>>]
  BY DEF Init
<1>2. Serving(workers) = 0
  BY <1>1, ServingIs
<1>3. Calls \subseteq Ids /\ Tabs \X Calls \subseteq Requests
  BY BoundsAssumption DEF Calls, Ids, Requests
<1>. QED BY <1>1, <1>2, <1>3 DEF Service!Init, Serving

\* Every step of the transport is a step of StorageService or changes nothing
\* there, for any number of tabs and calls, crashes, retries and rejected lock
\* requests: one worker at a time in increasing order, promises that settle
\* once, success only for a request that ran.
THEOREM TransportImplementsService == Spec => ImplementsService
<1>1. Init => Service!Init
  BY InitMaps
<1>2. TypeOK /\ LockInv /\ DeliveryInv /\ [Next]_vars => [Service!Next]_(Service!vars)
  BY StepMaps
<1>. QED BY <1>1, <1>2, LockInvariant, DeliveryInvariant, PTL DEF Spec, ImplementsService, Service!Spec

-----------------------------------------------------------------------------
(* What a discovery message means while it waits in a queue.  A failure    *)
(* names a leader id that is over; an ack awaited by a tab that is not     *)
(* closing names a leader that is over or has a bridge for the tab; the    *)
(* queues of closed tabs hold no ack; a close request comes from a tab     *)
(* that is closing.                                                        *)

NewsFor(u) ==
  {m \in Message :
     /\ m.kind = "leader-failed" =>
          m.leader # 0 /\ m.leader <= epoch /\ \A v \in Tabs : lead[v] # m.leader
     /\ m.kind = "pair-ack" =>
          /\ m.leader # 0 /\ m.leader <= epoch /\ phase[u] = "open"
          /\ m.client = u /\ outcome[u][CloseId] = "none" =>
               \A v \in Tabs : lead[v] = m.leader => u \in bridges[v]
     /\ m.kind = "request" /\ m.id = CloseId =>
          outcome[m.client][CloseId] # "none" \/ phase[m.client] = "closed"}
Fits(box, G, T) == \A u \in T : box[u] \in Seq(G[u])
News == [u \in Tabs |-> NewsFor(u)]
HandshakeInv ==
  /\ Fits(inbox, News, Tabs)
  /\ \A t \in Tabs : lead[t] <= epoch

\* The same after a step.
NewsAfter(u) == NewsFor(u)'
After == [u \in Tabs |-> NewsAfter(u)]

LEMMA SeqOps ==
  ASSUME NEW S, NEW s \in Seq(S)
  PROVE  /\ \A e \in S : Append(s, e) \in Seq(S)
         /\ \A r \in Seq(S) : s \o r \in Seq(S)
         /\ s # <<>> => Tail(s) \in Seq(S) /\ Head(s) \in S
OBVIOUS

LEMMA FitsBroadcast ==
  ASSUME NEW G, NEW T \in SUBSET Tabs, NEW box \in Boxes, Fits(box, G, T), NEW t \in Tabs, NEW m,
         \A u \in T : u # t /\ phase[u] = "open" => m \in G[u]
  PROVE  Fits(Broadcast(box, t, m), G, T)
<1>. SUFFICES ASSUME NEW u \in T PROVE Broadcast(box, t, m)[u] \in Seq(G[u])
  BY DEF Fits
<1>1. Broadcast(box, t, m)[u] = IF u # t /\ phase[u] = "open" THEN Append(box[u], m) ELSE box[u]
  BY DEF Broadcast
<1>2. box[u] \in Seq(G[u])
  BY DEF Fits
<1>. QED BY <1>1, <1>2, SeqOps

LEMMA FitsPost ==
  ASSUME NEW G, NEW T \in SUBSET Tabs, NEW box \in Boxes, Fits(box, G, T), NEW t \in Tabs, NEW l,
         NEW ids \in Seq(Ids), \A u \in T : \A k \in DOMAIN ids : Request(l, t, ids[k]) \in G[u]
  PROVE  /\ Fits(PostRequests(box, t, l, ids), G, T)
         /\ \A u \in T : box[u] \o [i \in DOMAIN ids |-> Request(l, t, ids[i])] \in Seq(G[u])
<1>. DEFINE reqs == [i \in DOMAIN ids |-> Request(l, t, ids[i])]
<1>1. ASSUME NEW u \in T PROVE reqs \in Seq(G[u])
  OBVIOUS
<1>2. ASSUME NEW u \in T PROVE PostRequests(box, t, l, ids)[u] \in {box[u] \o reqs, box[u]}
  BY DEF PostRequests
<1>. HIDE DEF reqs
<1>3. ASSUME NEW u \in T PROVE box[u] \o reqs \in Seq(G[u]) /\ box[u] \in Seq(G[u])
  <2>1. reqs \in Seq(G[u])
    BY <1>1
  <2>2. box[u] \in Seq(G[u])
    BY DEF Fits
  <2>. QED BY <2>1, <2>2, SeqOps
<1>. QED BY <1>2, <1>3 DEF Fits, reqs

LEMMA FitsDrop ==
  ASSUME NEW G, NEW T \in SUBSET Tabs, NEW box \in Boxes, Fits(box, G, T), NEW t \in Tabs, NEW C,
         \A u \in T : Dropped \in G[u]
  PROVE  Fits(DropAnswers(box, t), G, T) /\ Fits(DropRequests(box, t, C), G, T)
<1>. SUFFICES ASSUME NEW u \in T
              PROVE  DropAnswers(box, t)[u] \in Seq(G[u]) /\ DropRequests(box, t, C)[u] \in Seq(G[u])
  BY DEF Fits
<1>. DEFINE S == G[u]
            sq == box[u]
            A(m) == m.kind \in {"response", "error"}
            R(m) == m.kind = "request" /\ m.client \in C
<1>1. sq \in Seq(S) /\ Dropped \in S
  BY DEF Fits
<1>2. /\ DropAnswers(box, t)[u] \in {[i \in DOMAIN sq |-> IF A(sq[i]) THEN Dropped ELSE sq[i]], sq}
      /\ DropRequests(box, t, C)[u] \in {[i \in DOMAIN sq |-> IF R(sq[i]) THEN Dropped ELSE sq[i]], sq}
  BY DEF DropAnswers, DropRequests, Drop, Boxes
<1>. HIDE DEF S, sq, A, R
<1>3. /\ [i \in DOMAIN sq |-> IF A(sq[i]) THEN Dropped ELSE sq[i]] \in Seq(S)
      /\ [i \in DOMAIN sq |-> IF R(sq[i]) THEN Dropped ELSE sq[i]] \in Seq(S)
  BY <1>1
<1>4. DropAnswers(box, t)[u] \in Seq(S) /\ DropRequests(box, t, C)[u] \in Seq(S)
  BY <1>1, <1>2, <1>3
<1>. QED BY <1>4 DEF S

LEMMA FitsClear ==
  ASSUME NEW G, NEW box \in Boxes, NEW t \in Tabs, Fits(box, G, Tabs \ {t})
  PROVE  Fits([box EXCEPT ![t] = <<>>], G, Tabs)
<1>. SUFFICES ASSUME NEW u \in Tabs PROVE [box EXCEPT ![t] = <<>>][u] \in Seq(G[u])
  BY DEF Fits
<1>1. <<>> \in Seq(G[u])
  OBVIOUS
<1>2. [box EXCEPT ![t] = <<>>][u] = IF u = t THEN <<>> ELSE box[u]
  BY DEF Boxes
<1>. QED BY <1>1, <1>2 DEF Fits

LEMMA FitsPop ==
  ASSUME TypeOK, NEW G, NEW T \in SUBSET Tabs, Fits(inbox, G, T), NEW t \in Tabs, inbox[t] # <<>>
  PROVE  Fits(Pop(t), G, T)
<1>. SUFFICES ASSUME NEW u \in T PROVE Pop(t)[u] \in Seq(G[u])
  BY DEF Fits
<1>1. inbox[u] \in Seq(G[u])
  BY DEF Fits
<1>2. Pop(t)[u] = IF u = t THEN Tail(inbox[u]) ELSE inbox[u]
  BY DEF TypeOK, Boxes, Pop
<1>. QED BY <1>1, <1>2, SeqOps

\* failPending posts errors and the announcement of the failure.
LEMMA FitsFailPending ==
  ASSUME TypeOK, NEW G, NEW T \in SUBSET Tabs, Fits(inbox, G, T), NEW t \in Tabs, NEW l \in Nat,
         \A u \in T : \A i \in Ids : Answer("error", l, u, i, <<u, i>>) \in G[u],
         \A u \in T : u # t => Discovery("leader-failed", l, NoTab) \in G[u]
  PROVE  Fits(FailPending(t, l), G, T)
<1>. DEFINE lids(c) == {r.lid : r \in {q \in idMap[t] : q.client = c}}
            entry(n) == CHOOSE r \in idMap[t] : r.lid = n
            error(c, n) == Answer("error", l, c, entry(n).id, <<c, entry(n).id>>)
            errors(c) == LET s == Sorted(lids(c)) IN [i \in DOMAIN s |-> error(c, s[i])]
            failed == [c \in Tabs |-> IF c \in bridges[t] /\ pair[c] = l
                                      THEN inbox[c] \o errors(c) ELSE inbox[c]]
<1>1. ASSUME NEW c \in Tabs
      PROVE  errors(c) \in Seq(Message) /\ (c \in T => errors(c) \in Seq(G[c]))
  <2>. DEFINE mine == {q \in idMap[t] : q.client = c}
  <2>1. IsFiniteSet(mine)
    BY FS_Subset DEF TypeOK, LeaderType
  <2>2. IsFiniteSet(lids(c))
    <3>. DEFINE f == [r \in mine |-> r.lid]
    <3>1. f \in Surjection(mine, lids(c))
      BY DEF Surjection
    <3>. QED BY <2>1, <3>1, FS_Surjection
  <2>3. Sorted(lids(c)) \in Seq(lids(c))
    BY <2>2, SortedType
  <2>4. ASSUME NEW n \in lids(c)
        PROVE  error(c, n) \in Message /\ (c \in T => error(c, n) \in G[c])
    <3>1. entry(n) \in idMap[t]
      OBVIOUS
    <3>2. entry(n).id \in Ids
      BY <3>1 DEF TypeOK, LeaderType
    <3>. QED BY <3>2, AnswerType DEF Requests
  <2>. DEFINE s == Sorted(lids(c))
  <2>5. errors(c) = [i \in DOMAIN s |-> error(c, s[i])]
    OBVIOUS
  <2>. HIDE DEF error, errors, lids, s
  <2>6. \A i \in DOMAIN s : error(c, s[i]) \in Message /\ (c \in T => error(c, s[i]) \in G[c])
    BY <2>3, <2>4 DEF s
  <2>. QED BY <2>3, <2>5, <2>6 DEF s
<1>. HIDE DEF errors
<1>2. failed \in Boxes
  BY <1>1 DEF TypeOK, Boxes
<1>3. Fits(failed, G, T)
  <2>. SUFFICES ASSUME NEW u \in T PROVE failed[u] \in Seq(G[u])
    BY DEF Fits
  <2>1. inbox[u] \in Seq(G[u]) /\ errors(u) \in Seq(G[u])
    BY <1>1 DEF Fits
  <2>2. failed[u] \in {inbox[u] \o errors(u), inbox[u]}
    OBVIOUS
  <2>. HIDE DEF failed
  <2>3. inbox[u] \o errors(u) \in Seq(G[u])
    BY <2>1, SeqOps
  <2>. QED BY <2>1, <2>2, <2>3
<1>4. FailPending(t, l) = Broadcast(failed, t, Discovery("leader-failed", l, NoTab))
  BY DEF FailPending, errors
<1>. HIDE DEF failed
<1>. QED BY <1>2, <1>3, <1>4, FitsBroadcast

-----------------------------------------------------------------------------
(* Waiting news stay true: leader ids are not used twice, a bridge goes    *)
(* only with its leader or at its client's own request.                    *)

\* Leader ids end for good, and a new one is above all the old.
LeadMoves ==
  /\ epoch' \in Nat /\ epoch <= epoch'
  /\ \A v \in Tabs : lead'[v] = lead[v] \/ lead'[v] = 0 \/ (lead'[v] = epoch + 1 /\ epoch' = epoch + 1)

LEMMA LeadSteps == TypeOK /\ [Next]_vars => LeadMoves
<1>. SUFFICES ASSUME TypeOK, [Next]_vars PROVE LeadMoves
  OBVIOUS
<1>0. lead \in [Tabs -> Nat] /\ epoch \in Nat
  BY DEF TypeOK, LeaderType, LockType
<1>1. UNCHANGED <<lead, epoch>> => LeadMoves
  BY <1>0 DEF LeadMoves
<1>2. ASSUME NEW t \in Tabs, lead' = [lead EXCEPT ![t] = 0], epoch' = epoch PROVE LeadMoves
  BY <1>0, <1>2 DEF LeadMoves
<1>3. ASSUME NEW t \in Tabs, BecomeLeader(t) PROVE LeadMoves
  <2>1. epoch' = epoch + 1 /\ lead' = [lead EXCEPT ![t] = epoch + 1]
    BY <1>3 DEF BecomeLeader
  <2>. QED BY <1>0, <2>1 DEF LeadMoves
<1>4. ASSUME NEW t \in Tabs, Environment(t) PROVE LeadMoves
  <2>1. UNCHANGED <<lead, epoch>> \/ (lead' = [lead EXCEPT ![t] = 0] /\ epoch' = epoch)
    BY <1>4 DEF Environment, Open, Send, SendFailed, Unload, WriterFailure, WriterFailureTerminal,
                LockRejected, CloseTransport, GiveUpLeadership, RetryPair, leaderVars, lockVars
  <2>. QED BY <1>1, <1>2, <2>1
<1>5. ASSUME NEW t \in Tabs, Task(t) PROVE LeadMoves
  BY <1>1, <1>5, TaskKeepsElection DEF electionVars
<1>6. ASSUME NEW t \in Tabs, Terminate(t) PROVE LeadMoves
  BY <1>2, <1>6 DEF Terminate, CloseTransport, GiveUpLeadership
<1>7. ASSUME NEW t \in Tabs,
             GrantLock(t) \/ GrantAfterClose(t) \/ WriterRun(t) \/ ForwardReply(t)
      PROVE  LeadMoves
  BY <1>1, <1>7 DEF GrantLock, GrantAfterClose, WriterRun, ForwardReply, leaderVars, lockVars
<1>8. UNCHANGED vars => LeadMoves
  BY <1>1 DEF vars, leaderVars, lockVars
<1>. QED BY <1>3, <1>4, <1>5, <1>6, <1>7, <1>8 DEF Next

\* The tabs that leave the state "open" with this step.
Closes(t) ==
  Unload(t) \/ WriterFailureTerminal(t) \/ LockRejected(t) \/ Terminate(t)

LEMMA PhaseSteps ==
  ASSUME TypeOK, [Next]_vars, NEW u \in Tabs
  PROVE  /\ phase[u] = "closed" => phase'[u] = "closed"
         /\ phase[u] = "open" /\ phase'[u] # "open" => Closes(u)
<1>0. phase \in [Tabs -> {"new", "open", "failed", "closed"}]
  BY DEF TypeOK, PairType
<1>1. CASE phase' = phase
  BY <1>1
<1>2. ASSUME NEW t \in Tabs, Open(t) PROVE phase[t] = "new" /\ phase' = [phase EXCEPT ![t] = "open"]
  BY <1>2 DEF Open
<1>3. ASSUME NEW t \in Tabs, Unload(t) \/ Terminate(t)
      PROVE  phase' = [phase EXCEPT ![t] = "closed"]
  BY <1>3 DEF Unload, Terminate, CloseTransport
<1>4. ASSUME NEW t \in Tabs, LockRejected(t)
      PROVE  phase' = phase \/ phase' = [phase EXCEPT ![t] = "closed"]
  BY <1>4 DEF LockRejected, CloseTransport
<1>5. ASSUME NEW t \in Tabs, WriterFailureTerminal(t)
      PROVE  phase[t] = "open" /\ phase' = [phase EXCEPT ![t] = "failed"]
  BY <1>5 DEF WriterFailureTerminal, Runs
<1>6. ASSUME NEW t \in Tabs,
             (\E i \in Ids : Send(t, i) \/ SendFailed(t, i)) \/ WriterFailure(t) \/ RetryPair(t)
      PROVE  phase' = phase
  BY <1>6 DEF Send, SendFailed, WriterFailure, RetryPair, pairVars
<1>7. ASSUME NEW t \in Tabs, Task(t) PROVE phase' = phase
  BY <1>7 DEF Task, Ignored, PairWithLeader, AcceptPair, PairAck, LeaderFailed, AnswerQuery,
              ForwardRequest, InterceptClose, Receive, pairVars
<1>8. ASSUME NEW t \in Tabs, \/ GrantLock(t) \/ GrantAfterClose(t) \/ BecomeLeader(t)
                             \/ WriterRun(t) \/ ForwardReply(t)
      PROVE  phase' = phase
  BY <1>8 DEF GrantLock, GrantAfterClose, BecomeLeader, WriterRun, ForwardReply, pairVars
<1>9. UNCHANGED vars => phase' = phase
  BY DEF vars, pairVars
<1>10. ASSUME NEW t \in Tabs, phase[t] = "new", phase' = [phase EXCEPT ![t] = "open"]
       PROVE  /\ phase[u] = "closed" => phase'[u] = "closed"
              /\ phase[u] = "open" => phase'[u] = "open"
  BY <1>0, <1>10
<1>11. ASSUME NEW t \in Tabs, NEW p \in {"closed", "failed"}, phase' = [phase EXCEPT ![t] = p],
              p = "failed" => phase[t] = "open", Closes(t)
       PROVE  /\ phase[u] = "closed" => phase'[u] = "closed"
              /\ phase[u] = "open" /\ phase'[u] # "open" => Closes(u)
  BY <1>0, <1>11
<1>. QED BY <1>1, <1>2, <1>3, <1>4, <1>5, <1>6, <1>7, <1>8, <1>9, <1>10, <1>11
         DEF Next, Environment, Closes

\* A bridge for u goes with its leader, or because u is closing.
LEMMA BridgeSteps ==
  ASSUME TypeOK, LockInv, HandshakeInv, [Next]_vars, NEW u \in Tabs, NEW v \in Tabs, u \in bridges[v],
         lead'[v] # 0, phase[u] = "open", outcome[u][CloseId] = "none"
  PROVE  u \in bridges'[v]
<1>0. bridges \in [Tabs -> SUBSET Tabs] /\ lead \in [Tabs -> Nat]
  BY DEF TypeOK, LeaderType
<1>1. ASSUME NEW t \in Tabs, bridges' = [bridges EXCEPT ![t] = {}], lead' = [lead EXCEPT ![t] = 0]
      PROVE  u \in bridges'[v]
  BY <1>0, <1>1
<1>2. ASSUME NEW t \in Tabs, Environment(t) PROVE u \in bridges'[v]
  <2>1. \/ bridges' = bridges
        \/ bridges' = [bridges EXCEPT ![t] = {}] /\ lead' = [lead EXCEPT ![t] = 0]
    BY <1>2 DEF Environment, Open, Send, SendFailed, Unload, WriterFailure, WriterFailureTerminal,
                LockRejected, CloseTransport, GiveUpLeadership, RetryPair, leaderVars
  <2>. QED BY <1>1, <2>1
<1>3. ASSUME NEW t \in Tabs, Terminate(t) PROVE u \in bridges'[v]
  BY <1>1, <1>3 DEF Terminate, CloseTransport, GiveUpLeadership
<1>4. ASSUME NEW t \in Tabs, InterceptClose(t) PROVE u \in bridges'[v]
  <2>. DEFINE m == Head(inbox[t])
  <2>1. /\ inbox[t] # <<>> /\ m.kind = "request" /\ m.id = CloseId
        /\ bridges' = [bridges EXCEPT ![t] = @ \ {m.client}]
    BY <1>4 DEF InterceptClose, Handles
  <2>2. m \in NewsFor(t)
    <3>1. inbox[t] \in Seq(NewsFor(t))
      BY DEF HandshakeInv, Fits, News
    <3>. QED BY <2>1, <3>1
  <2>3. outcome[m.client][CloseId] # "none" \/ phase[m.client] = "closed"
    BY <2>1, <2>2 DEF NewsFor
  <2>. HIDE DEF m
  <2>. QED BY <1>0, <2>1, <2>3
<1>5. ASSUME NEW t \in Tabs, AcceptPair(t) PROVE u \in bridges'[v]
  <2>1. bridges' = [bridges EXCEPT ![t] = bridges[t] \cup {Head(inbox[t]).client}]
    BY <1>5 DEF AcceptPair, WithBridge
  <2>. QED BY <1>0, <2>1
<1>6. ASSUME NEW t \in Tabs,
             \/ Ignored(t) \/ PairWithLeader(t) \/ PairAck(t) \/ LeaderFailed(t) \/ AnswerQuery(t)
             \/ ForwardRequest(t) \/ Receive(t)
      PROVE  u \in bridges'[v]
  BY <1>6 DEF Ignored, PairWithLeader, PairAck, LeaderFailed, AnswerQuery, ForwardRequest, Receive,
              leaderVars
<1>7. ASSUME NEW t \in Tabs, BecomeLeader(t) PROVE u \in bridges'[v]
  <2>1. bridges' = [bridges EXCEPT ![t] = @ \cup {t}]
    BY <1>7 DEF BecomeLeader
  <2>. QED BY <1>0, <2>1
<1>8. ASSUME NEW t \in Tabs,
             GrantLock(t) \/ GrantAfterClose(t) \/ WriterRun(t) \/ ForwardReply(t)
      PROVE  u \in bridges'[v]
  BY <1>8 DEF GrantLock, GrantAfterClose, WriterRun, ForwardReply, leaderVars
<1>9. UNCHANGED vars => u \in bridges'[v]
  BY DEF vars, leaderVars
<1>. QED BY <1>2, <1>3, <1>4, <1>5, <1>6, <1>7, <1>8, <1>9 DEF Next, Task

\* So a message that fits a queue still fits it, unless its tab closes.
LEMMA OldNews ==
  ASSUME TypeOK, LockInv, HandshakeInv, [Next]_vars, NEW u \in Tabs, NEW m \in NewsFor(u),
         phase[u] = "open" => phase'[u] = "open"
  PROVE  m \in NewsAfter(u)
<1>0. /\ lead \in [Tabs -> Nat] /\ epoch \in Nat /\ m \in Message /\ m.leader \in Nat
      /\ CloseId \in Ids
  BY BoundsAssumption, MessageFields DEF TypeOK, LeaderType, LockType, NewsFor, CloseId, Ids
<1>1. LeadMoves /\ PromisesKept
  BY LeadSteps, OutcomeMoves, PromisesMonotone
<1>2. m.leader <= epoch => m.leader <= epoch' /\ m.leader # epoch + 1
  BY <1>0, <1>1 DEF LeadMoves
<1>3. ASSUME m.leader <= epoch, m.leader # 0, NEW v \in Tabs, lead'[v] = m.leader
      PROVE  lead[v] = m.leader
  BY <1>1, <1>2, <1>3 DEF LeadMoves
<1>4. m.kind = "leader-failed" =>
        m.leader # 0 /\ m.leader <= epoch' /\ \A v \in Tabs : lead'[v] # m.leader
  BY <1>2, <1>3 DEF NewsFor
<1>5. ASSUME m.kind = "pair-ack"
      PROVE  /\ m.leader # 0 /\ m.leader <= epoch' /\ phase'[u] = "open"
             /\ m.client = u /\ outcome'[u][CloseId] = "none" =>
                  \A v \in Tabs : lead'[v] = m.leader => u \in bridges'[v]
  <2>1. /\ m.leader # 0 /\ m.leader <= epoch /\ phase[u] = "open"
        /\ m.client = u /\ outcome[u][CloseId] = "none" =>
             \A v \in Tabs : lead[v] = m.leader => u \in bridges[v]
    BY <1>5 DEF NewsFor
  <2>2. outcome'[u][CloseId] = "none" => outcome[u][CloseId] = "none"
    BY <1>0, <1>1 DEF PromisesKept
  <2>3. ASSUME m.client = u, outcome'[u][CloseId] = "none", NEW v \in Tabs, lead'[v] = m.leader
        PROVE  u \in bridges'[v]
    <3>1. lead[v] = m.leader /\ outcome[u][CloseId] = "none"
      BY <1>3, <2>1, <2>2, <2>3
    <3>. QED BY <2>1, <2>3, <3>1, BridgeSteps
  <2>. QED BY <1>2, <2>1, <2>3
<1>6. ASSUME m.kind = "request", m.id = CloseId
      PROVE  outcome'[m.client][CloseId] # "none" \/ phase'[m.client] = "closed"
  <2>1. m.client \in Tabs
    BY <1>0, <1>6, MessageFields DEF Envelopes
  <2>2. outcome[m.client][CloseId] # "none" \/ phase[m.client] = "closed"
    BY <1>6 DEF NewsFor
  <2>. QED BY <1>0, <1>1, <2>1, <2>2, PhaseSteps DEF PromisesKept
<1>. QED BY <1>0, <1>4, <1>5, <1>6 DEF NewsAfter, NewsFor

LEMMA OldFits ==
  ASSUME TypeOK, LockInv, HandshakeInv, [Next]_vars, NEW T \in SUBSET Tabs,
         \A u \in T : phase[u] = "open" => phase'[u] = "open"
  PROVE  Fits(inbox, After, T)
<1>. SUFFICES ASSUME NEW u \in T PROVE inbox[u] \in Seq(NewsAfter(u))
  BY DEF Fits, After
<1>1. inbox[u] \in Seq(NewsFor(u))
  BY DEF HandshakeInv, Fits, News
<1>2. \A m \in NewsFor(u) : m \in NewsAfter(u)
  BY OldNews
<1>. QED BY <1>1, <1>2

-----------------------------------------------------------------------------
(* The messages a step posts fit the queues after it.                      *)

LEMMA PlainNews ==
  ASSUME NEW u \in Tabs, NEW m \in Message,
         m.kind \notin {"leader-failed", "pair-ack", "request"}
  PROVE  m \in NewsAfter(u)
BY DEF NewsAfter, NewsFor

LEMMA PlainDiscovery ==
  ASSUME NEW u \in Tabs, NEW l \in Nat
  PROVE  /\ Dropped \in NewsAfter(u)
         /\ Discovery("leader-query", l, NoTab) \in NewsAfter(u)
         /\ Discovery("leader-elected", l, NoTab) \in NewsAfter(u)
         /\ \A c \in Tabs : Discovery("pair-request", l, c) \in NewsAfter(u)
<1>1. /\ Dropped \in Message /\ Dropped.kind = "dropped"
      /\ Discovery("leader-query", l, NoTab) \in Message
      /\ Discovery("leader-query", l, NoTab).kind = "leader-query"
      /\ Discovery("leader-elected", l, NoTab) \in Message
      /\ Discovery("leader-elected", l, NoTab).kind = "leader-elected"
  BY DroppedType, DiscoveryType DEF Dropped, Discovery, Announcements
<1>2. ASSUME NEW c \in Tabs
      PROVE  /\ Discovery("pair-request", l, c) \in Message
             /\ Discovery("pair-request", l, c).kind = "pair-request"
  BY DiscoveryType DEF Discovery, Handshakes
<1>. QED BY <1>1, <1>2, PlainNews

LEMMA PlainAnswer ==
  ASSUME NEW u \in Tabs, NEW kind \in {"response", "error"}, NEW l \in Nat, NEW i \in Ids,
         NEW of \in Requests
  PROVE  Answer(kind, l, u, i, of) \in NewsAfter(u)
<1>1. Answer(kind, l, u, i, of) \in Message /\ Answer(kind, l, u, i, of).kind = kind
  BY AnswerType DEF Answer
<1>. QED BY <1>1, PlainNews

LEMMA RequestNews ==
  ASSUME NEW u \in Tabs, NEW c \in Tabs, NEW l \in Nat, NEW i \in Ids,
         i = CloseId => outcome'[c][CloseId] # "none" \/ phase'[c] = "closed"
  PROVE  Request(l, c, i) \in NewsAfter(u)
<1>1. /\ Request(l, c, i) \in Message /\ Request(l, c, i).kind = "request"
      /\ Request(l, c, i).client = c /\ Request(l, c, i).id = i
  BY RequestType DEF Request
<1>. QED BY <1>1 DEF NewsAfter, NewsFor

LEMMA FailedNews ==
  ASSUME NEW u \in Tabs, NEW l \in Nat, l # 0, l <= epoch', \A v \in Tabs : lead'[v] # l
  PROVE  Discovery("leader-failed", l, NoTab) \in NewsAfter(u)
<1>1. /\ Discovery("leader-failed", l, NoTab) \in Message
      /\ Discovery("leader-failed", l, NoTab).kind = "leader-failed"
      /\ Discovery("leader-failed", l, NoTab).leader = l
  BY DiscoveryType DEF Discovery, Announcements
<1>. QED BY <1>1 DEF NewsAfter, NewsFor

LEMMA AckNews ==
  ASSUME NEW u \in Tabs, NEW c \in Tabs, NEW l \in Nat, l # 0, l <= epoch', phase'[u] = "open",
         \A v \in Tabs : lead'[v] = l => c \in bridges'[v]
  PROVE  Discovery("pair-ack", l, c) \in NewsAfter(u)
<1>1. /\ Discovery("pair-ack", l, c) \in Message
      /\ Discovery("pair-ack", l, c).kind = "pair-ack"
      /\ Discovery("pair-ack", l, c).leader = l /\ Discovery("pair-ack", l, c).client = c
  BY DiscoveryType DEF Discovery, Handshakes
<1>. QED BY <1>1 DEF NewsAfter, NewsFor

\* Of a leader there is one only.
LEMMA OneLeader ==
  ASSUME LockInv, NEW t \in Tabs, NEW u \in Tabs, lead[t] # 0, lead[u] # 0
  PROVE  t = u
BY DEF LockInv

LEMMA AfterIs == \A u \in Tabs : After[u] = NewsAfter(u)
BY DEF After

\* What a leader that gives up posts fits all queues.
LEMMA FailPendingNews ==
  ASSUME TypeOK, LockInv, HandshakeInv, NEW T \in SUBSET Tabs, Fits(inbox, After, T), NEW t \in Tabs,
         lead[t] # 0, lead' = [lead EXCEPT ![t] = 0], epoch' = epoch
  PROVE  Fits(FailPending(t, lead[t]), After, T)
<1>1. lead[t] \in Nat /\ lead[t] <= epoch'
  BY DEF TypeOK, LeaderType, HandshakeInv
<1>2. \A v \in Tabs : lead'[v] # lead[t]
  BY OneLeader DEF TypeOK, LeaderType
<1>3. \A u \in T : Discovery("leader-failed", lead[t], NoTab) \in After[u]
  BY <1>1, <1>2, FailedNews, AfterIs
<1>4. \A u \in T : \A i \in Ids : Answer("error", lead[t], u, i, <<u, i>>) \in After[u]
  BY <1>1, PlainAnswer, AfterIs DEF Requests
<1>. QED BY <1>1, <1>3, <1>4, FitsFailPending

\* Replayed requests are issued.
LEMMA ReplayNews ==
  ASSUME TypeOK, InFlightIssued, PromisesKept, NEW t \in Tabs, NEW l \in Nat
  PROVE  /\ Replayed(t) \in Seq(Ids)
         /\ \A u \in Tabs : \A k \in DOMAIN Replayed(t) : Request(l, t, Replayed(t)[k]) \in After[u]
<1>1. Replayed(t) \in Seq(Ids)
  BY ReplayedIssued
<1>2. ASSUME NEW k \in DOMAIN Replayed(t)
      PROVE  Replayed(t)[k] \in Ids /\ outcome'[t][Replayed(t)[k]] # "none"
  BY <1>1, ReplayedIssued DEF PromisesKept
<1>3. ASSUME NEW u \in Tabs, NEW k \in DOMAIN Replayed(t)
      PROVE  Request(l, t, Replayed(t)[k]) \in NewsAfter(u)
  BY <1>2, RequestNews
<1>. QED BY <1>1, <1>3, AfterIs

-----------------------------------------------------------------------------
(* Every step leaves queues whose messages fit.                            *)

\* The steps that close no tab and make none the leader keep the queues as
\* they are (OldFits) and post to them.
LEMMA EnvironmentFits ==
  ASSUME TypeOK, LockInv, HandshakeInv, NEW t \in Tabs, Environment(t),
         ~Closes(t), Fits(inbox, After, Tabs)
  PROVE  Fits(inbox', After, Tabs)
<1>0. /\ inbox \in Boxes /\ 0 \in Nat /\ lead[t] \in Nat /\ await[t] \in Nat /\ pair[t] \in Nat
      /\ \A u \in Tabs : Dropped \in After[u]
  BY PlainDiscovery, AfterIs DEF TypeOK, LeaderType, PairType
<1>1. CASE Open(t)
  <2>1. \A u \in Tabs : Discovery("leader-query", 0, NoTab) \in After[u]
    BY <1>0, PlainDiscovery, AfterIs
  <2>. QED BY <1>0, <1>1, <2>1, FitsBroadcast DEF Open
<1>2. ASSUME NEW i \in Ids, Send(t, i) PROVE Fits(inbox', After, Tabs)
  <2>1. /\ outcome' = [outcome EXCEPT ![t][i] = "pending"]
        /\ inbox' = IF pair[t] = 0 THEN inbox ELSE PostRequests(inbox, t, pair[t], <<i>>)
    BY <1>2 DEF Send
  <2>2. outcome'[t][i] # "none"
    BY <2>1 DEF TypeOK, CallType
  <2>3. \A u \in Tabs : Request(pair[t], t, i) \in After[u]
    BY <1>0, <2>2, RequestNews, AfterIs
  <2>4. <<i>> \in Seq(Ids) /\ \A k \in DOMAIN <<i>> : <<i>>[k] = i
    OBVIOUS
  <2>. QED BY <1>0, <2>1, <2>3, <2>4, FitsPost
<1>3. CASE \E i \in Ids : SendFailed(t, i)
  BY <1>3 DEF SendFailed
<1>4. CASE WriterFailure(t)
  <2>1. /\ lead[t] # 0 /\ lead' = [lead EXCEPT ![t] = 0] /\ epoch' = epoch
        /\ inbox' = DropRequests(FailPending(t, lead[t]), t, bridges[t])
    BY <1>4 DEF WriterFailure, GiveUpLeadership
  <2>2. Fits(FailPending(t, lead[t]), After, Tabs) /\ FailPending(t, lead[t]) \in Boxes
    BY <1>0, <2>1, FailPendingNews, FailPendingType
  <2>. QED BY <1>0, <2>1, <2>2, FitsDrop
<1>5. CASE RetryPair(t)
  <2>1. \A u \in Tabs : Discovery("pair-request", await[t], t) \in After[u]
    BY <1>0, PlainDiscovery, AfterIs
  <2>. QED BY <1>0, <1>5, <2>1, FitsBroadcast DEF RetryPair
<1>. QED BY <1>1, <1>2, <1>3, <1>4, <1>5 DEF Environment, Closes

LEMMA HandlersFit ==
  ASSUME TypeOK, LockInv, HandshakeInv, InFlightIssued, PromisesKept, NEW t \in Tabs, Task(t),
         ~InterceptClose(t), Fits(inbox, After, Tabs)
  PROVE  Fits(inbox', After, Tabs)
<1>0. inbox[t] # <<>>
  BY DEF Task, Ignored, PairWithLeader, AcceptPair, PairAck, LeaderFailed, AnswerQuery,
         ForwardRequest, Receive, Handles
<1>1. Fits(Pop(t), After, Tabs) /\ Pop(t) \in Boxes
  BY <1>0, FitsPop, PopType
<1>2. /\ Head(inbox[t]) \in Message /\ Head(inbox[t]).leader \in Nat
      /\ Head(inbox[t]).kind \in Handshakes => Head(inbox[t]).client \in Tabs
      /\ lead[t] \in Nat /\ pair[t] \in Nat /\ 0 \in Nat
      /\ \A u \in Tabs : Dropped \in After[u]
  BY <1>0, PopType, MessageFields, PlainDiscovery, AfterIs DEF TypeOK, LeaderType, PairType
<1>3. CASE Ignored(t) \/ ForwardRequest(t) \/ Receive(t)
  BY <1>1, <1>3 DEF Ignored, ForwardRequest, Receive
<1>4. CASE PairWithLeader(t)
  <2>. DEFINE l == Head(inbox[t]).leader
  <2>1. inbox' = Broadcast(DropAnswers(Pop(t), t), t, Discovery("pair-request", l, t))
    BY <1>4 DEF PairWithLeader
  <2>2. \A u \in Tabs : Discovery("pair-request", l, t) \in After[u]
    BY <1>2, PlainDiscovery, AfterIs
  <2>3. Fits(DropAnswers(Pop(t), t), After, Tabs) /\ DropAnswers(Pop(t), t) \in Boxes
    BY <1>1, <1>2, FitsDrop, DropAnswersType
  <2>. QED BY <2>1, <2>2, <2>3, FitsBroadcast
<1>5. CASE AcceptPair(t)
  <2>. DEFINE c == Head(inbox[t]).client
              ack == Discovery("pair-ack", lead[t], c)
              box == DropRequests(Pop(t), t, {c})
  <2>1. /\ c \in Tabs /\ lead[t] # 0 /\ inbox' = Broadcast(box, t, ack)
        /\ bridges' = [bridges EXCEPT ![t] = bridges[t] \cup {c}]
        /\ phase' = phase /\ lead' = lead /\ epoch' = epoch
    BY <1>2, <1>5 DEF AcceptPair, WithBridge, Handles, Handshakes, pairVars, lockVars
  <2>2. \A v \in Tabs : lead'[v] = lead[t] => c \in bridges'[v]
    BY <2>1, OneLeader DEF TypeOK, LeaderType
  <2>3. lead[t] <= epoch'
    BY <2>1 DEF HandshakeInv
  <2>. HIDE DEF c
  <2>4. \A u \in Tabs : u # t /\ phase[u] = "open" => ack \in After[u]
    BY <1>2, <2>1, <2>2, <2>3, AckNews, AfterIs
  <2>5. Fits(box, After, Tabs) /\ box \in Boxes
    BY <1>1, <1>2, FitsDrop, DropRequestsType
  <2>. QED BY <2>1, <2>4, <2>5, FitsBroadcast
<1>6. CASE PairAck(t)
  BY <1>1, <1>2, <1>6, ReplayNews, FitsPost DEF PairAck
<1>7. CASE LeaderFailed(t)
  BY <1>1, <1>2, <1>7, FitsDrop DEF LeaderFailed
<1>8. CASE AnswerQuery(t)
  <2>1. /\ lead[t] # 0 /\ lead' = lead
        /\ inbox' = Broadcast(Pop(t), t, Discovery("leader-elected", lead[t], NoTab))
    BY <1>8 DEF AnswerQuery, leaderVars
  <2>2. \A u \in Tabs : Discovery("leader-elected", lead[t], NoTab) \in After[u]
    BY <1>2, PlainDiscovery, AfterIs
  <2>. QED BY <1>1, <2>1, <2>2, FitsBroadcast
<1>. QED BY <1>3, <1>4, <1>5, <1>6, <1>7, <1>8 DEF Task

LEMMA InterceptCloseFits ==
  ASSUME TypeOK, NEW t \in Tabs, InterceptClose(t), Fits(inbox, After, Tabs)
  PROVE  Fits(inbox', After, Tabs)
<1>. DEFINE c == Head(inbox[t]).client
            a == Answer("response", lead[t], c, CloseId, <<c, CloseId>>)
            answered == [u \in Tabs |-> IF u = c /\ pair[c] = lead[t]
                                        THEN Append(Pop(t)[u], a) ELSE Pop(t)[u]]
<1>1. inbox[t] # <<>> /\ Head(inbox[t]).kind = "request" /\ inbox' = DropRequests(answered, t, {c})
  BY DEF InterceptClose, Handles
<1>2. /\ Pop(t) \in Boxes /\ Fits(Pop(t), After, Tabs) /\ c \in Tabs
      /\ CloseId \in Ids /\ lead[t] \in Nat /\ 0 \in Nat
  <2>1. Pop(t) \in Boxes /\ Fits(Pop(t), After, Tabs)
    BY <1>1, FitsPop, PopType
  <2>2. c \in Tabs
    BY <1>1, PopType, MessageFields DEF Envelopes
  <2>3. CloseId \in Ids /\ lead[t] \in Nat
    BY BoundsAssumption DEF CloseId, Ids, TypeOK, LeaderType
  <2>. QED BY <2>1, <2>2, <2>3
<1>3. a \in After[c] /\ a \in Message
  BY <1>2, PlainAnswer, AnswerType, AfterIs DEF Requests
<1>. HIDE DEF a, c
<1>4. answered \in Boxes
  BY <1>2, <1>3 DEF Boxes
<1>5. Fits(answered, After, Tabs)
  <2>. SUFFICES ASSUME NEW u \in Tabs PROVE answered[u] \in Seq(After[u])
    BY DEF Fits
  <2>1. Pop(t)[u] \in Seq(After[u])
    BY <1>2 DEF Fits
  <2>2. answered[u] = IF u = c /\ pair[c] = lead[t] THEN Append(Pop(t)[u], a) ELSE Pop(t)[u]
    OBVIOUS
  <2>. HIDE DEF answered
  <2>. QED BY <1>3, <2>1, <2>2, SeqOps
<1>. HIDE DEF answered
<1>6. \A u \in Tabs : Dropped \in After[u]
  BY <1>2, PlainDiscovery, AfterIs
<1>. QED BY <1>1, <1>4, <1>5, <1>6, FitsDrop

LEMMA ForwardReplyFits ==
  ASSUME TypeOK, NEW t \in Tabs, ForwardReply(t), Fits(inbox, After, Tabs)
  PROVE  Fits(inbox', After, Tabs)
<1>. DEFINE e == Head(replies[t])
            mine == {r \in idMap[t] : r.lid = e.job.lid}
            a(c) == Answer(e.kind, lead[t], c, (CHOOSE r \in mine : r.client = c).id, e.job.of)
            P(c) == pair[c] = lead[t] /\ \E r \in mine : r.client = c
<1>1. replies[t] # <<>> /\ inbox' = [c \in Tabs |-> IF P(c) THEN Append(inbox[c], a(c)) ELSE inbox[c]]
  BY DEF ForwardReply
<1>2. replies[t] \in Seq(Replies)
  BY DEF TypeOK, WorkerType
<1>3. e \in Replies
  BY <1>1, <1>2
<1>4. e.job.of \in Requests /\ e.kind \in {"response", "error"}
  BY <1>3 DEF Replies, Jobs
<1>6. ASSUME NEW c \in Tabs, P(c) PROVE a(c) \in After[c]
  <2>. DEFINE r == CHOOSE r \in mine : r.client = c
  <2>1. r \in mine
    BY <1>6
  <2>2. r.id \in Ids /\ lead[t] \in Nat
    BY <2>1 DEF TypeOK, LeaderType
  <2>3. a(c) = Answer(e.kind, lead[t], c, r.id, e.job.of)
    OBVIOUS
  <2>. HIDE DEF r, a, e
  <2>. QED BY <1>4, <2>2, <2>3, PlainAnswer, AfterIs
<1>. HIDE DEF P, a
<1>. SUFFICES ASSUME NEW u \in Tabs PROVE inbox'[u] \in Seq(After[u])
  BY DEF Fits
<1>7. inbox[u] \in Seq(After[u])
  BY DEF Fits
<1>8. inbox'[u] = IF P(u) THEN Append(inbox[u], a(u)) ELSE inbox[u]
  BY <1>1
<1>. QED BY <1>6, <1>7, <1>8, SeqOps

\* A closing tab leaves its queue behind; a last close request is posted.
LEMMA ClosingFits ==
  ASSUME TypeOK, LockInv, HandshakeInv, NEW t \in Tabs, Closes(t), phase'[t] # "open",
         Fits(inbox, After, Tabs \ {t})
  PROVE  Fits(inbox', After, Tabs)
<1>0. inbox \in Boxes /\ lead[t] \in Nat /\ pair[t] \in Nat /\ CloseId \in Ids
  BY BoundsAssumption DEF TypeOK, LeaderType, PairType, CloseId, Ids
<1>1. CASE Unload(t)
  BY <1>0, <1>1, FitsClear DEF Unload
<1>2. CASE LockRejected(t)
  <2>1. CASE CloseTransport(t, inbox)
    BY <1>0, <2>1, FitsClear DEF CloseTransport
  <2>2. CASE phase' = phase
    BY <1>2, <2>2 DEF LockRejected, Runs
  <2>. QED BY <1>2, <2>1, <2>2 DEF LockRejected
<1>3. CASE WriterFailureTerminal(t)
  <2>1. /\ lead[t] # 0 /\ lead' = [lead EXCEPT ![t] = 0] /\ epoch' = epoch
        /\ inbox' = [FailPending(t, lead[t]) EXCEPT ![t] = <<>>]
    BY <1>3 DEF WriterFailureTerminal, GiveUpLeadership
  <2>2. Fits(FailPending(t, lead[t]), After, Tabs \ {t}) /\ FailPending(t, lead[t]) \in Boxes
    BY <1>0, <2>1, FailPendingNews, FailPendingType
  <2>. QED BY <2>1, <2>2, FitsClear
<1>4. CASE Terminate(t)
  <2>. DEFINE box == IF pair[t] = 0 THEN inbox ELSE PostRequests(inbox, t, pair[t], <<CloseId>>)
  <2>1. inbox' = [box EXCEPT ![t] = <<>>] /\ phase' = [phase EXCEPT ![t] = "closed"]
    BY <1>4 DEF Terminate, CloseTransport
  <2>2. phase'[t] = "closed"
    BY <2>1 DEF TypeOK, PairType
  <2>3. \A u \in Tabs : Request(pair[t], t, CloseId) \in After[u]
    BY <1>0, <2>2, RequestNews, AfterIs
  <2>4. <<CloseId>> \in Seq(Ids) /\ \A k \in DOMAIN <<CloseId>> : <<CloseId>>[k] = CloseId
    BY <1>0
  <2>5. Fits(box, After, Tabs \ {t}) /\ box \in Boxes
    BY <1>0, <2>3, <2>4, FitsPost, PostRequestsType
  <2>. HIDE DEF box
  <2>. QED BY <2>1, <2>5, FitsClear
<1>. QED BY <1>1, <1>2, <1>3, <1>4 DEF Closes

LEMMA BecomeLeaderFits ==
  ASSUME TypeOK, LockInv, HandshakeInv, InFlightIssued, PromisesKept, [Next]_vars,
         NEW t \in Tabs, BecomeLeader(t)
  PROVE  Fits(inbox', After, Tabs)
<1>. DEFINE l == epoch + 1
            replay == [i \in DOMAIN Replayed(t) |-> Request(l, t, Replayed(t)[i])]
            detached == DropAnswers(inbox, t)
            self == [detached EXCEPT ![t] = @ \o replay]
<1>0. /\ l \in Nat /\ 0 \in Nat /\ inbox \in Boxes /\ phase' = phase
      /\ inbox' = Broadcast(self, t, Discovery("leader-elected", l, NoTab))
  BY DEF BecomeLeader, TypeOK, LockType
<1>5. Fits(inbox, After, Tabs)
  BY <1>0, OldFits
<1>6. \A u \in Tabs : Dropped \in After[u]
  BY <1>0, PlainDiscovery, AfterIs
<1>7. Fits(detached, After, Tabs) /\ detached \in Boxes
  BY <1>0, <1>5, <1>6, FitsDrop, DropAnswersType
<1>. HIDE DEF l, detached
<1>8. \A u \in Tabs : detached[u] \o replay \in Seq(After[u])
  <2>. SUFFICES ASSUME NEW u \in Tabs PROVE detached[u] \o replay \in Seq(After[u])
    OBVIOUS
  <2>. DEFINE ids == Replayed(t)
              S == After[u]
  <2>1. ids \in Seq(Ids) /\ \A i \in DOMAIN ids : Request(l, t, ids[i]) \in S
    BY <1>0, ReplayNews
  <2>2. detached[u] \in Seq(S)
    BY <1>7 DEF Fits
  <2>3. replay = [i \in DOMAIN ids |-> Request(l, t, ids[i])]
    OBVIOUS
  <2>. HIDE DEF ids, S, replay
  <2>4. replay \in Seq(S)
    BY <2>1, <2>3
  <2>5. detached[u] \o replay \in Seq(S)
    BY <2>2, <2>4, SeqOps
  <2>. QED BY <2>5 DEF S
<1>9. detached[t] \o replay \in Seq(Message)
  <2>1. \A i \in DOMAIN Replayed(t) : Request(l, t, Replayed(t)[i]) \in Message
    BY <1>0, ReplayedIssued, RequestType
  <2>2. Replayed(t) \in Seq(Ids)
    BY ReplayedIssued
  <2>3. replay \in Seq(Message)
    BY <2>1, <2>2
  <2>. HIDE DEF replay
  <2>. QED BY <1>7, <2>3 DEF Boxes
<1>. HIDE DEF replay
<1>10. self \in Boxes /\ \A u \in Tabs : self[u] = IF u = t THEN detached[u] \o replay ELSE detached[u]
  BY <1>7, <1>9 DEF Boxes
<1>. HIDE DEF self
<1>11. Fits(self, After, Tabs)
  BY <1>7, <1>8, <1>10 DEF Fits
<1>12. \A u \in Tabs : Discovery("leader-elected", l, NoTab) \in After[u]
  BY <1>0, PlainDiscovery, AfterIs
<1>. QED BY <1>0, <1>10, <1>11, <1>12, FitsBroadcast

LEMMA InboxFits ==
  ASSUME TypeOK, LockInv, HandshakeInv, InFlightIssued, [Next]_vars
  PROVE  Fits(inbox', After, Tabs)
<1>1. LeadMoves /\ PromisesKept
  BY LeadSteps, OutcomeMoves, PromisesMonotone
<1>2. ASSUME NEW t \in Tabs, BecomeLeader(t) PROVE Fits(inbox', After, Tabs)
  BY <1>1, <1>2, BecomeLeaderFits
<1>4. ASSUME NEW t \in Tabs, Closes(t), phase'[t] # "open"
      PROVE  Fits(inbox', After, Tabs)
  <2>1. \A u \in Tabs : u # t => phase'[u] = phase[u]
    BY <1>4 DEF Closes, Unload, WriterFailureTerminal, LockRejected, Terminate, CloseTransport,
                TypeOK, PairType
  <2>2. Fits(inbox, After, Tabs \ {t})
    BY <1>4, <2>1, OldFits
  <2>. QED BY <1>4, <2>2, ClosingFits
<1>5. ASSUME \A t \in Tabs : phase[t] = "open" => phase'[t] = "open"
      PROVE  Fits(inbox', After, Tabs)
  <2>0. Fits(inbox, After, Tabs)
    BY <1>5, OldFits
  <2>1. ASSUME NEW t \in Tabs, Environment(t), ~Closes(t) PROVE Fits(inbox', After, Tabs)
    BY <2>0, <2>1, EnvironmentFits
  <2>2. ASSUME NEW t \in Tabs, Task(t) PROVE Fits(inbox', After, Tabs)
    BY <1>1, <2>0, <2>2, HandlersFit, InterceptCloseFits
  <2>3. ASSUME NEW t \in Tabs, ForwardReply(t) PROVE Fits(inbox', After, Tabs)
    BY <2>0, <2>3, ForwardReplyFits
  <2>4. ASSUME NEW t \in Tabs, GrantLock(t) \/ GrantAfterClose(t) \/ WriterRun(t)
        PROVE  Fits(inbox', After, Tabs)
    BY <2>0, <2>4 DEF GrantLock, GrantAfterClose, WriterRun
  <2>5. ASSUME NEW t \in Tabs, Closes(t) PROVE Fits(inbox', After, Tabs)
    <3>1. CASE phase'[t] # "open"
      BY <1>4, <1>5, <2>5, <3>1
    <3>2. CASE phase'[t] = "open"
      <4>1. inbox' = inbox
        BY <2>5, <3>2 DEF Closes, Unload, WriterFailureTerminal, LockRejected, Terminate,
                          CloseTransport, TypeOK, PairType
      <4>. QED BY <2>0, <4>1
    <3>. QED BY <3>1, <3>2
  <2>6. UNCHANGED vars => Fits(inbox', After, Tabs)
    BY <2>0 DEF vars
  <2>. QED BY <1>2, <1>5, <2>1, <2>2, <2>3, <2>4, <2>5, <2>6 DEF Next, Closes
<1>. QED BY <1>2, <1>4, <1>5, PhaseSteps

LEMMA StepHandshake ==
  TypeOK /\ LockInv /\ DeliveryInv /\ HandshakeInv /\ [Next]_vars => HandshakeInv'
<1>. SUFFICES ASSUME TypeOK, LockInv, DeliveryInv, HandshakeInv, [Next]_vars PROVE HandshakeInv'
  OBVIOUS
<1>1. Fits(inbox, News, Tabs)'
  <2>1. Fits(inbox', After, Tabs)
    BY InboxFits DEF DeliveryInv
  <2>. QED BY <2>1 DEF Fits, News, After, NewsAfter
<1>2. \A t \in Tabs : lead'[t] <= epoch'
  <2>1. LeadMoves /\ lead \in [Tabs -> Nat] /\ epoch \in Nat /\ \A t \in Tabs : lead[t] <= epoch
    BY LeadSteps DEF TypeOK, LeaderType, LockType, HandshakeInv
  <2>. QED BY <2>1 DEF LeadMoves
<1>. QED BY <1>1, <1>2 DEF HandshakeInv

LEMMA InitHandshake == Init => HandshakeInv
<1>. SUFFICES ASSUME Init PROVE HandshakeInv
  OBVIOUS
<1>1. Fits(inbox, News, Tabs)
  <2>. SUFFICES ASSUME NEW u \in Tabs PROVE inbox[u] \in Seq(News[u])
    BY DEF Fits
  <2>1. inbox[u] = <<>>
    BY DEF Init
  <2>. QED BY <2>1
<1>. QED BY <1>1 DEF Init, HandshakeInv

LEMMA HandshakeInvariant == Spec => []HandshakeInv
<1>. QED BY InitHandshake, StepHandshake, LockInvariant, DeliveryInvariant, PTL DEF Spec

\* A tab that acts on the pair-ack it waits for is not mistaken: the leader
\* the ack names listens on the pair channel, or has ended, or was told by
\* the tab itself to close the bridge.  So what PairAck replays is heard.
THEOREM AcksMeanSubscribed == Spec => []AckMeansSubscribed
<1>1. HandshakeInv => AckMeansSubscribed
  <2>. SUFFICES ASSUME HandshakeInv, NEW t \in Tabs, NEW i \in DOMAIN inbox[t],
                       inbox[t][i].kind = "pair-ack", inbox[t][i].client = t,
                       outcome[t][CloseId] = "none"
                PROVE  \A u \in Tabs : lead[u] = inbox[t][i].leader => t \in bridges[u]
    BY DEF AckMeansSubscribed
  <2>1. inbox[t] \in Seq(NewsFor(t))
    BY DEF HandshakeInv, Fits, News
  <2>2. inbox[t][i] \in NewsFor(t)
    BY <2>1
  <2>. QED BY <2>2 DEF NewsFor
<1>. QED BY <1>1, HandshakeInvariant, PTL

-----------------------------------------------------------------------------
(* Requests are not stranded.  The messages of a handshake, how a queue    *)
(* that nobody consumes evolves, and what follows for its messages.        *)

In(s) == {s[k] : k \in DOMAIN s}
SignalKinds == {"leader-elected", "leader-query", "pair-request", "pair-ack"}
Free(m) == m.kind \notin SignalKinds
Elected(l) == Discovery("leader-elected", l, NoTab)
PairRequest(l, c) == Discovery("pair-request", l, c)
Ack(l, c) == Discovery("pair-ack", l, c)

\* Queue s becomes r: what is no signal may be dropped or added, and the
\* signal of N, if there is one, is added last.
Evolves(s, r, N) ==
  /\ r \in Seq(Message) /\ Len(s) <= Len(r)
  /\ \A k \in 1 .. Len(s) : r[k] = s[k] \/ (Free(s[k]) /\ Free(r[k]))
  /\ \A k \in Len(s) + 1 .. Len(r) : Free(r[k]) \/ (k = Len(r) /\ r[k] \in N)
  /\ N # {} => Len(s) < Len(r) /\ N = {r[Len(r)]}

LEMMA EvolvesAppend ==
  ASSUME NEW s \in Seq(Message), NEW m \in Message
  PROVE  /\ Evolves(s, s, {})
         /\ Evolves(s, Append(s, m), {m})
         /\ Free(m) => Evolves(s, Append(s, m), {})
<1>1. Evolves(s, s, {})
  BY DEF Evolves
<1>2. /\ Append(s, m) \in Seq(Message) /\ Len(Append(s, m)) = Len(s) + 1 /\ Len(s) \in Nat
      /\ \A k \in 1 .. Len(s) : Append(s, m)[k] = s[k]
      /\ Append(s, m)[Len(s) + 1] = m
  OBVIOUS
<1>. QED BY <1>1, <1>2 DEF Evolves

LEMMA EvolvesConcat ==
  ASSUME NEW s \in Seq(Message), NEW r \in Seq(Message), \A k \in DOMAIN r : Free(r[k])
  PROVE  Evolves(s, s \o r, {})
<1>1. /\ s \o r \in Seq(Message) /\ Len(s \o r) = Len(s) + Len(r) /\ Len(s) \in Nat /\ Len(r) \in Nat
      /\ \A k \in 1 .. Len(s) : (s \o r)[k] = s[k]
      /\ \A k \in Len(s) + 1 .. Len(s) + Len(r) : (s \o r)[k] = r[k - Len(s)] /\ k - Len(s) \in DOMAIN r
  OBVIOUS
<1>. QED BY <1>1 DEF Evolves

LEMMA EvolvesThrough ==
  ASSUME NEW s \in Seq(Message), NEW q, NEW r, NEW N, Evolves(s, q, {}), Evolves(q, r, N)
  PROVE  Evolves(s, r, N)
<1>1. /\ q \in Seq(Message) /\ r \in Seq(Message)
      /\ Len(s) \in Nat /\ Len(q) \in Nat /\ Len(r) \in Nat /\ Len(s) <= Len(q) /\ Len(q) <= Len(r)
  BY DEF Evolves
<1>2. ASSUME NEW k \in 1 .. Len(s) PROVE r[k] = s[k] \/ (Free(s[k]) /\ Free(r[k]))
  <2>1. k \in 1 .. Len(q)
    BY <1>1
  <2>. QED BY <2>1 DEF Evolves
<1>3. ASSUME NEW k \in Len(s) + 1 .. Len(r)
      PROVE  Free(r[k]) \/ (k = Len(r) /\ r[k] \in N)
  <2>1. CASE k \in Len(s) + 1 .. Len(q)
    <3>1. Free(q[k]) /\ k \in 1 .. Len(q)
      BY <1>1, <2>1 DEF Evolves
    <3>. QED BY <3>1 DEF Evolves
  <2>2. CASE k \in Len(q) + 1 .. Len(r)
    BY <2>2 DEF Evolves
  <2>. QED BY <1>1, <2>1, <2>2
<1>4. N # {} => Len(s) < Len(r) /\ N = {r[Len(r)]}
  BY <1>1 DEF Evolves
<1>. QED BY <1>1, <1>2, <1>3, <1>4 DEF Evolves

LEMMA EvolvesDropped ==
  ASSUME NEW s \in Seq(Message), NEW r, DOMAIN r = DOMAIN s,
         \A k \in DOMAIN s : r[k] = s[k] \/ (Free(s[k]) /\ r[k] = Dropped),
         r = [k \in DOMAIN s |-> r[k]]
  PROVE  Evolves(s, r, {})
<1>1. Dropped \in Message /\ Free(Dropped)
  BY DroppedType DEF Dropped, Discovery, Free, SignalKinds
<1>2. \A k \in DOMAIN s : r[k] \in Message
  BY <1>1
<1>3. r \in Seq(Message) /\ Len(r) = Len(s) /\ Len(s) \in Nat /\ DOMAIN s = 1 .. Len(s)
  BY <1>2
<1>. QED BY <1>1, <1>3 DEF Evolves

-----------------------------------------------------------------------------
(* The operations on queues.                                               *)

LEMMA EvolvesDrop ==
  ASSUME NEW box \in Boxes, NEW t \in Tabs, NEW C, NEW v \in Tabs
  PROVE  /\ Evolves(box[v], DropAnswers(box, t)[v], {})
         /\ Evolves(box[v], DropRequests(box, t, C)[v], {})
<1>. DEFINE s == box[v]
            A == [k \in DOMAIN s |-> IF s[k].kind \in {"response", "error"} THEN Dropped ELSE s[k]]
            R == [k \in DOMAIN s |-> IF s[k].kind = "request" /\ s[k].client \in C
                                     THEN Dropped ELSE s[k]]
<1>1. s \in Seq(Message)
  BY DEF Boxes
<1>2. DropAnswers(box, t)[v] \in {A, s} /\ DropRequests(box, t, C)[v] \in {R, s}
  BY DEF DropAnswers, DropRequests, Drop, Boxes
<1>. HIDE DEF s
<1>3. Evolves(s, A, {})
  BY <1>1, EvolvesDropped DEF Free, SignalKinds
<1>4. Evolves(s, R, {})
  BY <1>1, EvolvesDropped DEF Free, SignalKinds
<1>5. Evolves(s, s, {})
  BY <1>1 DEF Evolves
<1>6. Evolves(s, DropAnswers(box, t)[v], {}) /\ Evolves(s, DropRequests(box, t, C)[v], {})
  <2>. HIDE DEF A, R
  <2>. QED BY <1>2, <1>3, <1>4, <1>5
<1>. QED BY <1>6 DEF s

LEMMA EvolvesBroadcast ==
  ASSUME NEW box \in Boxes, NEW t \in Tabs, NEW m \in Message, NEW v \in Tabs
  PROVE  /\ v # t /\ phase[v] = "open" => Evolves(box[v], Broadcast(box, t, m)[v], {m})
         /\ ~(v # t /\ phase[v] = "open") => Evolves(box[v], Broadcast(box, t, m)[v], {})
         /\ Free(m) => Evolves(box[v], Broadcast(box, t, m)[v], {})
<1>1. box[v] \in Seq(Message)
  BY DEF Boxes
<1>2. Broadcast(box, t, m)[v] = IF v # t /\ phase[v] = "open" THEN Append(box[v], m) ELSE box[v]
  BY DEF Broadcast
<1>. QED BY <1>1, <1>2, EvolvesAppend

LEMMA RequestFree ==
  ASSUME NEW l, NEW c, NEW i PROVE Free(Request(l, c, i))
BY DEF Request, Free, SignalKinds

LEMMA AnswerFree ==
  ASSUME NEW kind \in {"response", "error"}, NEW l, NEW c, NEW i, NEW of
  PROVE  Free(Answer(kind, l, c, i, of))
BY DEF Answer, Free, SignalKinds

LEMMA RequestsFree ==
  ASSUME NEW t \in Tabs, NEW l \in Nat, NEW ids \in Seq(Ids)
  PROVE  /\ [i \in DOMAIN ids |-> Request(l, t, ids[i])] \in Seq(Message)
         /\ \A k \in DOMAIN [i \in DOMAIN ids |-> Request(l, t, ids[i])] :
              Free([i \in DOMAIN ids |-> Request(l, t, ids[i])][k])
<1>1. \A i \in DOMAIN ids : Request(l, t, ids[i]) \in Message
  BY RequestType
<1>2. [i \in DOMAIN ids |-> Request(l, t, ids[i])] \in Seq(Message)
  BY <1>1
<1>. QED BY <1>2, RequestFree

LEMMA EvolvesPost ==
  ASSUME NEW box \in Boxes, NEW t \in Tabs, NEW l \in Nat, NEW ids \in Seq(Ids), NEW v \in Tabs
  PROVE  Evolves(box[v], PostRequests(box, t, l, ids)[v], {})
<1>. DEFINE reqs == [i \in DOMAIN ids |-> Request(l, t, ids[i])]
<1>1. box[v] \in Seq(Message) /\ reqs \in Seq(Message) /\ \A k \in DOMAIN reqs : Free(reqs[k])
  BY RequestsFree DEF Boxes
<1>2. PostRequests(box, t, l, ids)[v] \in {box[v] \o reqs, box[v]}
  BY DEF PostRequests
<1>. HIDE DEF reqs
<1>3. Evolves(box[v], box[v] \o reqs, {}) /\ Evolves(box[v], box[v], {})
  BY <1>1, EvolvesConcat DEF Evolves
<1>. QED BY <1>2, <1>3

LEMMA EvolvesFailPending ==
  ASSUME TypeOK, NEW t \in Tabs, NEW l \in Nat, NEW v \in Tabs
  PROVE  Evolves(inbox[v], FailPending(t, l)[v], {})
<1>. DEFINE lids(c) == {r.lid : r \in {q \in idMap[t] : q.client = c}}
            entry(n) == CHOOSE r \in idMap[t] : r.lid = n
            error(c, n) == Answer("error", l, c, entry(n).id, <<c, entry(n).id>>)
            errors(c) == LET s == Sorted(lids(c)) IN [i \in DOMAIN s |-> error(c, s[i])]
            failed == [c \in Tabs |-> IF c \in bridges[t] /\ pair[c] = l
                                      THEN inbox[c] \o errors(c) ELSE inbox[c]]
<1>1. ASSUME NEW c \in Tabs
      PROVE  errors(c) \in Seq(Message) /\ \A k \in DOMAIN errors(c) : Free(errors(c)[k])
  <2>. DEFINE mine == {q \in idMap[t] : q.client = c}
              s == Sorted(lids(c))
  <2>1. IsFiniteSet(mine)
    BY FS_Subset DEF TypeOK, LeaderType
  <2>2. IsFiniteSet(lids(c))
    <3>. DEFINE f == [r \in mine |-> r.lid]
    <3>1. f \in Surjection(mine, lids(c))
      BY DEF Surjection
    <3>. QED BY <2>1, <3>1, FS_Surjection
  <2>3. s \in Seq(lids(c))
    BY <2>2, SortedType
  <2>4. ASSUME NEW n \in lids(c) PROVE error(c, n) \in Message /\ Free(error(c, n))
    <3>1. entry(n) \in idMap[t]
      OBVIOUS
    <3>2. entry(n).id \in Ids
      BY <3>1 DEF TypeOK, LeaderType
    <3>. QED BY <3>2, AnswerType, AnswerFree DEF Requests
  <2>5. errors(c) = [i \in DOMAIN s |-> error(c, s[i])]
    OBVIOUS
  <2>. HIDE DEF error, errors, lids, s
  <2>6. \A i \in DOMAIN s : error(c, s[i]) \in Message /\ Free(error(c, s[i]))
    BY <2>3, <2>4
  <2>7. errors(c) \in Seq(Message)
    BY <2>3, <2>5, <2>6
  <2>. QED BY <2>5, <2>6, <2>7
<1>. HIDE DEF errors
<1>2. failed \in Boxes
  BY <1>1 DEF TypeOK, Boxes
<1>3. inbox[v] \in Seq(Message)
  BY DEF TypeOK, Boxes
<1>4. failed[v] \in {inbox[v] \o errors(v), inbox[v]}
  OBVIOUS
<1>5. Evolves(inbox[v], failed[v], {})
  <2>1. Evolves(inbox[v], inbox[v] \o errors(v), {}) /\ Evolves(inbox[v], inbox[v], {})
    BY <1>1, <1>3, EvolvesConcat DEF Evolves
  <2>. HIDE DEF failed
  <2>. QED BY <1>4, <2>1
<1>6. FailPending(t, l) = Broadcast(failed, t, Discovery("leader-failed", l, NoTab))
  BY DEF FailPending, errors
<1>7. /\ Discovery("leader-failed", l, NoTab) \in Message
      /\ Free(Discovery("leader-failed", l, NoTab))
  BY DiscoveryType DEF Announcements, Discovery, Free, SignalKinds
<1>. HIDE DEF failed
<1>8. Evolves(failed[v], FailPending(t, l)[v], {})
  BY <1>2, <1>6, <1>7, EvolvesBroadcast
<1>. QED BY <1>3, <1>5, <1>8, EvolvesThrough

-----------------------------------------------------------------------------
(* What that means for the signals of the queue, their order and number.   *)

Signals(s) == {m \in In(s) : ~Free(m)}
InOrder(s) ==
  \A j, k \in DOMAIN s :
    j < k /\ s[j].kind = "leader-elected" /\ s[k].kind = "leader-elected" => s[j].leader <= s[k].leader
Once(s, m) == \A j, k \in DOMAIN s : s[j] = m /\ s[k] = m => j = k

LEMMA SignalsEvolve ==
  ASSUME NEW s \in Seq(Message), NEW r, NEW N, Evolves(s, r, N), \A m \in N : ~Free(m)
  PROVE  Signals(r) = Signals(s) \cup N
<1>1. /\ r \in Seq(Message) /\ Len(s) \in Nat /\ Len(r) \in Nat /\ Len(s) <= Len(r)
      /\ DOMAIN s = 1 .. Len(s) /\ DOMAIN r = 1 .. Len(r)
  BY DEF Evolves
<1>2. ASSUME NEW k \in DOMAIN r, ~Free(r[k]) PROVE r[k] \in Signals(s) \cup N
  <2>1. CASE k \in 1 .. Len(s)
    <3>1. r[k] = s[k]
      BY <1>2, <2>1 DEF Evolves
    <3>. QED BY <1>1, <1>2, <2>1, <3>1 DEF Signals, In
  <2>2. CASE k \in Len(s) + 1 .. Len(r)
    BY <1>2, <2>2 DEF Evolves
  <2>. QED BY <1>1, <2>1, <2>2
<1>3. ASSUME NEW k \in DOMAIN s, ~Free(s[k]) PROVE s[k] \in Signals(r)
  <2>1. k \in 1 .. Len(s) /\ k \in DOMAIN r
    BY <1>1
  <2>2. r[k] = s[k]
    BY <1>3, <2>1 DEF Evolves
  <2>. QED BY <1>3, <2>1, <2>2 DEF Signals, In
<1>4. N \subseteq Signals(r)
  <2>1. CASE N # {}
    <3>1. N = {r[Len(r)]} /\ Len(s) < Len(r)
      BY <2>1 DEF Evolves
    <3>2. Len(r) \in DOMAIN r
      BY <1>1, <3>1
    <3>. QED BY <3>1, <3>2 DEF Signals, In
  <2>. QED BY <2>1
<1>. QED BY <1>2, <1>3, <1>4 DEF Signals, In

LEMMA OrderEvolves ==
  ASSUME NEW s \in Seq(Message), NEW r, NEW N, Evolves(s, r, N), InOrder(s),
         \A m \in N, x \in Signals(s) :
           m.kind = "leader-elected" /\ x.kind = "leader-elected" => x.leader <= m.leader
  PROVE  InOrder(r)
<1>1. /\ r \in Seq(Message) /\ Len(s) \in Nat /\ Len(r) \in Nat /\ Len(s) <= Len(r)
      /\ DOMAIN s = 1 .. Len(s) /\ DOMAIN r = 1 .. Len(r)
  BY DEF Evolves
<1>2. SUFFICES ASSUME NEW j \in DOMAIN r, NEW k \in DOMAIN r, j < k,
                      r[j].kind = "leader-elected", r[k].kind = "leader-elected"
               PROVE  r[j].leader <= r[k].leader
  BY DEF InOrder
<1>3. ~Free(r[j]) /\ ~Free(r[k])
  BY <1>2 DEF Free, SignalKinds
<1>4. j \in 1 .. Len(s)
  <2>1. CASE j \in Len(s) + 1 .. Len(r)
    <3>1. j = Len(r)
      BY <1>3, <2>1 DEF Evolves
    <3>. QED BY <1>1, <1>2, <3>1
  <2>. QED BY <1>1, <2>1
<1>5. r[j] = s[j] /\ r[j] \in Signals(s)
  BY <1>1, <1>3, <1>4 DEF Evolves, Signals, In
<1>6. CASE k \in 1 .. Len(s)
  <2>1. r[k] = s[k]
    BY <1>3, <1>6 DEF Evolves
  <2>. QED BY <1>1, <1>2, <1>4, <1>5, <1>6, <2>1 DEF InOrder
<1>7. CASE k \in Len(s) + 1 .. Len(r)
  <2>1. r[k] \in N
    BY <1>3, <1>7 DEF Evolves
  <2>. QED BY <1>2, <1>5, <2>1
<1>. QED BY <1>1, <1>6, <1>7

LEMMA OnceEvolves ==
  ASSUME NEW s \in Seq(Message), NEW r, NEW N, Evolves(s, r, N), NEW m, ~Free(m), Once(s, m),
         m \in N => m \notin Signals(s)
  PROVE  Once(r, m)
<1>1. /\ r \in Seq(Message) /\ Len(s) \in Nat /\ Len(r) \in Nat /\ Len(s) <= Len(r)
      /\ DOMAIN s = 1 .. Len(s) /\ DOMAIN r = 1 .. Len(r)
  BY DEF Evolves
<1>2. ASSUME NEW k \in DOMAIN r, r[k] = m
      PROVE  \/ k \in DOMAIN s /\ s[k] = m
             \/ k = Len(r) /\ m \in N
  <2>1. CASE k \in 1 .. Len(s)
    <3>1. r[k] = s[k]
      BY <1>2, <2>1 DEF Evolves
    <3>. QED BY <1>1, <1>2, <2>1, <3>1
  <2>2. CASE k \in Len(s) + 1 .. Len(r)
    BY <1>2, <2>2 DEF Evolves
  <2>. QED BY <1>1, <2>1, <2>2
<1>3. \A k \in DOMAIN s : s[k] = m => m \in Signals(s)
  BY DEF Signals, In
<1>. QED BY <1>2, <1>3 DEF Once

LEMMA TailQueue ==
  ASSUME NEW s \in Seq(Message), s # <<>>
  PROVE  /\ Head(s) \in Message /\ Tail(s) \in Seq(Message) /\ Head(s) \in In(s)
         /\ Signals(Tail(s)) \subseteq Signals(s)
         /\ Signals(s) \subseteq Signals(Tail(s)) \cup {Head(s)}
         /\ Free(Head(s)) => Signals(Tail(s)) = Signals(s)
         /\ ~Free(Head(s)) => Head(s) \in Signals(s)
         /\ InOrder(s) => InOrder(Tail(s))
         /\ InOrder(s) /\ Head(s).kind = "leader-elected" =>
              \A x \in Signals(Tail(s)) : x.kind = "leader-elected" => Head(s).leader <= x.leader
         /\ \A m : Once(s, m) => Once(Tail(s), m)
         /\ Once(s, Head(s)) => Head(s) \notin In(Tail(s))
<1>1. /\ Head(s) = s[1] /\ Tail(s) \in Seq(Message) /\ Len(s) \in Nat \ {0} /\ Len(Tail(s)) = Len(s) - 1
      /\ \A k \in 1 .. Len(s) - 1 : Tail(s)[k] = s[k + 1]
      /\ DOMAIN s = 1 .. Len(s) /\ DOMAIN Tail(s) = 1 .. Len(s) - 1
  OBVIOUS
<1>2. 1 \in DOMAIN s /\ s[1] \in Message /\ s[1] \in In(s)
  BY <1>1 DEF In
<1>3. \A k \in DOMAIN Tail(s) : k + 1 \in DOMAIN s /\ k + 1 > 1 /\ Tail(s)[k] = s[k + 1]
  BY <1>1
<1>4. \A k \in DOMAIN s : k = 1 \/ (k - 1 \in DOMAIN Tail(s) /\ Tail(s)[k - 1] = s[k])
  BY <1>1
<1>5. In(Tail(s)) \subseteq In(s)
  BY <1>3 DEF In
<1>6. In(s) \subseteq In(Tail(s)) \cup {s[1]}
  BY <1>4 DEF In
<1>7. InOrder(s) => InOrder(Tail(s))
  <2>. SUFFICES ASSUME InOrder(s), NEW j \in DOMAIN Tail(s), NEW k \in DOMAIN Tail(s), j < k,
                       Tail(s)[j].kind = "leader-elected", Tail(s)[k].kind = "leader-elected"
                PROVE  Tail(s)[j].leader <= Tail(s)[k].leader
    BY DEF InOrder
  <2>1. j + 1 < k + 1
    BY <1>1
  <2>. QED BY <1>3, <2>1 DEF InOrder
<1>8. InOrder(s) /\ s[1].kind = "leader-elected" =>
        \A x \in In(Tail(s)) : x.kind = "leader-elected" => s[1].leader <= x.leader
  BY <1>2, <1>3 DEF InOrder, In
<1>9. ASSUME NEW m, Once(s, m) PROVE Once(Tail(s), m)
  <2>. SUFFICES ASSUME NEW j \in DOMAIN Tail(s), NEW k \in DOMAIN Tail(s), Tail(s)[j] = m, Tail(s)[k] = m
                PROVE  j = k
    BY DEF Once
  <2>1. j + 1 = k + 1
    BY <1>3, <1>9 DEF Once
  <2>. QED BY <1>1, <2>1
<1>10. Once(s, s[1]) => s[1] \notin In(Tail(s))
  <2>. SUFFICES ASSUME Once(s, s[1]), NEW k \in DOMAIN Tail(s), Tail(s)[k] = s[1] PROVE FALSE
    BY DEF In
  <2>1. k + 1 = 1
    BY <1>2, <1>3 DEF Once
  <2>. QED BY <1>1, <2>1
<1>11. Free(s[1]) => Signals(Tail(s)) = Signals(s)
  BY <1>5, <1>6 DEF Signals
<1>. QED BY <1>1, <1>2, <1>5, <1>6, <1>7, <1>8, <1>9, <1>10, <1>11 DEF Signals

-----------------------------------------------------------------------------
(* A replay leaves no request out: a finite set of numbers has an order,   *)
(* by which each element is followed by the rank it has.                   *)

LEMMA OrdersExist ==
  ASSUME NEW S \in SUBSET Nat, IsFiniteSet(S)
  PROVE  \E s \in [1 .. Cardinality(S) -> S] : \A i, j \in DOMAIN s : i < j => s[i] < s[j]
<1>. DEFINE n == Cardinality(S)
            Upto(x) == {y \in S : y <= x}
            rank == [x \in S |-> Cardinality(Upto(x))]
<1>1. n \in Nat
  BY FS_CardinalityType
<1>2. ASSUME NEW x \in S PROVE Upto(x) \in SUBSET S /\ IsFiniteSet(Upto(x)) /\ Cardinality(Upto(x)) \in 1 .. n
  <2>1. Upto(x) \in SUBSET S /\ x \in Upto(x)
    OBVIOUS
  <2>. HIDE DEF Upto
  <2>2. IsFiniteSet(Upto(x)) /\ Cardinality(Upto(x)) <= n
    BY <2>1, FS_Subset
  <2>3. Cardinality(Upto(x)) \in Nat /\ Cardinality(Upto(x)) # 0
    BY <2>1, <2>2, FS_CardinalityType, FS_EmptySet
  <2>. QED BY <1>1, <2>1, <2>2, <2>3
<1>3. ASSUME NEW x \in S, NEW y \in S, x < y PROVE Cardinality(Upto(x)) < Cardinality(Upto(y))
  <2>1. Upto(x) \in SUBSET Upto(y) /\ Upto(x) # Upto(y)
    <3>1. x \in Nat /\ y \in Nat /\ S \subseteq Nat
      OBVIOUS
    <3>2. y \in Upto(y) /\ y \notin Upto(x)
      BY <1>3, <3>1
    <3>3. \A z \in S : z <= x => z <= y
      BY <1>3, <3>1
    <3>. QED BY <3>2, <3>3
  <2>. HIDE DEF Upto
  <2>2. Cardinality(Upto(x)) <= Cardinality(Upto(y)) /\ Cardinality(Upto(x)) # Cardinality(Upto(y))
    BY <1>2, <2>1, FS_Subset
  <2>. QED BY <1>1, <1>2, <2>2
<1>. HIDE DEF n, Upto
<1>4. rank \in [S -> 1 .. n]
  BY <1>2
<1>5. rank \in Injection(S, 1 .. n)
  <2>1. ASSUME NEW x \in S, NEW y \in S, x # y PROVE rank[x] # rank[y]
    <3>1. (x < y \/ y < x) /\ rank[x] \in Nat /\ rank[y] \in Nat
      BY <1>1, <1>4, <2>1
    <3>2. rank[x] < rank[y] \/ rank[y] < rank[x]
      BY <1>3, <3>1
    <3>. QED BY <3>1, <3>2
  <2>. QED BY <1>4, <2>1 DEF Injection, IsInjective
<1>6. IsFiniteSet(1 .. n) /\ Cardinality(1 .. n) = n
  BY <1>1, FS_Interval
<1>7. rank \in Surjection(S, 1 .. n)
  BY <1>5, <1>6, FS_Injection DEF n
<1>8. \A k \in 1 .. n : \E x \in S : rank[x] = k
  BY <1>7 DEF Surjection
<1>. DEFINE s == [k \in 1 .. n |-> CHOOSE x \in S : rank[x] = k]
<1>9. \A k \in 1 .. n : s[k] \in S /\ rank[s[k]] = k
  <2>. HIDE DEF rank
  <2>. QED BY <1>8
<1>10. s \in [1 .. n -> S]
  BY <1>9
<1>11. \A x, y \in S : x < y => rank[x] < rank[y]
  BY <1>3
<1>12. ASSUME NEW i \in 1 .. n, NEW j \in 1 .. n, i < j PROVE s[i] < s[j]
  <2>1. s[i] \in S /\ s[j] \in S /\ rank[s[i]] = i /\ rank[s[j]] = j
    BY <1>9
  <2>2. s[i] \in Nat /\ s[j] \in Nat
    BY <2>1
  <2>. HIDE DEF s, rank
  <2>3. ASSUME s[j] < s[i] PROVE FALSE
    <3>1. j < i
      BY <1>11, <2>1, <2>3
    <3>. QED BY <1>1, <1>12, <3>1
  <2>4. s[i] # s[j]
    BY <1>1, <1>12, <2>1
  <2>. QED BY <2>2, <2>3, <2>4
<1>. HIDE DEF s
<1>. QED BY <1>10, <1>12 DEF n

LEMMA SortedAll ==
  ASSUME NEW S \in SUBSET Nat, IsFiniteSet(S)
  PROVE  \A x \in S : \E k \in DOMAIN Sorted(S) : Sorted(S)[k] = x
<1>. DEFINE n == Cardinality(S)
            Orders == {s \in [1 .. n -> S] : \A i, j \in DOMAIN s : i < j => s[i] < s[j]}
<1>1. n \in Nat /\ IsFiniteSet(1 .. n) /\ Cardinality(1 .. n) = n
  BY FS_CardinalityType, FS_Interval
<1>2. Sorted(S) = IF Orders = {} THEN <<>> ELSE CHOOSE s \in Orders : TRUE
  BY DEF Sorted
<1>3. Orders # {}
  BY OrdersExist
<1>4. Sorted(S) \in Orders
  BY <1>2, <1>3
<1>. DEFINE s == Sorted(S)
<1>. HIDE DEF s
<1>5. s \in [1 .. n -> S] /\ \A i, j \in DOMAIN s : i < j => s[i] < s[j]
  BY <1>4 DEF s
<1>. HIDE DEF n
<1>6. s \in Injection(1 .. n, S)
  <2>1. ASSUME NEW i \in 1 .. n, NEW j \in 1 .. n, i # j PROVE s[i] # s[j]
    <3>1. i < j \/ j < i
      BY <1>1, <2>1
    <3>2. s[i] \in S /\ s[j] \in S /\ (s[i] < s[j] \/ s[j] < s[i])
      BY <1>5, <3>1
    <3>3. s[i] \in Nat /\ s[j] \in Nat
      BY <3>2
    <3>. QED BY <3>2, <3>3
  <2>. QED BY <1>5, <2>1 DEF Injection, IsInjective
<1>7. s \in Surjection(1 .. n, S)
  BY <1>1, <1>6, FS_Injection DEF n
<1>. QED BY <1>5, <1>7 DEF s, Surjection

LEMMA ReplayedAll ==
  ASSUME TypeOK, NEW t \in Tabs
  PROVE  \A i \in inFlight[t] : \E k \in DOMAIN Replayed(t) : Replayed(t)[k] = i
<1>1. inFlight[t] \in SUBSET Ids /\ Ids \in SUBSET Nat /\ IsFiniteSet(Ids)
  BY FS_Interval, BoundsAssumption DEF TypeOK, CallType, Ids
<1>2. inFlight[t] \in SUBSET Nat /\ IsFiniteSet(inFlight[t])
  BY <1>1, FS_Subset
<1>. QED BY <1>2, SortedAll DEF Replayed

-----------------------------------------------------------------------------
(* A step as the handshake sees it: who is open, paired with whom, waiting *)
(* for whom, leading, and which signals are queued.                        *)

Carries(s, r, N) ==
  /\ Signals(r) = Signals(s) \cup N
  /\ InOrder(s) /\ (\A m \in N, x \in Signals(s) :
                      m.kind = "leader-elected" /\ x.kind = "leader-elected" => x.leader <= m.leader)
       => InOrder(r)
  /\ \A m : ~Free(m) /\ Once(s, m) /\ (m \in N => m \notin Signals(s)) => Once(r, m)

Query == Discovery("leader-query", 0, NoTab)
Stays(v) == Carries(inbox[v], inbox'[v], {})
Pops(t) == inbox[t] # <<>> /\ Carries(Tail(inbox[t]), inbox'[t], {})
Quiet(t) == \A v \in Tabs \ {t} : Stays(v)
Posts(t, m) ==
  \A v \in Tabs \ {t} : IF phase[v] = "open" THEN Carries(inbox[v], inbox'[v], {m}) ELSE Stays(v)

linkVars == <<phase, cur, pair, await, lead, epoch>>
Idle == UNCHANGED linkVars /\ \A v \in Tabs : Stays(v)
Opens(t) ==
  /\ phase[t] = "new" /\ phase' = [phase EXCEPT ![t] = "open"]
  /\ UNCHANGED <<cur, pair, await, lead, epoch>>
  /\ Stays(t) /\ Posts(t, Query)
Leads(t) ==
  /\ granted = t /\ phase[t] = "open"
  /\ epoch' = epoch + 1
  /\ lead' = [lead EXCEPT ![t] = epoch + 1] /\ pair' = [pair EXCEPT ![t] = epoch + 1]
  /\ cur' = [cur EXCEPT ![t] = epoch + 1] /\ await' = [await EXCEPT ![t] = 0]
  /\ phase' = phase
  /\ Stays(t) /\ Posts(t, Elected(epoch + 1))
Resigns(t) ==
  /\ lead' = [lead EXCEPT ![t] = 0] /\ cur' = [cur EXCEPT ![t] = 0]
  /\ lead[t] # 0 /\ UNCHANGED <<phase, pair, await, epoch>>
  /\ \A v \in Tabs : Stays(v)
Ends(t) ==
  /\ \E p \in {"closed", "failed"} : phase' = [phase EXCEPT ![t] = p]
  /\ pair' = [pair EXCEPT ![t] = 0] /\ await' = [await EXCEPT ![t] = 0]
  /\ lead' = [lead EXCEPT ![t] = 0] /\ cur' \in {cur, [cur EXCEPT ![t] = 0]}
  /\ epoch' = epoch
  /\ inbox'[t] = <<>> /\ Quiet(t)
Skips(t) ==
  LET m == Head(inbox[t])
  IN  /\ \/ Free(m)
         \/ m.kind = "leader-elected"
              /\ (m.leader = lead[t] \/ (cur[t] = m.leader /\ pair[t] # 0))
         \/ m.kind = "pair-request" /\ m.leader # lead[t]
         \/ m.kind = "pair-ack" /\ (m.client # t \/ await[t] # m.leader)
         \/ m.kind = "leader-query" /\ lead[t] = 0
      /\ UNCHANGED linkVars
      /\ Pops(t) /\ Quiet(t)
Follows(t) ==
  LET m == Head(inbox[t])
  IN  /\ phase[t] = "open" /\ m.kind = "leader-elected" /\ m.leader # lead[t]
      /\ ~(cur[t] = m.leader /\ pair[t] # 0)
      /\ cur' = [cur EXCEPT ![t] = m.leader] /\ pair' = [pair EXCEPT ![t] = m.leader]
      /\ await' = [await EXCEPT ![t] = m.leader]
      /\ UNCHANGED <<phase, lead, epoch>>
      /\ Pops(t) /\ Posts(t, PairRequest(m.leader, t))
Accepts(t) ==
  LET m == Head(inbox[t])
  IN  /\ m.kind = "pair-request" /\ lead[t] # 0 /\ m.leader = lead[t]
      /\ UNCHANGED linkVars
      /\ Pops(t) /\ Posts(t, Ack(lead[t], m.client))
Acked(t) ==
  LET m == Head(inbox[t])
  IN  /\ m.kind = "pair-ack" /\ m.client = t /\ await[t] # 0 /\ await[t] = m.leader
      /\ await' = [await EXCEPT ![t] = 0]
      /\ UNCHANGED <<phase, cur, pair, lead, epoch>>
      /\ Pops(t) /\ Quiet(t)
Abandons(t) ==
  LET m == Head(inbox[t])
  IN  /\ phase[t] = "open" /\ m.kind = "leader-failed" /\ m.leader = cur[t]
      /\ cur' = [cur EXCEPT ![t] = 0] /\ pair' = [pair EXCEPT ![t] = 0]
      /\ await' = [await EXCEPT ![t] = 0]
      /\ UNCHANGED <<phase, lead, epoch>>
      /\ Pops(t) /\ Quiet(t)
Announces(t) ==
  /\ Head(inbox[t]).kind = "leader-query" /\ lead[t] # 0
  /\ UNCHANGED linkVars
  /\ Pops(t) /\ Posts(t, Elected(lead[t]))
HandshakeStep ==
  \/ Idle
  \/ \E t \in Tabs :
       \/ Opens(t) \/ Leads(t) \/ Resigns(t) \/ Ends(t) \/ Skips(t) \/ Follows(t)
       \/ Accepts(t) \/ Acked(t) \/ Abandons(t) \/ Announces(t)

LEMMA EvolvesCarries ==
  ASSUME NEW s \in Seq(Message), NEW r, NEW N, Evolves(s, r, N), \A m \in N : ~Free(m)
  PROVE  Carries(s, r, N)
BY SignalsEvolve, OrderEvolves, OnceEvolves DEF Carries

LEMMA SignalTypes ==
  /\ Query \in Message /\ ~Free(Query)
  /\ \A l \in Nat : Elected(l) \in Message /\ ~Free(Elected(l))
  /\ \A l \in Nat : \A c \in Tabs :
       /\ PairRequest(l, c) \in Message /\ ~Free(PairRequest(l, c))
       /\ Ack(l, c) \in Message /\ ~Free(Ack(l, c))
BY DiscoveryType DEF Query, Elected, PairRequest, Ack, Announcements, Handshakes, Free, SignalKinds, Discovery

\* The queue that a task of t starts from.
LEMMA PopQueue ==
  ASSUME TypeOK, NEW t \in Tabs, inbox[t] # <<>>
  PROVE  /\ Pop(t) \in Boxes /\ Pop(t)[t] = Tail(inbox[t]) /\ \A v \in Tabs \ {t} : Pop(t)[v] = inbox[v]
         /\ Tail(inbox[t]) \in Seq(Message) /\ Head(inbox[t]) \in Message
<1>1. Pop(t) \in Boxes /\ Head(inbox[t]) \in Message
  BY PopType
<1>2. Pop(t)[t] = Tail(inbox[t]) /\ \A v \in Tabs \ {t} : Pop(t)[v] = inbox[v]
  BY DEF Pop, TypeOK, Boxes
<1>. QED BY <1>1, <1>2 DEF Boxes

\* Tasks whose queues only lose what is no signal, and how a broadcast adds.
LEMMA QuietTask ==
  ASSUME TypeOK, NEW t \in Tabs, inbox[t] # <<>>, inbox' \in Boxes,
         \A v \in Tabs : Evolves(Pop(t)[v], inbox'[v], {})
  PROVE  Pops(t) /\ Quiet(t)
<1>1. Carries(Tail(inbox[t]), inbox'[t], {})
  BY PopQueue, EvolvesCarries
<1>2. ASSUME NEW v \in Tabs \ {t} PROVE Carries(inbox[v], inbox'[v], {})
  <2>1. inbox[v] \in Seq(Message) /\ Pop(t)[v] = inbox[v]
    BY PopQueue DEF TypeOK, Boxes
  <2>. QED BY <2>1, EvolvesCarries
<1>. QED BY <1>1, <1>2 DEF Pops, Quiet, Stays

LEMMA BroadcastPosts ==
  ASSUME TypeOK, NEW box \in Boxes, NEW t \in Tabs, NEW m \in Message, ~Free(m),
         inbox' = Broadcast(box, t, m), \A v \in Tabs \ {t} : Evolves(inbox[v], box[v], {})
  PROVE  Posts(t, m)
<1>. SUFFICES ASSUME NEW v \in Tabs \ {t}
              PROVE  /\ phase[v] = "open" => Carries(inbox[v], inbox'[v], {m})
                     /\ phase[v] # "open" => Carries(inbox[v], inbox'[v], {})
  BY DEF Posts, Stays
<1>1. inbox[v] \in Seq(Message)
  BY DEF TypeOK, Boxes
<1>2. CASE phase[v] = "open"
  <2>1. Evolves(inbox[v], inbox'[v], {m})
    <3>1. Evolves(box[v], inbox'[v], {m})
      BY <1>2, EvolvesBroadcast
    <3>. QED BY <1>1, <3>1, EvolvesThrough
  <2>. QED BY <1>1, <1>2, <2>1, EvolvesCarries
<1>3. CASE phase[v] # "open"
  <2>1. Evolves(inbox[v], inbox'[v], {})
    <3>1. Evolves(box[v], inbox'[v], {})
      BY <1>3, EvolvesBroadcast
    <3>. QED BY <1>1, <3>1, EvolvesThrough
  <2>. QED BY <1>1, <1>3, <2>1, EvolvesCarries
<1>. QED BY <1>2, <1>3

LEMMA StaysQueue ==
  ASSUME TypeOK, NEW v \in Tabs, Evolves(inbox[v], inbox'[v], {})
  PROVE  Stays(v)
BY EvolvesCarries DEF Stays, TypeOK, Boxes

LEMMA SameQueues == TypeOK /\ inbox' = inbox => \A v \in Tabs : Stays(v)
<1>. SUFFICES ASSUME TypeOK, inbox' = inbox, NEW v \in Tabs PROVE Stays(v)
  OBVIOUS
<1>1. inbox[v] \in Seq(Message)
  BY DEF TypeOK, Boxes
<1>2. Evolves(inbox[v], inbox[v], {})
  BY <1>1 DEF Evolves
<1>. QED BY <1>2, StaysQueue

LEMMA OpenShape ==
  ASSUME TypeOK, NEW t \in Tabs, Open(t)
  PROVE  Opens(t)
<1>1. /\ phase[t] = "new" /\ phase' = [phase EXCEPT ![t] = "open"]
      /\ inbox' = Broadcast(inbox, t, Query)
      /\ UNCHANGED <<cur, pair, await, lead, epoch>>
  BY DEF Open, Query, leaderVars
<1>2. inbox \in Boxes /\ \A v \in Tabs : Evolves(inbox[v], inbox[v], {})
  <2>1. \A v \in Tabs : inbox[v] \in Seq(Message)
    BY DEF TypeOK, Boxes
  <2>. QED BY <2>1 DEF TypeOK, Evolves
<1>3. Posts(t, Query)
  BY <1>1, <1>2, SignalTypes, BroadcastPosts
<1>4. Stays(t)
  BY <1>1, <1>2, SignalTypes, EvolvesBroadcast, StaysQueue
<1>. QED BY <1>1, <1>3, <1>4 DEF Opens

LEMMA BecomeLeaderShape ==
  ASSUME TypeOK, NEW t \in Tabs, BecomeLeader(t)
  PROVE  Leads(t)
<1>. DEFINE l == epoch + 1
            replayed == Replayed(t)
            requests == [i \in DOMAIN replayed |-> Request(l, t, replayed[i])]
            detached == DropAnswers(inbox, t)
            self == [detached EXCEPT ![t] = @ \o requests]
<1>1. /\ granted = t /\ phase[t] = "open"
      /\ epoch' = l /\ lead' = [lead EXCEPT ![t] = l] /\ pair' = [pair EXCEPT ![t] = l]
      /\ cur' = [cur EXCEPT ![t] = l] /\ await' = [await EXCEPT ![t] = 0] /\ phase' = phase
      /\ inbox' = Broadcast(self, t, Elected(l))
  BY DEF BecomeLeader, Runs, SelfPair, Elected
<1>2. l \in Nat /\ inbox \in Boxes
  BY DEF TypeOK, LockType
<1>. HIDE DEF l
<1>3. requests \in Seq(Message) /\ \A k \in DOMAIN requests : Free(requests[k])
  <2>1. replayed \in Seq(Ids)
    BY InFlightSortedType DEF Replayed
  <2>. QED BY <1>2, <2>1, RequestsFree
<1>. HIDE DEF requests
<1>4. detached \in Boxes /\ \A v \in Tabs : Evolves(inbox[v], detached[v], {})
  BY <1>2, DropAnswersType, EvolvesDrop
<1>. HIDE DEF detached
<1>5. /\ self[t] = detached[t] \o requests /\ \A v \in Tabs \ {t} : self[v] = detached[v]
      /\ detached[t] \in Seq(Message) /\ inbox[t] \in Seq(Message)
  BY <1>2, <1>4 DEF Boxes
<1>6. self \in Boxes
  BY <1>3, <1>4, <1>5, SeqOps DEF Boxes
<1>. HIDE DEF self
<1>7. \A v \in Tabs \ {t} : Evolves(inbox[v], self[v], {})
  BY <1>4, <1>5
<1>8. Evolves(inbox[t], self[t], {})
  BY <1>3, <1>4, <1>5, EvolvesConcat, EvolvesThrough
<1>9. Posts(t, Elected(l))
  BY <1>1, <1>2, <1>6, <1>7, SignalTypes, BroadcastPosts
<1>10. Stays(t)
  <2>1. Evolves(self[t], inbox'[t], {})
    BY <1>1, <1>2, <1>6, SignalTypes, EvolvesBroadcast
  <2>. QED BY <1>5, <1>8, <2>1, EvolvesThrough, StaysQueue
<1>. QED BY <1>1, <1>9, <1>10 DEF Leads, l

LEMMA WriterFailureShape ==
  ASSUME TypeOK, NEW t \in Tabs, WriterFailure(t)
  PROVE  Resigns(t)
<1>. DEFINE box == FailPending(t, lead[t])
<1>1. /\ lead' = [lead EXCEPT ![t] = 0] /\ cur' = [cur EXCEPT ![t] = 0] /\ lead[t] # 0
      /\ UNCHANGED <<phase, pair, await, epoch>>
      /\ inbox' = DropRequests(box, t, bridges[t])
  BY DEF WriterFailure, GiveUpLeadership
<1>2. lead[t] \in Nat /\ \A v \in Tabs : inbox[v] \in Seq(Message)
  BY DEF TypeOK, LeaderType, Boxes
<1>3. box \in Boxes /\ \A v \in Tabs : Evolves(inbox[v], box[v], {})
  BY <1>2, FailPendingType, EvolvesFailPending
<1>. HIDE DEF box
<1>4. \A v \in Tabs : Evolves(box[v], inbox'[v], {})
  BY <1>1, <1>3, EvolvesDrop
<1>5. \A v \in Tabs : Stays(v)
  BY <1>2, <1>3, <1>4, EvolvesThrough, StaysQueue
<1>. QED BY <1>1, <1>5 DEF Resigns

LEMMA ClosesShape ==
  ASSUME TypeOK, NEW t \in Tabs, Closes(t)
  PROVE  Idle \/ Ends(t)
<1>0. inbox \in Boxes /\ lead[t] \in Nat /\ pair[t] \in Nat /\ \A v \in Tabs : inbox[v] \in Seq(Message)
  BY DEF TypeOK, LeaderType, PairType, Boxes
<1>1. \A v \in Tabs : Evolves(inbox[v], inbox[v], {})
  BY <1>0 DEF Evolves
<1>2. ASSUME NEW box \in Boxes, \A v \in Tabs : Evolves(inbox[v], box[v], {}),
             inbox' = [box EXCEPT ![t] = <<>>]
      PROVE  inbox'[t] = <<>> /\ Quiet(t)
  <2>1. inbox'[t] = <<>> /\ \A v \in Tabs \ {t} : inbox'[v] = box[v]
    BY <1>2 DEF Boxes
  <2>. QED BY <1>2, <2>1, StaysQueue DEF Quiet
<1>3. CASE Unload(t)
  <2>1. /\ phase' = [phase EXCEPT ![t] = "closed"]
        /\ pair' = [pair EXCEPT ![t] = 0] /\ await' = [await EXCEPT ![t] = 0]
        /\ lead' = [lead EXCEPT ![t] = 0] /\ cur' = cur /\ epoch' = epoch
        /\ inbox' = [inbox EXCEPT ![t] = <<>>]
    BY <1>3 DEF Unload
  <2>. QED BY <1>0, <1>1, <1>2, <2>1 DEF Ends
<1>4. CASE Terminate(t)
  <2>. DEFINE box == IF pair[t] = 0 THEN inbox ELSE PostRequests(inbox, t, pair[t], <<CloseId>>)
  <2>1. /\ phase' = [phase EXCEPT ![t] = "closed"]
        /\ pair' = [pair EXCEPT ![t] = 0] /\ await' = [await EXCEPT ![t] = 0]
        /\ lead' = [lead EXCEPT ![t] = 0] /\ cur' = cur /\ epoch' = epoch
        /\ inbox' = [box EXCEPT ![t] = <<>>]
    BY <1>4 DEF Terminate, CloseTransport, GiveUpLeadership
  <2>2. <<CloseId>> \in Seq(Ids)
    BY BoundsAssumption DEF CloseId, Ids
  <2>3. box \in Boxes /\ \A v \in Tabs : Evolves(inbox[v], box[v], {})
    BY <1>0, <1>1, <2>2, PostRequestsType, EvolvesPost
  <2>. HIDE DEF box
  <2>. QED BY <1>2, <2>1, <2>3 DEF Ends
<1>5. CASE WriterFailureTerminal(t)
  <2>. DEFINE box == FailPending(t, lead[t])
  <2>1. /\ phase' = [phase EXCEPT ![t] = "failed"]
        /\ pair' = [pair EXCEPT ![t] = 0] /\ await' = [await EXCEPT ![t] = 0]
        /\ lead' = [lead EXCEPT ![t] = 0] /\ cur' = [cur EXCEPT ![t] = 0] /\ epoch' = epoch
        /\ inbox' = [box EXCEPT ![t] = <<>>]
    BY <1>5 DEF WriterFailureTerminal, GiveUpLeadership
  <2>2. box \in Boxes /\ \A v \in Tabs : Evolves(inbox[v], box[v], {})
    BY <1>0, FailPendingType, EvolvesFailPending
  <2>. HIDE DEF box
  <2>. QED BY <1>2, <2>1, <2>2 DEF Ends
<1>6. CASE LockRejected(t)
  <2>1. \/ /\ phase' = [phase EXCEPT ![t] = "closed"]
           /\ pair' = [pair EXCEPT ![t] = 0] /\ await' = [await EXCEPT ![t] = 0]
           /\ lead' = [lead EXCEPT ![t] = 0] /\ cur' = cur /\ epoch' = epoch
           /\ inbox' = [inbox EXCEPT ![t] = <<>>]
        \/ UNCHANGED <<phase, cur, pair, await, lead, epoch, inbox>>
    BY <1>6 DEF LockRejected, CloseTransport, GiveUpLeadership
  <2>2. CASE UNCHANGED <<phase, cur, pair, await, lead, epoch, inbox>>
    BY <2>2, SameQueues DEF Idle, linkVars
  <2>. QED BY <1>0, <1>1, <1>2, <2>1, <2>2 DEF Ends
<1>. QED BY <1>3, <1>4, <1>5, <1>6 DEF Closes

LEMMA AppendFreeEvolves ==
  ASSUME NEW s \in Seq(Message), NEW m, Free(m), Append(s, m) \in Seq(Message)
  PROVE  Evolves(s, Append(s, m), {})
<1>1. /\ Len(Append(s, m)) = Len(s) + 1 /\ Len(s) \in Nat
      /\ \A k \in 1 .. Len(s) : Append(s, m)[k] = s[k]
      /\ Append(s, m)[Len(s) + 1] = m
  OBVIOUS
<1>. QED BY <1>1 DEF Evolves

LEMMA ForwardReplyShape ==
  ASSUME TypeOK, NEW t \in Tabs, ForwardReply(t)
  PROVE  Idle
<1>. DEFINE a == Head(replies[t])
            mine == {r \in idMap[t] : r.lid = a.job.lid}
            answer(c) == Answer(a.kind, lead[t], c, (CHOOSE r \in mine : r.client = c).id, a.job.of)
<1>1. /\ UNCHANGED linkVars
      /\ inbox' = [c \in Tabs |-> IF pair[c] = lead[t] /\ \E r \in mine : r.client = c
                                  THEN Append(inbox[c], answer(c)) ELSE inbox[c]]
      /\ replies[t] # <<>>
  BY DEF ForwardReply, linkVars, pairVars, lockVars
<1>2. a.kind \in {"response", "error"}
  <2>1. replies[t] \in Seq(Replies)
    BY DEF TypeOK, WorkerType
  <2>2. a \in Replies
    BY <1>1, <2>1
  <2>. QED BY <2>2 DEF Replies
<1>3. inbox' \in Boxes
  BY ForwardReplyType DEF TypeOK
<1>4. ASSUME NEW v \in Tabs PROVE Stays(v)
  <2>1. inbox[v] \in Seq(Message) /\ inbox'[v] \in Seq(Message)
    BY <1>3 DEF TypeOK, Boxes
  <2>2. Free(answer(v))
    BY <1>2, AnswerFree
  <2>3. inbox'[v] = Append(inbox[v], answer(v)) \/ inbox'[v] = inbox[v]
    BY <1>1
  <2>. HIDE DEF answer
  <2>4. Evolves(inbox[v], inbox'[v], {})
    <3>1. CASE inbox'[v] = Append(inbox[v], answer(v))
      BY <2>1, <2>2, <3>1, AppendFreeEvolves
    <3>2. CASE inbox'[v] = inbox[v]
      BY <2>1, <3>2 DEF Evolves
    <3>. QED BY <2>3, <3>1, <3>2
  <2>. QED BY <2>4, StaysQueue
<1>. QED BY <1>1, <1>4 DEF Idle

LEMMA IdleShapes ==
  ASSUME TypeOK, NEW t \in Tabs,
         \/ \E i \in Ids : Send(t, i) \/ SendFailed(t, i)
         \/ GrantLock(t) \/ GrantAfterClose(t) \/ WriterRun(t)
  PROVE  Idle
<1>1. ASSUME NEW i \in Ids, Send(t, i) PROVE Idle
  <2>1. /\ UNCHANGED linkVars
        /\ inbox' = inbox \/ inbox' = PostRequests(inbox, t, pair[t], <<i>>)
    BY <1>1 DEF Send, linkVars, pairVars, leaderVars, lockVars
  <2>2. <<i>> \in Seq(Ids) /\ pair[t] \in Nat /\ inbox \in Boxes
    BY DEF TypeOK, PairType
  <2>3. CASE inbox' = inbox
    BY <2>1, <2>3, SameQueues DEF Idle
  <2>4. CASE inbox' = PostRequests(inbox, t, pair[t], <<i>>)
    <3>1. \A v \in Tabs : Evolves(inbox[v], inbox'[v], {})
      BY <2>2, <2>4, EvolvesPost
    <3>. QED BY <2>1, <3>1, StaysQueue DEF Idle
  <2>. QED BY <2>1, <2>3, <2>4
<1>2. ASSUME \/ \E i \in Ids : SendFailed(t, i)
             \/ GrantLock(t) \/ GrantAfterClose(t) \/ WriterRun(t)
      PROVE  Idle
  <2>1. UNCHANGED linkVars /\ inbox' = inbox
    BY <1>2 DEF SendFailed, GrantLock, GrantAfterClose, WriterRun, linkVars, pairVars, leaderVars, lockVars
  <2>. QED BY <2>1, SameQueues DEF Idle
<1>. QED BY <1>1, <1>2

LEMMA SkipsShapes ==
  ASSUME TypeOK, NEW t \in Tabs, Ignored(t) \/ ForwardRequest(t) \/ Receive(t)
  PROVE  Skips(t)
<1>1. /\ inbox[t] # <<>> /\ inbox' = Pop(t) /\ UNCHANGED linkVars
      /\ LET m == Head(inbox[t])
         IN  \/ m.kind \in {"dropped", "leader-failed", "request", "response", "error"}
             \/ m.kind = "leader-elected"
                  /\ (m.leader = lead[t] \/ (cur[t] = m.leader /\ pair[t] # 0))
             \/ m.kind = "pair-request" /\ m.leader # lead[t]
             \/ m.kind = "pair-ack" /\ (m.client # t \/ await[t] # m.leader)
             \/ m.kind = "leader-query" /\ lead[t] = 0
  BY DEF Ignored, ForwardRequest, Receive, Handles, linkVars, pairVars, leaderVars, lockVars
<1>2. Pop(t) \in Boxes /\ \A v \in Tabs : Evolves(Pop(t)[v], Pop(t)[v], {})
  <2>1. Pop(t) \in Boxes
    BY <1>1, PopQueue
  <2>2. \A v \in Tabs : Pop(t)[v] \in Seq(Message)
    BY <2>1 DEF Boxes
  <2>. QED BY <2>1, <2>2 DEF Evolves
<1>3. Pops(t) /\ Quiet(t)
  BY <1>1, <1>2, QuietTask
<1>. QED BY <1>1, <1>3 DEF Skips, Free, SignalKinds

LEMMA InterceptCloseShape ==
  ASSUME TypeOK, NEW t \in Tabs, InterceptClose(t)
  PROVE  Skips(t)
<1>. DEFINE c == Head(inbox[t]).client
            answer == Answer("response", lead[t], c, CloseId, <<c, CloseId>>)
            answered == [u \in Tabs |-> IF u = c /\ pair[c] = lead[t]
                                        THEN Append(Pop(t)[u], answer) ELSE Pop(t)[u]]
<1>1. /\ inbox[t] # <<>> /\ inbox' = DropRequests(answered, t, {c}) /\ UNCHANGED linkVars
      /\ Head(inbox[t]).kind = "request"
  BY DEF InterceptClose, Handles, linkVars, pairVars, lockVars
<1>2. Pop(t) \in Boxes /\ Head(inbox[t]) \in Message /\ lead[t] \in Nat
  BY <1>1, PopQueue DEF TypeOK, LeaderType
<1>3. answer \in Message /\ Free(answer)
  <2>1. c \in Tabs
    BY <1>1, <1>2, MessageFields DEF Envelopes
  <2>2. CloseId \in Ids
    BY BoundsAssumption DEF CloseId, Ids
  <2>3. <<c, CloseId>> \in Requests
    BY <2>1, <2>2 DEF Requests
  <2>. HIDE DEF c
  <2>. QED BY <1>2, <2>1, <2>2, <2>3, AnswerType, AnswerFree
<1>. HIDE DEF answer
<1>4. \A v \in Tabs : Pop(t)[v] \in Seq(Message) /\ Append(Pop(t)[v], answer) \in Seq(Message)
  BY <1>2, <1>3, SeqOps DEF Boxes
<1>5. answered \in Boxes
  BY <1>4 DEF Boxes
<1>6. ASSUME NEW v \in Tabs PROVE Evolves(Pop(t)[v], answered[v], {})
  <2>1. answered[v] = Append(Pop(t)[v], answer) \/ answered[v] = Pop(t)[v]
    OBVIOUS
  <2>. HIDE DEF answered
  <2>. QED BY <1>3, <1>4, <2>1, EvolvesAppend
<1>. HIDE DEF answered
<1>7. ASSUME NEW v \in Tabs PROVE Evolves(Pop(t)[v], inbox'[v], {})
  <2>1. Evolves(answered[v], inbox'[v], {})
    BY <1>1, <1>5, EvolvesDrop
  <2>. QED BY <1>4, <1>6, <2>1, EvolvesThrough
<1>8. inbox' \in Boxes
  BY <1>1, <1>5, DropRequestsType
<1>9. Pops(t) /\ Quiet(t)
  BY <1>1, <1>7, <1>8, QuietTask
<1>. QED BY <1>1, <1>9 DEF Skips, Free, SignalKinds

\* A task that drops from the popped queue and then broadcasts a signal.
LEMMA TaskPosts ==
  ASSUME TypeOK, NEW t \in Tabs, inbox[t] # <<>>, NEW box \in Boxes, NEW m \in Message, ~Free(m),
         \A v \in Tabs : Evolves(Pop(t)[v], box[v], {}), inbox' = Broadcast(box, t, m)
  PROVE  Pops(t) /\ Posts(t, m)
<1>1. /\ Pop(t)[t] = Tail(inbox[t]) /\ Tail(inbox[t]) \in Seq(Message)
      /\ \A v \in Tabs \ {t} : Pop(t)[v] = inbox[v]
  BY PopQueue
<1>2. \A v \in Tabs \ {t} : Evolves(inbox[v], box[v], {})
  BY <1>1
<1>3. Posts(t, m)
  BY <1>2, BroadcastPosts
<1>4. Evolves(Tail(inbox[t]), inbox'[t], {})
  <2>1. Evolves(box[t], inbox'[t], {})
    BY EvolvesBroadcast
  <2>2. Evolves(Tail(inbox[t]), box[t], {})
    BY <1>1
  <2>. QED BY <1>1, <2>1, <2>2, EvolvesThrough
<1>. QED BY <1>1, <1>3, <1>4, EvolvesCarries DEF Pops

LEMMA PairWithLeaderShape ==
  ASSUME TypeOK, NEW t \in Tabs, PairWithLeader(t)
  PROVE  Follows(t)
<1>. DEFINE l == Head(inbox[t]).leader
            box == DropAnswers(Pop(t), t)
<1>1. /\ inbox[t] # <<>> /\ phase[t] = "open" /\ Head(inbox[t]).kind = "leader-elected"
      /\ l # lead[t] /\ ~(cur[t] = l /\ pair[t] # 0)
      /\ cur' = [cur EXCEPT ![t] = l] /\ pair' = [pair EXCEPT ![t] = l]
      /\ await' = [await EXCEPT ![t] = l] /\ UNCHANGED <<phase, lead, epoch>>
      /\ inbox' = Broadcast(box, t, PairRequest(l, t))
  BY DEF PairWithLeader, Handles, Runs, PairRequest, leaderVars, lockVars
<1>2. Pop(t) \in Boxes /\ l \in Nat
  BY <1>1, PopQueue, MessageFields
<1>3. box \in Boxes /\ \A v \in Tabs : Evolves(Pop(t)[v], box[v], {})
  BY <1>2, DropAnswersType, EvolvesDrop
<1>. HIDE DEF box
<1>4. Pops(t) /\ Posts(t, PairRequest(l, t))
  BY <1>1, <1>2, <1>3, SignalTypes, TaskPosts
<1>. QED BY <1>1, <1>4 DEF Follows

LEMMA AcceptPairShape ==
  ASSUME TypeOK, NEW t \in Tabs, AcceptPair(t)
  PROVE  Accepts(t)
<1>. DEFINE c == Head(inbox[t]).client
            box == DropRequests(Pop(t), t, {c})
<1>1. /\ inbox[t] # <<>> /\ Head(inbox[t]).kind = "pair-request"
      /\ lead[t] # 0 /\ Head(inbox[t]).leader = lead[t] /\ UNCHANGED linkVars
      /\ inbox' = Broadcast(box, t, Ack(lead[t], c))
  BY DEF AcceptPair, Handles, Ack, linkVars, pairVars, lockVars
<1>2. Pop(t) \in Boxes /\ c \in Tabs /\ lead[t] \in Nat
  BY <1>1, PopQueue, MessageFields DEF Handshakes, TypeOK, LeaderType
<1>3. box \in Boxes /\ \A v \in Tabs : Evolves(Pop(t)[v], box[v], {})
  BY <1>2, DropRequestsType, EvolvesDrop
<1>. HIDE DEF box
<1>4. Pops(t) /\ Posts(t, Ack(lead[t], c))
  BY <1>1, <1>2, <1>3, SignalTypes, TaskPosts
<1>. QED BY <1>1, <1>4 DEF Accepts

LEMMA AnswerQueryShape ==
  ASSUME TypeOK, NEW t \in Tabs, AnswerQuery(t)
  PROVE  Announces(t)
<1>1. /\ inbox[t] # <<>> /\ Head(inbox[t]).kind = "leader-query" /\ lead[t] # 0 /\ UNCHANGED linkVars
      /\ inbox' = Broadcast(Pop(t), t, Elected(lead[t]))
  BY DEF AnswerQuery, Handles, Elected, linkVars, pairVars, leaderVars, lockVars
<1>2. Pop(t) \in Boxes /\ lead[t] \in Nat
  BY <1>1, PopQueue DEF TypeOK, LeaderType
<1>3. \A v \in Tabs : Evolves(Pop(t)[v], Pop(t)[v], {})
  <2>1. \A v \in Tabs : Pop(t)[v] \in Seq(Message)
    BY <1>2 DEF Boxes
  <2>. QED BY <2>1 DEF Evolves
<1>4. Pops(t) /\ Posts(t, Elected(lead[t]))
  BY <1>1, <1>2, <1>3, SignalTypes, TaskPosts
<1>. QED BY <1>1, <1>4 DEF Announces

LEMMA PairAckShape ==
  ASSUME TypeOK, NEW t \in Tabs, PairAck(t)
  PROVE  Acked(t)
<1>1. /\ inbox[t] # <<>> /\ Head(inbox[t]).kind = "pair-ack" /\ Head(inbox[t]).client = t
      /\ await[t] # 0 /\ await[t] = Head(inbox[t]).leader
      /\ await' = [await EXCEPT ![t] = 0] /\ UNCHANGED <<phase, cur, pair, lead, epoch>>
      /\ inbox' = PostRequests(Pop(t), t, pair[t], Replayed(t))
  BY DEF PairAck, Handles, leaderVars, lockVars
<1>2. Pop(t) \in Boxes /\ pair[t] \in Nat /\ Replayed(t) \in Seq(Ids)
  BY <1>1, PopQueue, InFlightSortedType DEF TypeOK, PairType, Replayed
<1>3. inbox' \in Boxes /\ \A v \in Tabs : Evolves(Pop(t)[v], inbox'[v], {})
  BY <1>1, <1>2, PostRequestsType, EvolvesPost
<1>4. Pops(t) /\ Quiet(t)
  BY <1>1, <1>3, QuietTask
<1>. QED BY <1>1, <1>4 DEF Acked

LEMMA LeaderFailedShape ==
  ASSUME TypeOK, NEW t \in Tabs, LeaderFailed(t)
  PROVE  Abandons(t)
<1>1. /\ inbox[t] # <<>> /\ phase[t] = "open" /\ Head(inbox[t]).kind = "leader-failed"
      /\ Head(inbox[t]).leader = cur[t]
      /\ cur' = [cur EXCEPT ![t] = 0] /\ pair' = [pair EXCEPT ![t] = 0]
      /\ await' = [await EXCEPT ![t] = 0] /\ UNCHANGED <<phase, lead, epoch>>
      /\ inbox' = DropAnswers(Pop(t), t)
  BY DEF LeaderFailed, Handles, Runs, leaderVars, lockVars
<1>2. Pop(t) \in Boxes
  BY <1>1, PopQueue
<1>3. inbox' \in Boxes /\ \A v \in Tabs : Evolves(Pop(t)[v], inbox'[v], {})
  BY <1>1, <1>2, DropAnswersType, EvolvesDrop
<1>4. Pops(t) /\ Quiet(t)
  BY <1>1, <1>3, QuietTask
<1>. QED BY <1>1, <1>4 DEF Abandons

LEMMA StepShape ==
  ASSUME TypeOK, [Next]_vars, retries' = 0
  PROVE  HandshakeStep /\ retries = 0
<1>0. retries \in Nat
  BY DEF TypeOK, BoundsType
<1>1. ASSUME NEW t \in Tabs, RetryPair(t) PROVE FALSE
  BY <1>0, <1>1 DEF RetryPair
<1>2. ASSUME NEW t \in Tabs, Task(t) PROVE HandshakeStep
  BY <1>2, SkipsShapes, InterceptCloseShape, PairWithLeaderShape, AcceptPairShape, AnswerQueryShape,
     PairAckShape, LeaderFailedShape DEF Task, HandshakeStep
<1>3. ASSUME NEW t \in Tabs, Environment(t) PROVE HandshakeStep
  BY <1>1, <1>3, OpenShape, IdleShapes, WriterFailureShape, ClosesShape DEF Environment, Closes, HandshakeStep
<1>4. ASSUME NEW t \in Tabs, \/ Terminate(t) \/ GrantLock(t) \/ GrantAfterClose(t) \/ BecomeLeader(t)
                             \/ WriterRun(t) \/ ForwardReply(t)
      PROVE  HandshakeStep
  BY <1>4, ClosesShape, IdleShapes, BecomeLeaderShape, ForwardReplyShape DEF Closes, HandshakeStep
<1>5. ASSUME UNCHANGED vars PROVE HandshakeStep
  <2>1. UNCHANGED linkVars /\ inbox' = inbox
    BY <1>5 DEF vars, linkVars, pairVars, leaderVars, lockVars
  <2>2. Idle
    BY <2>1, SameQueues DEF Idle
  <2>. QED BY <2>2 DEF HandshakeStep
<1>6. HandshakeStep
  BY <1>2, <1>3, <1>4, <1>5 DEF Next
<1>7. retries = 0
  <2>1. ASSUME NEW t \in Tabs, Task(t) PROVE retries' = retries
    BY <2>1 DEF Task, Ignored, PairWithLeader, AcceptPair, PairAck, LeaderFailed, AnswerQuery,
                ForwardRequest, InterceptClose, Receive, bounds
  <2>2. ASSUME NEW t \in Tabs, Environment(t) PROVE retries' = retries
    BY <1>1, <2>2 DEF Environment, Open, Send, SendFailed, Unload, WriterFailure, WriterFailureTerminal,
                      LockRejected, bounds
  <2>3. ASSUME NEW t \in Tabs, \/ Terminate(t) \/ GrantLock(t) \/ GrantAfterClose(t) \/ BecomeLeader(t)
                               \/ WriterRun(t) \/ ForwardReply(t)
        PROVE  retries' = retries
    BY <2>3 DEF Terminate, GrantLock, GrantAfterClose, BecomeLeader, WriterRun, ForwardReply, bounds
  <2>4. UNCHANGED vars => retries' = retries
    BY DEF vars, bounds
  <2>. QED BY <2>1, <2>2, <2>3, <2>4 DEF Next
<1>. QED BY <1>6, <1>7

-----------------------------------------------------------------------------
(* The pairing invariant: where a tab stands with the leader of the moment *)
(* and what is queued about it.                                            *)

\* A tab's own link.
LinkInv ==
  \A v \in Tabs :
    /\ pair[v] <= epoch /\ cur[v] <= epoch
    /\ phase[v] # "open" => pair[v] = 0 /\ await[v] = 0
    /\ phase[v] = "new" => cur[v] = 0
    /\ phase[v] = "open" => await[v] \in {0, pair[v]} /\ cur[v] \in {0, pair[v]}
    /\ lead[v] # 0 => lead[v] = epoch /\ phase[v] = "open" /\ (pair[v] = lead[v] => await[v] = 0)
    /\ \A u \in Tabs : lead[u] # 0 /\ pair[v] = lead[u] => cur[v] = pair[v]
\* A tab that is paired with another tab as its leader has no other
\* announcement queued.  The leader itself may have older ones.
ElectedInv ==
  \A v \in Tabs : \A m \in Signals(inbox[v]) : m.kind = "leader-elected" =>
    /\ m.leader <= epoch
    /\ \A u \in Tabs \ {v} : lead[u] # 0 /\ pair[v] = lead[u] => m.leader = lead[u]
\* A pair-request queued at the leader is still waited for, its ack not sent.
RequestInv ==
  \A v \in Tabs :
    /\ \A m \in Signals(inbox[v]) : m.kind = "pair-request" => m.leader <= epoch
    /\ lead[v] # 0 =>
         \A c \in Tabs :
           PairRequest(lead[v], c) \in Signals(inbox[v]) /\ phase[c] \in {"new", "open"} =>
             await[c] = lead[v] /\ Ack(lead[v], c) \notin Signals(inbox[c])
\* The leader's ack finds its tab paired with that leader.
AckInv ==
  \A v \in Tabs : \A u \in Tabs \ {v} :
    lead[u] # 0 /\ Ack(lead[u], v) \in Signals(inbox[v]) => pair[v] = lead[u]
\* Announcements are queued in the order of the elections, and a client's
\* pair-request at most once.
QueueInv ==
  \A v \in Tabs :
    /\ InOrder(inbox[v])
    /\ lead[v] # 0 => \A c \in Tabs : phase[c] = "open" => Once(inbox[v], PairRequest(lead[v], c))
\* The handshake of an open tab with the leader, another tab, is complete or
\* under way.
MeetInv ==
  \A t \in Tabs : \A u \in Tabs \ {t} : phase[t] = "open" /\ lead[u] # 0 =>
    IF pair[t] = lead[u]
    THEN \/ await[t] = 0 \/ PairRequest(lead[u], t) \in Signals(inbox[u])
         \/ Ack(lead[u], t) \in Signals(inbox[t])
    ELSE \/ Elected(lead[u]) \in Signals(inbox[t])
         \/ \E m \in Signals(inbox[u]) : m.kind = "leader-query"
PairingInv == LinkInv /\ ElectedInv /\ RequestInv /\ AckInv /\ QueueInv /\ MeetInv

\* What the proofs below take from the other invariants.
Context ==
  /\ epoch \in Nat /\ phase \in [Tabs -> {"new", "open", "failed", "closed"}]
  /\ cur \in [Tabs -> Nat] /\ pair \in [Tabs -> Nat] /\ await \in [Tabs -> Nat]
  /\ lead \in [Tabs -> Nat]
  /\ \A v \in Tabs : inbox[v] \in Seq(Message)
  /\ \A v, u \in Tabs : lead[v] # 0 /\ lead[u] # 0 => u = v
  /\ \A v \in Tabs : granted = v => \A u \in Tabs : lead[u] = 0
  /\ \A v \in Tabs : \A m \in Signals(inbox[v]) : m.kind = "pair-ack" => m.leader <= epoch
  /\ \A v \in Tabs : \A m \in In(inbox[v]) :
       m.kind = "leader-failed" => m.leader # 0 /\ \A u \in Tabs : lead[u] # m.leader

LEMMA HasContext ==
  ASSUME TypeOK, LockInv, HandshakeInv
  PROVE  Context
<1>1. /\ epoch \in Nat /\ phase \in [Tabs -> {"new", "open", "failed", "closed"}]
      /\ cur \in [Tabs -> Nat] /\ pair \in [Tabs -> Nat] /\ await \in [Tabs -> Nat]
      /\ lead \in [Tabs -> Nat]
      /\ \A v \in Tabs : inbox[v] \in Seq(Message)
  BY DEF TypeOK, PairType, LeaderType, LockType, Boxes
<1>2. \A v, u \in Tabs : lead[v] # 0 /\ lead[u] # 0 => u = v
  BY OneLeader
<1>3. \A v \in Tabs : granted = v => \A u \in Tabs : lead[u] = 0
  BY TabsAssumption DEF LockInv
<1>5. ASSUME NEW v \in Tabs, NEW m \in In(inbox[v]) PROVE m \in NewsFor(v)
  <2>1. inbox[v] \in Seq(NewsFor(v))
    BY DEF HandshakeInv, Fits, News
  <2>2. PICK k \in DOMAIN inbox[v] : m = inbox[v][k]
    BY DEF In
  <2>. DEFINE S == NewsFor(v)
  <2>. HIDE DEF S
  <2>3. inbox[v] \in Seq(S)
    BY <2>1 DEF S
  <2>4. inbox[v][k] \in S
    BY <2>3
  <2>. QED BY <2>2, <2>4 DEF S
<1>6. ASSUME NEW v \in Tabs, NEW m \in In(inbox[v])
      PROVE  /\ m.kind = "pair-ack" => m.leader <= epoch
             /\ m.kind = "leader-failed" => m.leader # 0 /\ \A u \in Tabs : lead[u] # m.leader
  <2>1. m \in NewsFor(v)
    BY <1>5
  <2>. QED BY <2>1 DEF NewsFor
<1>. QED BY <1>1, <1>2, <1>3, <1>6 DEF Context, Signals

\* The signals and their fields.
LEMMA SignalFields ==
  ASSUME NEW l, NEW c
  PROVE  /\ Query.kind = "leader-query"
         /\ Elected(l).kind = "leader-elected" /\ Elected(l).leader = l
         /\ PairRequest(l, c).kind = "pair-request" /\ PairRequest(l, c).leader = l
         /\ PairRequest(l, c).client = c
         /\ Ack(l, c).kind = "pair-ack" /\ Ack(l, c).leader = l /\ Ack(l, c).client = c
BY DEF Query, Elected, PairRequest, Ack, Discovery

LEMMA SignalIs ==
  ASSUME NEW m \in Message
  PROVE  /\ m.kind = "leader-elected" => m = Elected(m.leader)
         /\ m.kind = "pair-request" => m = PairRequest(m.leader, m.client)
         /\ m.kind = "pair-ack" => m = Ack(m.leader, m.client)
BY DEF Message, Announcements, Handshakes, Envelopes, Elected, PairRequest, Ack, Discovery

-----------------------------------------------------------------------------
(* The pairing invariant is preserved.                                     *)

LEMMA QueuesStay ==
  /\ \A v \in Tabs : Stays(v) => Signals(inbox'[v]) = Signals(inbox[v])
  /\ \A t \in Tabs : Quiet(t) => \A v \in Tabs \ {t} : Signals(inbox'[v]) = Signals(inbox[v])
  /\ \A t \in Tabs : \A m : Posts(t, m) =>
       \A v \in Tabs \ {t} :
         Signals(inbox'[v]) = IF phase[v] = "open" THEN Signals(inbox[v]) \cup {m} ELSE Signals(inbox[v])
BY DEF Stays, Quiet, Posts, Carries

\* The head of a popped queue, what is left behind it.
LEMMA QueuePops ==
  ASSUME Context, NEW t \in Tabs, Pops(t)
  PROVE  LET h == Head(inbox[t])
         IN  /\ h \in Message /\ h \in In(inbox[t])
             /\ Signals(inbox'[t]) \subseteq Signals(inbox[t])
             /\ \A m \in Signals(inbox[t]) : m = h \/ m \in Signals(inbox'[t])
             /\ Free(h) => Signals(inbox'[t]) = Signals(inbox[t])
             /\ ~Free(h) => h \in Signals(inbox[t])
<1>1. inbox[t] \in Seq(Message) /\ inbox[t] # <<>>
  BY DEF Context, Pops
<1>2. Signals(inbox'[t]) = Signals(Tail(inbox[t]))
  BY DEF Pops, Carries
<1>. QED BY <1>1, <1>2, TailQueue

LEMMA PostsAdd ==
  ASSUME NEW t \in Tabs, NEW m, Posts(t, m), NEW v \in Tabs \ {t}
  PROVE  Signals(inbox'[v]) \subseteq Signals(inbox[v]) \cup {m}
BY DEF Posts, Stays, Carries

LEMMA PopsAndPosts ==
  ASSUME Context, NEW t \in Tabs, NEW m, Pops(t), Posts(t, m), NEW v \in Tabs
  PROVE  Signals(inbox'[v]) \subseteq Signals(inbox[v]) \cup {m}
<1>1. CASE v = t
  BY <1>1, QueuePops
<1>2. CASE v # t
  BY <1>2, PostsAdd
<1>. QED BY <1>1, <1>2

LEMMA NoSignals == Signals(<<>>) = {} /\ InOrder(<<>>) /\ \A m : Once(<<>>, m)
BY DEF Signals, In, InOrder, Once

\* A tab that hears of a leader or loses one was not paired with another tab
\* that leads.
LEMMA FollowsFresh ==
  ASSUME Context, PairingInv, NEW t \in Tabs, Follows(t)
  PROVE  LET h == Head(inbox[t])
         IN  /\ h = Elected(h.leader) /\ h \in Signals(inbox[t])
             /\ h.leader \in Nat /\ h.leader <= epoch /\ h.leader # lead[t]
             /\ \A u \in Tabs \ {t} : lead[u] # 0 => pair[t] # lead[u]
             /\ \A u \in Tabs : lead[u] # 0 => await[t] # lead[u]
<1>. DEFINE h == Head(inbox[t])
<1>1. h \in Message /\ h \in Signals(inbox[t]) /\ h.kind = "leader-elected"
  BY QueuePops DEF Follows, Free, SignalKinds
<1>. HIDE DEF h
<1>2. h = Elected(h.leader) /\ h.leader \in Nat
  BY <1>1, SignalIs, MessageFields
<1>3. h.leader <= epoch /\ h.leader # lead[t]
  BY <1>1 DEF PairingInv, ElectedInv, Follows, h
<1>4. ASSUME NEW u \in Tabs \ {t}, lead[u] # 0, pair[t] = lead[u] PROVE FALSE
  <2>1. h.leader = lead[u]
    BY <1>1, <1>4 DEF PairingInv, ElectedInv
  <2>2. cur[t] = pair[t]
    BY <1>4 DEF PairingInv, LinkInv
  <2>3. ~(cur[t] = h.leader /\ pair[t] # 0)
    BY DEF Follows, h
  <2>. QED BY <1>4, <2>1, <2>2, <2>3
<1>5. ASSUME NEW u \in Tabs, lead[u] # 0, await[t] = lead[u] PROVE FALSE
  <2>1. phase[t] = "open"
    BY DEF Follows
  <2>2. pair[t] = lead[u]
    BY <1>5, <2>1 DEF PairingInv, LinkInv
  <2>. QED BY <1>4, <1>5, <2>2 DEF PairingInv, LinkInv
<1>. QED BY <1>1, <1>2, <1>3, <1>4, <1>5 DEF h

LEMMA AbandonsDead ==
  ASSUME Context, PairingInv, NEW t \in Tabs, Abandons(t)
  PROVE  \A u \in Tabs : lead[u] # 0 => pair[t] # lead[u]
<1>. DEFINE h == Head(inbox[t])
<1>1. h \in In(inbox[t]) /\ h.kind = "leader-failed" /\ h.leader = cur[t] /\ phase[t] = "open"
  BY QueuePops DEF Abandons
<1>. HIDE DEF h
<1>2. cur[t] # 0 /\ \A u \in Tabs : lead[u] # cur[t]
  BY <1>1 DEF Context
<1>3. cur[t] = pair[t]
  BY <1>1, <1>2 DEF PairingInv, LinkInv
<1>. QED BY <1>2, <1>3 DEF Context

LEMMA LinkStep ==
  ASSUME Context, PairingInv, HandshakeStep
  PROVE  LinkInv'
<1>0. /\ LinkInv /\ epoch \in Nat /\ phase \in [Tabs -> {"new", "open", "failed", "closed"}]
      /\ cur \in [Tabs -> Nat] /\ pair \in [Tabs -> Nat] /\ await \in [Tabs -> Nat] /\ lead \in [Tabs -> Nat]
      /\ \A v, u \in Tabs : lead[v] # 0 /\ lead[u] # 0 => u = v
      /\ \A v \in Tabs : granted = v => \A u \in Tabs : lead[u] = 0
  BY DEF PairingInv, Context
<1>1. CASE Idle
  BY <1>0, <1>1 DEF Idle, linkVars, LinkInv
<1>2. ASSUME NEW t \in Tabs, Skips(t) \/ Accepts(t) \/ Announces(t) PROVE LinkInv'
  BY <1>0, <1>2 DEF Skips, Accepts, Announces, linkVars, LinkInv
<1>3. ASSUME NEW t \in Tabs, Opens(t) PROVE LinkInv'
  BY <1>0, <1>3 DEF Opens, LinkInv
<1>4. ASSUME NEW t \in Tabs, Leads(t) PROVE LinkInv'
  BY <1>0, <1>4 DEF Leads, LinkInv
<1>5. ASSUME NEW t \in Tabs, Resigns(t) PROVE LinkInv'
  BY <1>0, <1>5 DEF Resigns, LinkInv
<1>6. ASSUME NEW t \in Tabs, Ends(t) PROVE LinkInv'
  BY <1>0, <1>6 DEF Ends, LinkInv
<1>7. ASSUME NEW t \in Tabs, Follows(t) PROVE LinkInv'
  <2>. DEFINE l == Head(inbox[t]).leader
  <2>1. /\ phase[t] = "open" /\ cur' = [cur EXCEPT ![t] = l] /\ pair' = [pair EXCEPT ![t] = l]
        /\ await' = [await EXCEPT ![t] = l] /\ UNCHANGED <<phase, lead, epoch>>
    BY <1>7 DEF Follows
  <2>2. l \in Nat /\ l <= epoch /\ l # lead[t]
    BY <1>7, FollowsFresh
  <2>. HIDE DEF l
  <2>3. ASSUME NEW v \in Tabs, v # t
        PROVE  cur'[v] = cur[v] /\ pair'[v] = pair[v] /\ await'[v] = await[v]
    BY <1>0, <2>1, <2>3
  <2>4. cur'[t] = l /\ pair'[t] = l /\ await'[t] = l
    BY <1>0, <2>1
  <2>. QED BY <1>0, <2>1, <2>2, <2>3, <2>4 DEF LinkInv
<1>8. ASSUME NEW t \in Tabs, Acked(t) PROVE LinkInv'
  BY <1>0, <1>8 DEF Acked, LinkInv
<1>9. ASSUME NEW t \in Tabs, Abandons(t) PROVE LinkInv'
  <2>1. /\ cur' = [cur EXCEPT ![t] = 0] /\ pair' = [pair EXCEPT ![t] = 0]
        /\ await' = [await EXCEPT ![t] = 0] /\ UNCHANGED <<phase, lead, epoch>>
    BY <1>9 DEF Abandons
  <2>. QED BY <1>0, <2>1 DEF LinkInv
<1>. QED BY <1>1, <1>2, <1>3, <1>4, <1>5, <1>6, <1>7, <1>8, <1>9 DEF HandshakeStep

\* The order of announcements behind the one that is handled.
LEMMA OrderedBehind ==
  ASSUME Context, PairingInv, NEW t \in Tabs, Pops(t), Head(inbox[t]).kind = "leader-elected"
  PROVE  \A x \in Signals(inbox'[t]) : x.kind = "leader-elected" => Head(inbox[t]).leader <= x.leader
<1>1. inbox[t] \in Seq(Message) /\ inbox[t] # <<>> /\ InOrder(inbox[t])
  BY DEF Context, Pops, PairingInv, QueueInv
<1>2. Signals(inbox'[t]) = Signals(Tail(inbox[t]))
  BY DEF Pops, Carries
<1>. QED BY <1>1, <1>2, TailQueue

LEMMA SignalLeader == \A v \in Tabs : Context => \A m \in Signals(inbox[v]) : m \in Message /\ m.leader \in Nat
<1>. SUFFICES ASSUME NEW v \in Tabs, Context, NEW m \in Signals(inbox[v]) PROVE m \in Message /\ m.leader \in Nat
  OBVIOUS
<1>1. m \in Message
  BY DEF Context, Signals, In
<1>. QED BY <1>1, MessageFields

LEMMA ElectedStep ==
  ASSUME Context, PairingInv, HandshakeStep
  PROVE  ElectedInv'
<1>0. ElectedInv /\ LinkInv
  BY DEF PairingInv
<1>1. CASE Idle
  BY <1>0, <1>1, QueuesStay DEF Idle, linkVars, ElectedInv
<1>2. ASSUME NEW t \in Tabs, Skips(t) PROVE ElectedInv'
  <2>1. \A v \in Tabs : Signals(inbox'[v]) \subseteq Signals(inbox[v])
    BY <1>2, QueuesStay, QueuePops DEF Skips
  <2>. QED BY <1>0, <1>2, <2>1 DEF Skips, linkVars, ElectedInv
<1>3. ASSUME NEW t \in Tabs, Opens(t) PROVE ElectedInv'
  <2>1. \A v \in Tabs : Signals(inbox'[v]) \subseteq Signals(inbox[v]) \cup {Query}
    BY <1>3, QueuesStay DEF Opens
  <2>. QED BY <1>0, <1>3, <2>1, SignalFields DEF Opens, ElectedInv
<1>4. ASSUME NEW t \in Tabs, Leads(t) PROVE ElectedInv'
  <2>1. \A v \in Tabs \ {t} : Signals(inbox'[v]) \subseteq Signals(inbox[v]) \cup {Elected(epoch + 1)}
    BY <1>4, QueuesStay DEF Leads
  <2>2. Signals(inbox'[t]) = Signals(inbox[t])
    BY <1>4, QueuesStay DEF Leads
  <2>3. /\ \A v \in Tabs \ {t} : pair'[v] <= epoch /\ pair'[v] \in Nat
        /\ \A v \in Tabs : lead'[v] # 0 => v = t /\ lead'[v] = epoch + 1
        /\ epoch' = epoch + 1 /\ epoch \in Nat
    BY <1>0, <1>4 DEF Leads, Context, LinkInv
  <2>4. \A v \in Tabs : \A m \in Signals(inbox[v]) : m.leader \in Nat
    BY SignalLeader
  <2>. QED BY <1>0, <2>1, <2>2, <2>3, <2>4, SignalFields DEF ElectedInv
<1>5. ASSUME NEW t \in Tabs, Resigns(t) PROVE ElectedInv'
  BY <1>0, <1>5, QueuesStay DEF Resigns, ElectedInv, Context
<1>6. ASSUME NEW t \in Tabs, Ends(t) PROVE ElectedInv'
  <2>1. \A v \in Tabs : Signals(inbox'[v]) \subseteq Signals(inbox[v])
    BY <1>6, QueuesStay, NoSignals DEF Ends
  <2>2. Signals(inbox'[t]) = {}
    BY <1>6, NoSignals DEF Ends
  <2>3. /\ \A v \in Tabs \ {t} : pair'[v] = pair[v]
        /\ \A v \in Tabs : lead'[v] = lead[v] \/ lead'[v] = 0
        /\ epoch' = epoch
    BY <1>6 DEF Ends, Context
  <2>. QED BY <1>0, <2>1, <2>2, <2>3 DEF ElectedInv
<1>7. ASSUME NEW t \in Tabs, Follows(t) PROVE ElectedInv'
  <2>. DEFINE h == Head(inbox[t])
  <2>1. Pops(t) /\ h.kind = "leader-elected" /\ Posts(t, PairRequest(h.leader, t))
    BY <1>7 DEF Follows
  <2>2. \A v \in Tabs \ {t} : Signals(inbox'[v]) \subseteq Signals(inbox[v]) \cup {PairRequest(h.leader, t)}
    BY <2>1, PostsAdd
  <2>3. Signals(inbox'[t]) \subseteq Signals(inbox[t])
    BY <2>1, QueuePops
  <2>4. \A x \in Signals(inbox'[t]) : x.kind = "leader-elected" => h.leader <= x.leader
    BY <2>1, OrderedBehind
  <2>5. h.leader \in Nat
    BY <1>7, FollowsFresh
  <2>6. UNCHANGED <<lead, epoch>> /\ pair' = [pair EXCEPT ![t] = h.leader]
    BY <1>7 DEF Follows
  <2>. HIDE DEF h
  <2>7. ASSUME NEW v \in Tabs \ {t}, NEW m \in Signals(inbox'[v]), m.kind = "leader-elected"
        PROVE  /\ m.leader <= epoch'
               /\ \A u \in Tabs \ {v} : lead'[u] # 0 /\ pair'[v] = lead'[u] => m.leader = lead'[u]
    <3>1. m \in Signals(inbox[v])
      BY <2>2, <2>7, SignalFields
    <3>. QED BY <1>0, <2>6, <2>7, <3>1 DEF ElectedInv, Context
  <2>8. ASSUME NEW m \in Signals(inbox'[t]), m.kind = "leader-elected"
        PROVE  /\ m.leader <= epoch'
               /\ \A u \in Tabs \ {t} : lead'[u] # 0 /\ pair'[t] = lead'[u] => m.leader = lead'[u]
    <3>1. m \in Signals(inbox[t]) /\ m.leader \in Nat /\ m.leader <= epoch /\ h.leader <= m.leader
      BY <1>0, <2>3, <2>4, <2>8, SignalLeader DEF ElectedInv
    <3>2. pair'[t] = h.leader /\ epoch \in Nat
      BY <2>6 DEF Context
    <3>3. \A u \in Tabs : lead[u] # 0 => lead[u] = epoch
      BY <1>0 DEF LinkInv
    <3>. QED BY <2>5, <2>6, <3>1, <3>2, <3>3
  <2>. QED BY <2>7, <2>8 DEF ElectedInv
<1>8. ASSUME NEW t \in Tabs, Accepts(t) PROVE ElectedInv'
  <2>1. PICK m : Posts(t, m) /\ m.kind = "pair-ack" /\ Pops(t)
    BY <1>8, SignalFields DEF Accepts
  <2>2. \A v \in Tabs : Signals(inbox'[v]) \subseteq Signals(inbox[v]) \cup {m}
    BY <2>1, PopsAndPosts
  <2>. QED BY <1>0, <1>8, <2>1, <2>2 DEF Accepts, linkVars, ElectedInv
<1>9. ASSUME NEW t \in Tabs, Acked(t) \/ Abandons(t) PROVE ElectedInv'
  <2>1. \A v \in Tabs : Signals(inbox'[v]) \subseteq Signals(inbox[v])
    BY <1>9, QueuesStay, QueuePops DEF Acked, Abandons
  <2>2. lead' = lead /\ epoch' = epoch /\ \A v \in Tabs : pair'[v] = pair[v] \/ pair'[v] = 0
    BY <1>9 DEF Acked, Abandons, Context
  <2>. QED BY <1>0, <2>1, <2>2 DEF ElectedInv
<1>10. ASSUME NEW t \in Tabs, Announces(t) PROVE ElectedInv'
  <2>1. \A v \in Tabs : Signals(inbox'[v]) \subseteq Signals(inbox[v]) \cup {Elected(lead[t])}
    <3>1. Pops(t) /\ Posts(t, Elected(lead[t]))
      BY <1>10 DEF Announces
    <3>. QED BY <3>1, PopsAndPosts
  <2>2. lead[t] # 0 /\ lead[t] = epoch /\ epoch \in Nat /\ UNCHANGED linkVars
    BY <1>0, <1>10 DEF Announces, LinkInv, Context
  <2>3. \A u \in Tabs : lead[u] # 0 => lead[u] = epoch
    BY <1>0 DEF LinkInv
  <2>. QED BY <1>0, <2>1, <2>2, <2>3, SignalFields DEF linkVars, ElectedInv
<1>. QED BY <1>1, <1>2, <1>3, <1>4, <1>5, <1>6, <1>7, <1>8, <1>9, <1>10 DEF HandshakeStep

LEMMA RequestStep ==
  ASSUME Context, PairingInv, HandshakeStep
  PROVE  RequestInv'
<1>0. RequestInv /\ LinkInv /\ AckInv
  BY DEF PairingInv
<1>1. CASE Idle
  BY <1>0, <1>1, QueuesStay DEF Idle, linkVars, RequestInv
<1>2. ASSUME NEW t \in Tabs, Skips(t) PROVE RequestInv'
  <2>1. \A v \in Tabs : Signals(inbox'[v]) \subseteq Signals(inbox[v])
    BY <1>2, QueuesStay, QueuePops DEF Skips
  <2>. QED BY <1>0, <1>2, <2>1 DEF Skips, linkVars, RequestInv
<1>3. ASSUME NEW t \in Tabs, Opens(t) PROVE RequestInv'
  <2>1. \A v \in Tabs : Signals(inbox'[v]) \subseteq Signals(inbox[v]) \cup {Query}
    BY <1>3, QueuesStay DEF Opens
  <2>2. /\ UNCHANGED <<lead, epoch, await>>
        /\ \A c \in Tabs : phase'[c] \in {"new", "open"} => phase[c] \in {"new", "open"}
    BY <1>3 DEF Opens, Context
  <2>3. \A v, c \in Tabs : PairRequest(lead[v], c) # Query /\ Ack(lead[v], c) # Query
    BY SignalFields
  <2>4. \A v \in Tabs : \A m \in Signals(inbox'[v]) : m.kind = "pair-request" => m \in Signals(inbox[v])
    BY <2>1, SignalFields
  <2>. QED BY <1>0, <2>1, <2>2, <2>3, <2>4 DEF RequestInv
<1>4. ASSUME NEW t \in Tabs, Leads(t) PROVE RequestInv'
  <2>1. \A v \in Tabs : Signals(inbox'[v]) \subseteq Signals(inbox[v]) \cup {Elected(epoch + 1)}
    BY <1>4, QueuesStay DEF Leads
  <2>2. \A v \in Tabs : \A m \in Signals(inbox'[v]) :
          m.kind = "pair-request" => m.leader \in Nat /\ m.leader <= epoch
    BY <1>0, <2>1, SignalFields, SignalLeader DEF RequestInv
  <2>3. epoch' = epoch + 1 /\ epoch \in Nat /\ \A v \in Tabs : lead'[v] # 0 => lead'[v] = epoch + 1
    BY <1>4 DEF Leads, Context
  <2>. QED BY <2>2, <2>3, SignalFields DEF RequestInv
<1>5. ASSUME NEW t \in Tabs, Resigns(t) PROVE RequestInv'
  <2>1. /\ \A v \in Tabs : lead'[v] = 0
        /\ epoch' = epoch
    BY <1>5 DEF Resigns, Context
  <2>2. \A v \in Tabs : Signals(inbox'[v]) = Signals(inbox[v])
    BY <1>5, QueuesStay DEF Resigns
  <2>. QED BY <1>0, <2>1, <2>2 DEF RequestInv
<1>6. ASSUME NEW t \in Tabs, Ends(t) PROVE RequestInv'
  <2>1. \A v \in Tabs : Signals(inbox'[v]) \subseteq Signals(inbox[v])
    BY <1>6, QueuesStay, NoSignals DEF Ends
  <2>2. /\ \A c \in Tabs : phase'[c] \in {"new", "open"} =>
             phase[c] \in {"new", "open"} /\ await'[c] = await[c]
        /\ \A v \in Tabs : lead'[v] # 0 => lead'[v] = lead[v]
        /\ epoch' = epoch
    BY <1>6 DEF Ends, Context
  <2>. QED BY <1>0, <2>1, <2>2 DEF RequestInv
<1>7. ASSUME NEW t \in Tabs, Follows(t) PROVE RequestInv'
  <2>. DEFINE h == Head(inbox[t])
              req == PairRequest(h.leader, t)
  <2>1. /\ Pops(t) /\ Posts(t, req) /\ phase[t] = "open" /\ UNCHANGED <<phase, lead, epoch>>
        /\ await' = [await EXCEPT ![t] = h.leader]
    BY <1>7 DEF Follows
  <2>2. /\ h.leader \in Nat /\ h.leader <= epoch /\ h.leader # lead[t]
        /\ \A u \in Tabs \ {t} : lead[u] # 0 => pair[t] # lead[u]
        /\ \A u \in Tabs : lead[u] # 0 => await[t] # lead[u]
    BY <1>7, FollowsFresh
  <2>3. \A v \in Tabs : Signals(inbox'[v]) \subseteq Signals(inbox[v]) \cup {req}
    BY <2>1, PopsAndPosts
  <2>. HIDE DEF h
  <2>4. req.kind = "pair-request" /\ req.leader = h.leader /\ req.client = t
    BY SignalFields
  <2>5. /\ \A v \in Tabs : \A m \in Signals(inbox'[v]) : m.kind = "pair-request" => m.leader <= epoch
    BY <1>0, <2>2, <2>3, <2>4 DEF RequestInv
  <2>6. ASSUME NEW v \in Tabs, NEW c \in Tabs, lead[v] # 0, PairRequest(lead[v], c) \in Signals(inbox'[v]),
               phase[c] \in {"new", "open"}
        PROVE  await'[c] = lead[v] /\ Ack(lead[v], c) \notin Signals(inbox'[c])
    <3>1. Ack(lead[v], c) \in Signals(inbox'[c]) => Ack(lead[v], c) \in Signals(inbox[c])
      BY <2>3, <2>4, SignalFields
    <3>2. CASE c = t
      <4>1. PairRequest(lead[v], t) \notin Signals(inbox[v])
        BY <1>0, <2>1, <2>2, <2>6 DEF RequestInv
      <4>2. PairRequest(lead[v], t) = req
        BY <2>3, <2>6, <3>2, <4>1
      <4>3. lead[v] = h.leader
        BY <4>2, SignalFields
      <4>4. Ack(lead[v], t) \notin Signals(inbox[t])
        BY <1>0, <2>2, <2>6, <4>3 DEF AckInv
      <4>. QED BY <2>1, <3>1, <3>2, <4>3, <4>4 DEF Context
    <3>3. CASE c # t
      <4>1. PairRequest(lead[v], c) \in Signals(inbox[v])
        BY <2>3, <2>4, <2>6, <3>3, SignalFields
      <4>2. await'[c] = await[c]
        BY <2>1, <3>3 DEF Context
      <4>. QED BY <1>0, <2>6, <3>1, <4>1, <4>2 DEF RequestInv
    <3>. QED BY <3>2, <3>3
  <2>. QED BY <2>1, <2>5, <2>6 DEF RequestInv
<1>8. ASSUME NEW t \in Tabs, Accepts(t) PROVE RequestInv'
  <2>. DEFINE h == Head(inbox[t])
              ack == Ack(lead[t], h.client)
  <2>1. /\ Pops(t) /\ Posts(t, ack) /\ UNCHANGED linkVars
        /\ h.kind = "pair-request" /\ lead[t] # 0 /\ h.leader = lead[t]
    BY <1>8 DEF Accepts
  <2>2. h \in Message /\ h \in Signals(inbox[t]) /\ h = PairRequest(lead[t], h.client) /\ h.client \in Tabs
    BY <2>1, QueuePops, SignalIs, MessageFields DEF Free, SignalKinds, Handshakes
  <2>3. \A v \in Tabs : Signals(inbox'[v]) \subseteq Signals(inbox[v]) \cup {ack}
    BY <2>1, PopsAndPosts
  <2>4. ack.kind = "pair-ack" /\ ack.client = h.client
    BY SignalFields
  <2>5. phase[h.client] = "open" => h \notin Signals(inbox'[t])
    <3>1. ASSUME phase[h.client] = "open" PROVE Once(inbox[t], h)
      BY <2>1, <2>2, <3>1 DEF PairingInv, QueueInv
    <3>2. Signals(inbox'[t]) = Signals(Tail(inbox[t])) /\ inbox[t] \in Seq(Message) /\ inbox[t] # <<>>
      BY <2>1 DEF Pops, Carries, Context
    <3>. QED BY <3>1, <3>2, TailQueue DEF Signals
  <2>. HIDE DEF h
  <2>6. \A v \in Tabs : \A m \in Signals(inbox'[v]) : m.kind = "pair-request" => m \in Signals(inbox[v])
    BY <2>3, <2>4
  <2>7. ASSUME NEW v \in Tabs, NEW c \in Tabs, lead[v] # 0, PairRequest(lead[v], c) \in Signals(inbox'[v]),
               phase[c] \in {"new", "open"}
        PROVE  await[c] = lead[v] /\ Ack(lead[v], c) \notin Signals(inbox'[c])
    <3>1. PairRequest(lead[v], c) \in Signals(inbox[v]) /\ v = t
      BY <2>1, <2>6, <2>7, SignalFields DEF Context
    <3>2. await[c] = lead[v] /\ Ack(lead[v], c) \notin Signals(inbox[c])
      BY <1>0, <2>7, <3>1 DEF RequestInv
    <3>3. phase[c] = "open"
      BY <1>0, <2>7, <3>2 DEF LinkInv
    <3>4. c # h.client
      BY <2>2, <2>5, <2>7, <3>1, <3>3
    <3>5. Ack(lead[v], c) # ack
      BY <2>4, <3>4, SignalFields
    <3>. QED BY <2>3, <3>2, <3>5
  <2>. QED BY <1>0, <2>1, <2>6, <2>7 DEF linkVars, RequestInv
<1>9. ASSUME NEW t \in Tabs, Acked(t) PROVE RequestInv'
  <2>. DEFINE h == Head(inbox[t])
  <2>1. \A v \in Tabs : Signals(inbox'[v]) \subseteq Signals(inbox[v])
    BY <1>9, QueuesStay, QueuePops DEF Acked
  <2>2. /\ UNCHANGED <<phase, lead, epoch>> /\ await' = [await EXCEPT ![t] = 0] /\ Pops(t)
        /\ h.kind = "pair-ack" /\ h.client = t /\ await[t] = h.leader
    BY <1>9 DEF Acked
  <2>3. Ack(await[t], t) \in Signals(inbox[t])
    <3>1. h \in Message /\ h \in Signals(inbox[t])
      BY <2>2, QueuePops DEF Free, SignalKinds
    <3>. QED BY <2>2, <3>1, SignalIs
  <2>4. \A c \in Tabs \ {t} : await'[c] = await[c]
    BY <2>2 DEF Context
  <2>. HIDE DEF h
  <2>. QED BY <1>0, <2>1, <2>2, <2>3, <2>4 DEF RequestInv
<1>10. ASSUME NEW t \in Tabs, Abandons(t) PROVE RequestInv'
  <2>1. \A v \in Tabs : Signals(inbox'[v]) \subseteq Signals(inbox[v])
    BY <1>10, QueuesStay, QueuePops DEF Abandons
  <2>2. UNCHANGED <<phase, lead, epoch>> /\ await' = [await EXCEPT ![t] = 0] /\ phase[t] = "open"
    BY <1>10 DEF Abandons
  <2>3. \A u \in Tabs : lead[u] # 0 => await[t] # lead[u]
    BY <1>0, <1>10, <2>2, AbandonsDead DEF LinkInv
  <2>4. \A c \in Tabs \ {t} : await'[c] = await[c]
    BY <2>2 DEF Context
  <2>. QED BY <1>0, <2>1, <2>2, <2>3, <2>4 DEF RequestInv
<1>11. ASSUME NEW t \in Tabs, Announces(t) PROVE RequestInv'
  <2>1. \A v \in Tabs : Signals(inbox'[v]) \subseteq Signals(inbox[v]) \cup {Elected(lead[t])}
    <3>1. Pops(t) /\ Posts(t, Elected(lead[t]))
      BY <1>11 DEF Announces
    <3>. QED BY <3>1, PopsAndPosts
  <2>2. \A v \in Tabs : \A m \in Signals(inbox'[v]) :
          m.kind \in {"pair-request", "pair-ack"} => m \in Signals(inbox[v])
    BY <2>1, SignalFields
  <2>3. \A v, c \in Tabs :
          /\ PairRequest(lead[v], c) \in Signals(inbox'[v]) => PairRequest(lead[v], c) \in Signals(inbox[v])
          /\ Ack(lead[v], c) \in Signals(inbox'[c]) => Ack(lead[v], c) \in Signals(inbox[c])
    BY <2>2, SignalFields
  <2>. QED BY <1>0, <1>11, <2>2, <2>3 DEF Announces, linkVars, RequestInv
<1>. QED BY <1>1, <1>2, <1>3, <1>4, <1>5, <1>6, <1>7, <1>8, <1>9, <1>10, <1>11 DEF HandshakeStep

LEMMA AckStep ==
  ASSUME Context, PairingInv, HandshakeStep
  PROVE  AckInv'
<1>0. AckInv /\ LinkInv
  BY DEF PairingInv
<1>1. CASE Idle
  BY <1>0, <1>1, QueuesStay DEF Idle, linkVars, AckInv
<1>2. ASSUME NEW t \in Tabs, Skips(t) \/ Acked(t) \/ Abandons(t) PROVE AckInv'
  <2>1. \A v \in Tabs : Signals(inbox'[v]) \subseteq Signals(inbox[v])
    BY <1>2, QueuesStay, QueuePops DEF Skips, Acked, Abandons
  <2>2. CASE Skips(t) \/ Acked(t)
    <3>1. pair' = pair /\ lead' = lead
      BY <2>2 DEF Skips, Acked, linkVars
    <3>. QED BY <1>0, <2>1, <3>1 DEF AckInv
  <2>3. CASE Abandons(t)
    <3>1. lead' = lead /\ \A v \in Tabs \ {t} : pair'[v] = pair[v]
      BY <2>3 DEF Abandons, Context
    <3>2. \A u \in Tabs : lead[u] # 0 => pair[t] # lead[u]
      BY <2>3, AbandonsDead
    <3>. QED BY <1>0, <2>1, <3>1, <3>2 DEF AckInv
  <2>. QED BY <1>2, <2>2, <2>3
<1>3. ASSUME NEW t \in Tabs, NEW m, UNCHANGED <<pair, lead>>, m.kind # "pair-ack",
             \A v \in Tabs : Signals(inbox'[v]) \subseteq Signals(inbox[v]) \cup {m}
      PROVE  AckInv'
  <2>1. \A v, u \in Tabs : Ack(lead[u], v) # m
    BY <1>3, SignalFields
  <2>. QED BY <1>0, <1>3, <2>1 DEF AckInv
<1>4. ASSUME NEW t \in Tabs, Opens(t) PROVE AckInv'
  <2>1. \A v \in Tabs : Signals(inbox'[v]) \subseteq Signals(inbox[v]) \cup {Query}
    BY <1>4, QueuesStay DEF Opens
  <2>2. UNCHANGED <<pair, lead>>
    BY <1>4 DEF Opens
  <2>. QED BY <1>3, <2>1, <2>2, SignalFields
<1>5. ASSUME NEW t \in Tabs, Announces(t) PROVE AckInv'
  <2>1. \A v \in Tabs : Signals(inbox'[v]) \subseteq Signals(inbox[v]) \cup {Elected(lead[t])}
    <3>1. Pops(t) /\ Posts(t, Elected(lead[t]))
      BY <1>5 DEF Announces
    <3>. QED BY <3>1, PopsAndPosts
  <2>2. UNCHANGED <<pair, lead>>
    BY <1>5 DEF Announces, linkVars
  <2>. QED BY <1>3, <2>1, <2>2, SignalFields
<1>6. ASSUME NEW t \in Tabs, Leads(t) PROVE AckInv'
  <2>1. \A v \in Tabs : Signals(inbox'[v]) \subseteq Signals(inbox[v]) \cup {Elected(epoch + 1)}
    BY <1>6, QueuesStay DEF Leads
  <2>2. epoch \in Nat /\ \A u \in Tabs : lead'[u] # 0 => lead'[u] = epoch + 1
    BY <1>6 DEF Leads, Context
  <2>3. ASSUME NEW v \in Tabs PROVE Ack(epoch + 1, v) \notin Signals(inbox'[v])
    <3>1. ASSUME Ack(epoch + 1, v) \in Signals(inbox[v]) PROVE FALSE
      <4>1. Ack(epoch + 1, v).kind = "pair-ack" /\ Ack(epoch + 1, v).leader = epoch + 1
        BY SignalFields
      <4>2. epoch + 1 <= epoch
        BY <3>1, <4>1 DEF Context
      <4>. QED BY <2>2, <4>2
    <3>2. Ack(epoch + 1, v) # Elected(epoch + 1)
      BY SignalFields
    <3>. QED BY <2>1, <3>1, <3>2
  <2>. QED BY <2>2, <2>3 DEF AckInv
<1>7. ASSUME NEW t \in Tabs, Resigns(t) PROVE AckInv'
  <2>1. \A v \in Tabs : lead'[v] = 0
    BY <1>7 DEF Resigns, Context
  <2>. QED BY <2>1 DEF AckInv
<1>8. ASSUME NEW t \in Tabs, Ends(t) PROVE AckInv'
  <2>1. \A v \in Tabs : Signals(inbox'[v]) \subseteq Signals(inbox[v])
    BY <1>8, QueuesStay, NoSignals DEF Ends
  <2>2. /\ \A v \in Tabs \ {t} : pair'[v] = pair[v]
        /\ \A v \in Tabs : lead'[v] # 0 => lead'[v] = lead[v]
        /\ Signals(inbox'[t]) = {}
    BY <1>8, NoSignals DEF Ends, Context
  <2>. QED BY <1>0, <2>1, <2>2 DEF AckInv
<1>9. ASSUME NEW t \in Tabs, Follows(t) PROVE AckInv'
  <2>. DEFINE req == PairRequest(Head(inbox[t]).leader, t)
  <2>1. Pops(t) /\ Posts(t, req) /\ lead' = lead /\ \A v \in Tabs \ {t} : pair'[v] = pair[v]
    BY <1>9 DEF Follows, Context
  <2>2. req.kind = "pair-request"
    BY SignalFields
  <2>3. \A u \in Tabs \ {t} : lead[u] # 0 => pair[t] # lead[u]
    BY <1>9, FollowsFresh
  <2>4. Signals(inbox'[t]) \subseteq Signals(inbox[t])
    BY <2>1, QueuePops
  <2>. HIDE DEF req
  <2>5. \A v \in Tabs \ {t} : Signals(inbox'[v]) \subseteq Signals(inbox[v]) \cup {req}
    BY <2>1, QueuesStay
  <2>6. \A v, u \in Tabs : Ack(lead[u], v) # req
    BY <2>2, SignalFields
  <2>. QED BY <1>0, <2>1, <2>3, <2>4, <2>5, <2>6 DEF AckInv
<1>10. ASSUME NEW t \in Tabs, Accepts(t) PROVE AckInv'
  <2>. DEFINE h == Head(inbox[t])
              ack == Ack(lead[t], h.client)
  <2>1. /\ Pops(t) /\ Posts(t, ack) /\ UNCHANGED linkVars
        /\ h.kind = "pair-request" /\ lead[t] # 0 /\ h.leader = lead[t]
    BY <1>10 DEF Accepts
  <2>2. h \in Message /\ h \in Signals(inbox[t]) /\ h = PairRequest(lead[t], h.client) /\ h.client \in Tabs
    BY <2>1, QueuePops, SignalIs, MessageFields DEF Free, SignalKinds, Handshakes
  <2>3. Signals(inbox'[t]) \subseteq Signals(inbox[t])
    BY <2>1, QueuePops
  <2>4. \A l, c : Ack(l, c) = ack => l = lead[t] /\ c = h.client
    BY SignalFields
  <2>. HIDE DEF ack
  <2>5. \A v \in Tabs \ {t} :
          Signals(inbox'[v]) \subseteq IF phase[v] = "open" THEN Signals(inbox[v]) \cup {ack} ELSE Signals(inbox[v])
    BY <2>1, QueuesStay
  <2>. HIDE DEF h
  <2>6. phase[h.client] = "open" => pair[h.client] = lead[t]
    <3>1. phase[h.client] = "open" => await[h.client] = lead[t]
      BY <2>1, <2>2 DEF PairingInv, RequestInv
    <3>. QED BY <1>0, <2>1, <2>2, <3>1 DEF LinkInv
  <2>7. ASSUME NEW v \in Tabs, NEW u \in Tabs \ {v}, lead[u] # 0, Ack(lead[u], v) \in Signals(inbox'[v])
        PROVE  pair[v] = lead[u]
    <3>1. CASE Ack(lead[u], v) \in Signals(inbox[v])
      BY <1>0, <2>7, <3>1 DEF AckInv
    <3>2. CASE Ack(lead[u], v) = ack /\ phase[v] = "open"
      BY <2>4, <2>6, <3>2
    <3>. QED BY <2>3, <2>5, <2>7, <3>1, <3>2
  <2>. QED BY <2>1, <2>7 DEF AckInv, linkVars
<1>. QED BY <1>1, <1>2, <1>4, <1>5, <1>6, <1>7, <1>8, <1>9, <1>10 DEF HandshakeStep

\* The order and the number of signals, queue by queue.
LEMMA OrderStays ==
  ASSUME Context, PairingInv, NEW v \in Tabs
  PROVE  /\ Stays(v) => InOrder(inbox'[v]) /\ \A m : ~Free(m) /\ Once(inbox[v], m) => Once(inbox'[v], m)
         /\ Pops(v) => InOrder(inbox'[v]) /\ \A m : ~Free(m) /\ Once(inbox[v], m) => Once(inbox'[v], m)
         /\ \A x : Carries(inbox[v], inbox'[v], {x}) =>
              /\ (x.kind = "leader-elected" =>
                    \A y \in Signals(inbox[v]) : y.kind = "leader-elected" => y.leader <= x.leader)
                 => InOrder(inbox'[v])
              /\ \A m : ~Free(m) /\ Once(inbox[v], m) /\ (m = x => m \notin Signals(inbox[v]))
                   => Once(inbox'[v], m)
<1>1. InOrder(inbox[v]) /\ inbox[v] \in Seq(Message)
  BY DEF PairingInv, QueueInv, Context
<1>2. Stays(v) => InOrder(inbox'[v]) /\ \A m : ~Free(m) /\ Once(inbox[v], m) => Once(inbox'[v], m)
  BY <1>1 DEF Stays, Carries
<1>3. ASSUME Pops(v)
      PROVE  InOrder(inbox'[v]) /\ \A m : ~Free(m) /\ Once(inbox[v], m) => Once(inbox'[v], m)
  <2>1. InOrder(Tail(inbox[v])) /\ \A m : Once(inbox[v], m) => Once(Tail(inbox[v]), m)
    BY <1>1, <1>3, TailQueue DEF Pops
  <2>2. Carries(Tail(inbox[v]), inbox'[v], {})
    BY <1>3 DEF Pops
  <2>. QED BY <2>1, <2>2 DEF Carries
<1>4. ASSUME NEW x, Carries(inbox[v], inbox'[v], {x})
      PROVE  /\ (x.kind = "leader-elected" =>
                    \A y \in Signals(inbox[v]) : y.kind = "leader-elected" => y.leader <= x.leader)
                => InOrder(inbox'[v])
             /\ \A m : ~Free(m) /\ Once(inbox[v], m) /\ (m = x => m \notin Signals(inbox[v]))
                  => Once(inbox'[v], m)
  BY <1>1, <1>4 DEF Carries
<1>. QED BY <1>2, <1>3, <1>4

LEMMA QueueStep ==
  ASSUME Context, PairingInv, HandshakeStep
  PROVE  QueueInv'
<1>0. QueueInv /\ RequestInv /\ LinkInv /\ ElectedInv
  BY DEF PairingInv
<1>a. \A l, c : ~Free(PairRequest(l, c))
  BY SignalFields DEF Free, SignalKinds
<1>1. CASE Idle
  BY <1>0, <1>1, <1>a, OrderStays DEF Idle, linkVars, QueueInv
<1>2. ASSUME NEW t \in Tabs, Skips(t) \/ Acked(t) \/ Abandons(t) PROVE QueueInv'
  <2>1. UNCHANGED <<phase, lead>> /\ Pops(t) /\ Quiet(t)
    BY <1>2 DEF Skips, Acked, Abandons, linkVars
  <2>. QED BY <1>0, <1>a, <2>1, OrderStays DEF Quiet, QueueInv
<1>3. ASSUME NEW t \in Tabs, NEW x, x.kind # "leader-elected", x.kind # "pair-request",
             UNCHANGED lead, Posts(t, x), Stays(t) \/ Pops(t),
             \A v \in Tabs : lead[v] # 0 =>
               \A c \in Tabs : phase'[c] = "open" => Once(inbox[v], PairRequest(lead[v], c))
      PROVE  QueueInv'
  <2>1. \A l, c : PairRequest(l, c) # x
    BY <1>3, SignalFields
  <2>2. InOrder(inbox'[t]) /\ \A m : ~Free(m) /\ Once(inbox[t], m) => Once(inbox'[t], m)
    BY <1>3, OrderStays
  <2>3. ASSUME NEW v \in Tabs \ {t}
        PROVE  InOrder(inbox'[v]) /\ \A m : ~Free(m) /\ Once(inbox[v], m) /\ m # x => Once(inbox'[v], m)
    <3>1. Stays(v) \/ Carries(inbox[v], inbox'[v], {x})
      BY <1>3 DEF Posts
    <3>. QED BY <1>3, <3>1, OrderStays
  <2>. QED BY <1>3, <1>a, <2>1, <2>2, <2>3 DEF QueueInv
<1>4. ASSUME NEW t \in Tabs, Opens(t) PROVE QueueInv'
  <2>1. UNCHANGED lead /\ Posts(t, Query) /\ Stays(t) /\ phase[t] = "new" /\ phase' = [phase EXCEPT ![t] = "open"]
    BY <1>4 DEF Opens
  <2>2. ASSUME NEW v \in Tabs, lead[v] # 0, NEW c \in Tabs, phase'[c] = "open"
        PROVE  Once(inbox[v], PairRequest(lead[v], c))
    <3>1. CASE phase[c] = "open"
      BY <1>0, <2>2, <3>1 DEF QueueInv
    <3>2. CASE phase[c] = "new"
      <4>1. await[c] = 0
        BY <1>0, <3>2 DEF LinkInv
      <4>2. PairRequest(lead[v], c) \notin Signals(inbox[v])
        BY <1>0, <2>2, <3>2, <4>1 DEF RequestInv
      <4>. QED BY <1>a, <4>2 DEF Once, Signals, In
    <3>3. phase[c] = "open" \/ phase[c] = "new"
      BY <2>1, <2>2 DEF Context
    <3>. QED BY <3>1, <3>2, <3>3
  <2>. QED BY <1>3, <2>1, <2>2, SignalFields
<1>5. ASSUME NEW t \in Tabs, Accepts(t) PROVE QueueInv'
  <2>1. PICK x : Posts(t, x) /\ x.kind = "pair-ack"
    BY <1>5, SignalFields DEF Accepts
  <2>2. UNCHANGED <<lead, phase>> /\ Pops(t)
    BY <1>5 DEF Accepts, linkVars
  <2>. QED BY <1>0, <1>3, <2>1, <2>2 DEF QueueInv
<1>6. ASSUME NEW t \in Tabs, Leads(t) PROVE QueueInv'
  <2>1. /\ Stays(t) /\ Posts(t, Elected(epoch + 1)) /\ phase' = phase /\ epoch \in Nat
        /\ \A v \in Tabs : lead'[v] # 0 => v = t /\ lead'[v] = epoch + 1
    BY <1>6 DEF Leads, Context
  <2>2. InOrder(inbox'[t])
    BY <2>1, OrderStays
  <2>3. ASSUME NEW v \in Tabs \ {t} PROVE InOrder(inbox'[v])
    <3>1. Stays(v) \/ Carries(inbox[v], inbox'[v], {Elected(epoch + 1)})
      BY <2>1 DEF Posts
    <3>2. \A y \in Signals(inbox[v]) : y.kind = "leader-elected" => y.leader \in Nat /\ y.leader <= epoch
      BY <1>0, SignalLeader DEF ElectedInv
    <3>3. \A y \in Signals(inbox[v]) : y.kind = "leader-elected" => y.leader <= Elected(epoch + 1).leader
      BY <2>1, <3>2, SignalFields
    <3>. QED BY <3>1, <3>3, OrderStays
  <2>4. ASSUME NEW c \in Tabs PROVE Once(inbox'[t], PairRequest(epoch + 1, c))
    <3>1. PairRequest(epoch + 1, c) \notin Signals(inbox[t])
      <4>1. ASSUME PairRequest(epoch + 1, c) \in Signals(inbox[t]) PROVE FALSE
        <5>1. epoch + 1 <= epoch
          BY <1>0, <4>1, SignalFields DEF RequestInv
        <5>. QED BY <2>1, <5>1
      <4>. QED BY <4>1
    <3>2. Once(inbox[t], PairRequest(epoch + 1, c))
      BY <1>a, <3>1 DEF Once, Signals, In
    <3>. QED BY <1>a, <2>1, <3>2, OrderStays
  <2>. QED BY <2>1, <2>2, <2>3, <2>4 DEF QueueInv
<1>7. ASSUME NEW t \in Tabs, Resigns(t) PROVE QueueInv'
  <2>1. (\A v \in Tabs : Stays(v)) /\ \A v \in Tabs : lead'[v] = 0
    BY <1>7 DEF Resigns, Context
  <2>. QED BY <2>1, OrderStays DEF QueueInv
<1>8. ASSUME NEW t \in Tabs, Ends(t) PROVE QueueInv'
  <2>1. /\ \A c \in Tabs : phase'[c] = "open" => phase[c] = "open"
        /\ \A v \in Tabs : lead'[v] # 0 => v # t /\ lead'[v] = lead[v]
        /\ inbox'[t] = <<>> /\ Quiet(t)
    BY <1>8 DEF Ends, Context
  <2>2. InOrder(inbox'[t])
    BY <2>1, NoSignals
  <2>. QED BY <1>0, <1>a, <2>1, <2>2, OrderStays DEF Quiet, QueueInv
<1>9. ASSUME NEW t \in Tabs, Follows(t) PROVE QueueInv'
  <2>. DEFINE l == Head(inbox[t]).leader
              req == PairRequest(l, t)
  <2>1. Pops(t) /\ Posts(t, req) /\ UNCHANGED <<lead, phase>> /\ phase[t] = "open"
    BY <1>9 DEF Follows
  <2>2. req.kind = "pair-request" /\ \A k, c : PairRequest(k, c) = req => c = t
    BY SignalFields
  <2>3. \A u \in Tabs : lead[u] # 0 => await[t] # lead[u]
    BY <1>9, FollowsFresh
  <2>. HIDE DEF req
  <2>4. InOrder(inbox'[t]) /\ \A m : ~Free(m) /\ Once(inbox[t], m) => Once(inbox'[t], m)
    BY <2>1, OrderStays
  <2>5. ASSUME NEW v \in Tabs \ {t}
        PROVE  InOrder(inbox'[v]) /\ \A m : ~Free(m) /\ Once(inbox[v], m) /\ (m = req => m \notin Signals(inbox[v]))
                                              => Once(inbox'[v], m)
    <3>1. Stays(v) \/ Carries(inbox[v], inbox'[v], {req})
      BY <2>1 DEF Posts
    <3>. QED BY <2>2, <3>1, OrderStays
  <2>6. ASSUME NEW v \in Tabs, lead[v] # 0 PROVE PairRequest(lead[v], t) \notin Signals(inbox[v])
    BY <1>0, <2>1, <2>3, <2>6 DEF RequestInv
  <2>7. ASSUME NEW v \in Tabs, lead[v] # 0, NEW c \in Tabs, phase[c] = "open"
        PROVE  Once(inbox'[v], PairRequest(lead[v], c))
    <3>1. Once(inbox[v], PairRequest(lead[v], c))
      BY <1>0, <2>7 DEF QueueInv
    <3>2. PairRequest(lead[v], c) = req => PairRequest(lead[v], c) \notin Signals(inbox[v])
      BY <2>2, <2>6, <2>7
    <3>. QED BY <1>a, <2>4, <2>5, <3>1, <3>2
  <2>. QED BY <2>1, <2>4, <2>5, <2>7 DEF QueueInv
<1>10. ASSUME NEW t \in Tabs, Announces(t) PROVE QueueInv'
  <2>1. Pops(t) /\ Posts(t, Elected(lead[t])) /\ UNCHANGED <<lead, phase>> /\ lead[t] # 0
    BY <1>10 DEF Announces, linkVars
  <2>2. lead[t] = epoch /\ \A l, c : PairRequest(l, c) # Elected(lead[t])
    BY <1>0, <2>1, SignalFields DEF LinkInv
  <2>3. InOrder(inbox'[t]) /\ \A m : ~Free(m) /\ Once(inbox[t], m) => Once(inbox'[t], m)
    BY <2>1, OrderStays
  <2>4. ASSUME NEW v \in Tabs \ {t}
        PROVE  InOrder(inbox'[v]) /\ \A m : ~Free(m) /\ Once(inbox[v], m) /\ m # Elected(lead[t]) => Once(inbox'[v], m)
    <3>1. Stays(v) \/ Carries(inbox[v], inbox'[v], {Elected(lead[t])})
      BY <2>1 DEF Posts
    <3>2. \A y \in Signals(inbox[v]) : y.kind = "leader-elected" => y.leader <= Elected(lead[t]).leader
      BY <1>0, <2>2, SignalFields DEF ElectedInv
    <3>. QED BY <3>1, <3>2, OrderStays
  <2>. QED BY <1>0, <1>a, <2>1, <2>2, <2>3, <2>4 DEF QueueInv
<1>. QED BY <1>1, <1>2, <1>4, <1>5, <1>6, <1>7, <1>8, <1>9, <1>10 DEF HandshakeStep

\* Only the signals that the meeting of t and u needs have to stay.
LEMMA MeetKept ==
  ASSUME MeetInv, NEW t \in Tabs, NEW u \in Tabs \ {t}, phase[t] = "open", lead[u] # 0,
         pair'[t] = pair[t], lead'[u] = lead[u], await'[t] = await[t] \/ await'[t] = 0,
         await[t] # 0 /\ await'[t] # 0 /\ PairRequest(lead[u], t) \in Signals(inbox[u]) =>
           \/ PairRequest(lead[u], t) \in Signals(inbox'[u])
           \/ Ack(lead[u], t) \in Signals(inbox'[t]),
         pair[t] = lead[u] /\ await[t] # 0 /\ await'[t] # 0 /\ Ack(lead[u], t) \in Signals(inbox[t]) =>
           Ack(lead[u], t) \in Signals(inbox'[t]),
         pair[t] # lead[u] /\ Elected(lead[u]) \in Signals(inbox[t]) =>
           Elected(lead[u]) \in Signals(inbox'[t]),
         \A m \in Signals(inbox[u]) : m.kind = "leader-query" /\ pair[t] # lead[u] =>
           m \in Signals(inbox'[u]) \/ Elected(lead[u]) \in Signals(inbox'[t])
  PROVE  IF pair'[t] = lead'[u]
         THEN \/ await'[t] = 0 \/ PairRequest(lead'[u], t) \in Signals(inbox'[u])
              \/ Ack(lead'[u], t) \in Signals(inbox'[t])
         ELSE \/ Elected(lead'[u]) \in Signals(inbox'[t])
              \/ \E m \in Signals(inbox'[u]) : m.kind = "leader-query"
BY DEF MeetInv

LEMMA PostsReach ==
  ASSUME NEW t \in Tabs, NEW m, Posts(t, m), NEW v \in Tabs \ {t}
  PROVE  Signals(inbox[v]) \subseteq Signals(inbox'[v]) /\ (phase[v] = "open" => m \in Signals(inbox'[v]))
BY DEF Posts, Stays, Carries

LEMMA MeetStep ==
  ASSUME Context, PairingInv, HandshakeStep
  PROVE  MeetInv'
<1>0. MeetInv /\ RequestInv /\ LinkInv /\ ElectedInv
  BY DEF PairingInv
<1>. DEFINE Meet(t, u) ==
              IF pair'[t] = lead'[u]
              THEN \/ await'[t] = 0 \/ PairRequest(lead'[u], t) \in Signals(inbox'[u])
                   \/ Ack(lead'[u], t) \in Signals(inbox'[t])
              ELSE \/ Elected(lead'[u]) \in Signals(inbox'[t])
                   \/ \E m \in Signals(inbox'[u]) : m.kind = "leader-query"
<1>. SUFFICES ASSUME NEW t \in Tabs, NEW u \in Tabs \ {t}, phase'[t] = "open", lead'[u] # 0
              PROVE  Meet(t, u)
  BY DEF MeetInv
<1>1. ASSUME UNCHANGED linkVars, Signals(inbox[t]) \subseteq Signals(inbox'[t]),
             Signals(inbox[u]) \subseteq Signals(inbox'[u])
      PROVE  Meet(t, u)
  <2>1. phase[t] = "open" /\ lead[u] # 0 /\ pair'[t] = pair[t] /\ lead'[u] = lead[u] /\ await'[t] = await[t]
    BY <1>1 DEF linkVars
  <2>. QED BY <1>0, <1>1, <2>1, MeetKept
<1>2. CASE Idle
  BY <1>1, <1>2, QueuesStay DEF Idle
<1>3. ASSUME NEW a \in Tabs, Skips(a) PROVE Meet(t, u)
  <2>. DEFINE h == Head(inbox[a])
  <2>1. /\ phase[t] = "open" /\ lead[u] # 0 /\ pair'[t] = pair[t] /\ lead'[u] = lead[u] /\ await'[t] = await[t]
        /\ Pops(a) /\ Quiet(a)
    BY <1>3 DEF Skips, linkVars
  <2>2. \A v \in Tabs : \A m \in Signals(inbox[v]) : m \in Signals(inbox'[v]) \/ (v = a /\ m = h /\ ~Free(h))
    BY <2>1, QueuesStay, QueuePops
  <2>3. \/ Free(h)
        \/ h.kind = "leader-elected" /\ (h.leader = lead[a] \/ (cur[a] = h.leader /\ pair[a] # 0))
        \/ h.kind = "pair-request" /\ h.leader # lead[a]
        \/ h.kind = "pair-ack" /\ (h.client # a \/ await[a] # h.leader)
        \/ h.kind = "leader-query" /\ lead[a] = 0
    BY <1>3 DEF Skips
  <2>4. ~Free(h) => h \in Signals(inbox[a])
    BY <2>1, QueuePops
  <2>. HIDE DEF h
  <2>5. PairRequest(lead[u], t) \in Signals(inbox[u]) => PairRequest(lead[u], t) \in Signals(inbox'[u])
    BY <2>2, <2>3, SignalFields
  <2>6. pair[t] = lead[u] /\ await[t] # 0 /\ Ack(lead[u], t) \in Signals(inbox[t]) =>
           Ack(lead[u], t) \in Signals(inbox'[t])
    <3>1. await[t] # 0 => await[t] = pair[t]
      BY <1>0, <2>1 DEF LinkInv
    <3>. QED BY <2>2, <2>3, <3>1, SignalFields
  <2>7. pair[t] # lead[u] /\ Elected(lead[u]) \in Signals(inbox[t]) => Elected(lead[u]) \in Signals(inbox'[t])
    <3>1. lead[t] = 0
      BY <2>1 DEF Context
    <3>2. cur[t] # 0 => cur[t] = pair[t]
      BY <1>0, <2>1 DEF LinkInv
    <3>. QED BY <2>1, <2>2, <2>3, <3>1, <3>2, SignalFields
  <2>8. \A m \in Signals(inbox[u]) : m.kind = "leader-query" => m \in Signals(inbox'[u])
    BY <2>1, <2>2, <2>3
  <2>. QED BY <1>0, <2>1, <2>5, <2>6, <2>7, <2>8, MeetKept
<1>4. ASSUME NEW a \in Tabs, Opens(a) PROVE Meet(t, u)
  <2>1. /\ phase[a] = "new" /\ phase' = [phase EXCEPT ![a] = "open"]
        /\ UNCHANGED <<cur, pair, await, lead, epoch>> /\ Posts(a, Query) /\ Stays(a)
    BY <1>4 DEF Opens
  <2>2. CASE t = a
    <3>1. pair[t] = 0 /\ phase[u] = "open" /\ u # a
      BY <1>0, <2>1, <2>2 DEF LinkInv
    <3>2. Query \in Signals(inbox'[u])
      BY <2>1, <3>1, PostsReach
    <3>. QED BY <2>1, <3>1, <3>2, SignalFields
  <2>3. CASE t # a
    <3>1. phase[t] = "open"
      BY <2>1, <2>3 DEF Context
    <3>2. \A v \in Tabs : Signals(inbox[v]) \subseteq Signals(inbox'[v])
      <4>1. \A v \in Tabs \ {a} : Signals(inbox[v]) \subseteq Signals(inbox'[v])
        BY <2>1, PostsReach
      <4>2. Signals(inbox'[a]) = Signals(inbox[a])
        BY <2>1, QueuesStay
      <4>. QED BY <4>1, <4>2
    <3>. QED BY <1>0, <2>1, <3>1, <3>2, MeetKept
  <2>. QED BY <2>2, <2>3
<1>5. ASSUME NEW a \in Tabs, Leads(a) PROVE Meet(t, u)
  <2>1. /\ phase' = phase /\ Posts(a, Elected(epoch + 1)) /\ u = a /\ lead'[u] = epoch + 1
        /\ pair' = [pair EXCEPT ![a] = epoch + 1] /\ await' = [await EXCEPT ![a] = 0]
    BY <1>5 DEF Leads, Context
  <2>2. pair'[t] = pair[t] /\ pair[t] <= epoch /\ pair[t] \in Nat /\ epoch \in Nat
    BY <1>0, <2>1 DEF Context, LinkInv
  <2>3. Elected(epoch + 1) \in Signals(inbox'[t])
    <3>1. t \in Tabs \ {a} /\ phase[t] = "open"
      BY <2>1
    <3>. QED BY <2>1, <3>1, PostsReach
  <2>4. pair'[t] # lead'[u]
    BY <2>1, <2>2
  <2>. QED BY <2>1, <2>3, <2>4
<1>6. ASSUME NEW a \in Tabs, Resigns(a) PROVE Meet(t, u)
  BY <1>6 DEF Resigns, Context
<1>7. ASSUME NEW a \in Tabs, Ends(a) PROVE Meet(t, u)
  <2>1. t # a /\ u # a /\ phase[t] = "open" /\ lead[u] # 0 /\ lead'[u] = lead[u] /\ pair'[t] = pair[t]
        /\ await'[t] = await[t] /\ Quiet(a)
    BY <1>7 DEF Ends, Context
  <2>2. Signals(inbox'[t]) = Signals(inbox[t]) /\ Signals(inbox'[u]) = Signals(inbox[u])
    BY <2>1, QueuesStay
  <2>. QED BY <1>0, <2>1, <2>2, MeetKept
<1>8. ASSUME NEW a \in Tabs, Follows(a) PROVE Meet(t, u)
  <2>. DEFINE h == Head(inbox[a])
  <2>1. /\ phase' = phase /\ lead' = lead /\ pair' = [pair EXCEPT ![a] = h.leader]
        /\ await' = [await EXCEPT ![a] = h.leader]
        /\ Pops(a) /\ Posts(a, PairRequest(h.leader, a))
    BY <1>8 DEF Follows
  <2>2. h = Elected(h.leader) /\ \A v \in Tabs \ {a} : lead[v] # 0 => pair[a] # lead[v]
    BY <1>8, FollowsFresh
  <2>3. \A m \in Signals(inbox[a]) : m \in Signals(inbox'[a]) \/ m = h
    BY <2>1, QueuePops
  <2>4. \A v \in Tabs \ {a} : Signals(inbox[v]) \subseteq Signals(inbox'[v])
    BY <2>1, PostsReach
  <2>5. \A v \in Tabs \ {a} : phase[v] = "open" => PairRequest(h.leader, a) \in Signals(inbox'[v])
    BY <2>1, PostsReach
  <2>. HIDE DEF h
  <2>6. h.kind = "leader-elected"
    BY <2>2, SignalFields
  <2>7. phase[u] = "open" /\ lead[u] # 0
    BY <1>0, <2>1 DEF LinkInv
  <2>8. CASE t = a /\ h.leader = lead[u]
    BY <2>1, <2>5, <2>7, <2>8 DEF Context
  <2>9. CASE t = a /\ h.leader # lead[u]
    <3>1. pair'[t] # lead'[u] /\ pair[t] # lead[u]
      BY <2>1, <2>2, <2>9 DEF Context
    <3>2. Elected(lead[u]) \in Signals(inbox[t]) \/ \E m \in Signals(inbox[u]) : m.kind = "leader-query"
      BY <1>0, <2>1, <3>1 DEF MeetInv
    <3>3. Elected(lead[u]) # h
      BY <2>9, SignalFields
    <3>. QED BY <2>1, <2>3, <2>4, <2>7, <2>9, <3>1, <3>2, <3>3
  <2>10. CASE t # a
    <3>1. pair'[t] = pair[t] /\ await'[t] = await[t]
      BY <2>1, <2>10 DEF Context
    <3>2. /\ PairRequest(lead[u], t) \in Signals(inbox[u]) => PairRequest(lead[u], t) \in Signals(inbox'[u])
          /\ \A m \in Signals(inbox[u]) : m.kind = "leader-query" => m \in Signals(inbox'[u])
      BY <2>3, <2>4, <2>6, SignalFields
    <3>. QED BY <1>0, <2>1, <2>4, <2>7, <2>10, <3>1, <3>2, MeetKept
  <2>. QED BY <2>8, <2>9, <2>10
<1>9. ASSUME NEW a \in Tabs, Accepts(a) PROVE Meet(t, u)
  <2>. DEFINE h == Head(inbox[a])
              ack == Ack(lead[a], h.client)
  <2>1. /\ Pops(a) /\ Posts(a, ack) /\ UNCHANGED linkVars
        /\ h.kind = "pair-request" /\ lead[a] # 0 /\ h.leader = lead[a]
    BY <1>9 DEF Accepts
  <2>2. h \in Message /\ h = PairRequest(lead[a], h.client)
    BY <2>1, QueuePops, SignalIs
  <2>3. \A m \in Signals(inbox[a]) : m \in Signals(inbox'[a]) \/ m = h
    BY <2>1, QueuePops
  <2>. HIDE DEF ack
  <2>4. \A v \in Tabs \ {a} :
          /\ Signals(inbox[v]) \subseteq Signals(inbox'[v])
          /\ phase[v] = "open" => ack \in Signals(inbox'[v])
    BY <2>1, PostsReach
  <2>. HIDE DEF h
  <2>5. /\ phase[t] = "open" /\ lead[u] # 0 /\ pair'[t] = pair[t] /\ lead'[u] = lead[u] /\ await'[t] = await[t]
        /\ u = a
    BY <2>1 DEF linkVars, Context
  <2>6. t # a
    BY <2>5
  <2>7. await[t] # 0 /\ PairRequest(lead[u], t) \in Signals(inbox[u]) =>
           \/ PairRequest(lead[u], t) \in Signals(inbox'[u])
           \/ Ack(lead[u], t) \in Signals(inbox'[t])
    <3>1. CASE PairRequest(lead[u], t) = h
      <4>1. h.client = t
        BY <3>1, SignalFields
      <4>. QED BY <2>4, <2>5, <2>6, <4>1 DEF ack
    <3>. QED BY <2>3, <2>5, <3>1
  <2>8. Ack(lead[u], t) # h /\ Elected(lead[u]) # h
    BY <2>1, SignalFields
  <2>9. /\ Ack(lead[u], t) \in Signals(inbox[t]) => Ack(lead[u], t) \in Signals(inbox'[t])
        /\ Elected(lead[u]) \in Signals(inbox[t]) => Elected(lead[u]) \in Signals(inbox'[t])
        /\ \A m \in Signals(inbox[u]) : m.kind = "leader-query" => m \in Signals(inbox'[u])
    BY <2>1, <2>3, <2>4, <2>5, <2>8
  <2>. QED BY <1>0, <2>5, <2>7, <2>9, MeetKept
<1>10. ASSUME NEW a \in Tabs, Acked(a) PROVE Meet(t, u)
  <2>. DEFINE h == Head(inbox[a])
  <2>1. /\ Pops(a) /\ Quiet(a) /\ UNCHANGED <<phase, pair, lead>> /\ await' = [await EXCEPT ![a] = 0]
        /\ h.kind = "pair-ack"
    BY <1>10 DEF Acked
  <2>2. \A v \in Tabs : \A m \in Signals(inbox[v]) : m \in Signals(inbox'[v]) \/ (v = a /\ m = h)
    BY <2>1, QueuesStay, QueuePops
  <2>. HIDE DEF h
  <2>3. (await'[t] = await[t] \/ await'[t] = 0) /\ (t = a => await'[t] = 0)
    BY <2>1 DEF Context
  <2>4. PairRequest(lead[u], t) # h /\ Elected(lead[u]) # h
    BY <2>1, SignalFields
  <2>. QED BY <1>0, <2>1, <2>2, <2>3, <2>4, MeetKept
<1>11. ASSUME NEW a \in Tabs, Abandons(a) PROVE Meet(t, u)
  <2>. DEFINE h == Head(inbox[a])
  <2>1. /\ Pops(a) /\ Quiet(a) /\ UNCHANGED <<phase, lead>> /\ await' = [await EXCEPT ![a] = 0]
        /\ pair' = [pair EXCEPT ![a] = 0] /\ h.kind = "leader-failed"
    BY <1>11 DEF Abandons
  <2>2. \A v \in Tabs : \A m \in Signals(inbox[v]) : m \in Signals(inbox'[v])
    BY <2>1, QueuesStay, QueuePops DEF Free, SignalKinds
  <2>. HIDE DEF h
  <2>3. CASE t = a
    <3>1. pair[t] # lead[u] /\ pair'[t] # lead'[u]
      BY <1>11, <2>1, <2>3, AbandonsDead DEF Context
    <3>2. Elected(lead[u]) \in Signals(inbox[t]) \/ \E m \in Signals(inbox[u]) : m.kind = "leader-query"
      BY <1>0, <2>1, <3>1 DEF MeetInv
    <3>. QED BY <2>1, <2>2, <3>1, <3>2
  <2>4. CASE t # a
    <3>1. pair'[t] = pair[t] /\ await'[t] = await[t]
      BY <2>1, <2>4 DEF Context
    <3>. QED BY <1>0, <2>1, <2>2, <3>1, MeetKept
  <2>. QED BY <2>3, <2>4
<1>12. ASSUME NEW a \in Tabs, Announces(a) PROVE Meet(t, u)
  <2>. DEFINE h == Head(inbox[a])
  <2>1. /\ Pops(a) /\ Posts(a, Elected(lead[a])) /\ UNCHANGED linkVars /\ lead[a] # 0 /\ h.kind = "leader-query"
    BY <1>12 DEF Announces
  <2>2. \A m \in Signals(inbox[a]) : m \in Signals(inbox'[a]) \/ m = h
    BY <2>1, QueuePops
  <2>3. \A v \in Tabs \ {a} :
          /\ Signals(inbox[v]) \subseteq Signals(inbox'[v])
          /\ phase[v] = "open" => Elected(lead[a]) \in Signals(inbox'[v])
    BY <2>1, PostsReach
  <2>. HIDE DEF h
  <2>4. /\ phase[t] = "open" /\ lead[u] # 0 /\ pair'[t] = pair[t] /\ lead'[u] = lead[u] /\ await'[t] = await[t]
        /\ u = a
    BY <2>1 DEF linkVars, Context
  <2>5. pair[t] # lead[u] => Elected(lead[u]) \in Signals(inbox'[t])
    BY <2>3, <2>4 DEF Context
  <2>6. PairRequest(lead[u], t) # h /\ Ack(lead[u], t) # h
    BY <2>1, SignalFields
  <2>7. /\ Ack(lead[u], t) \in Signals(inbox[t]) => Ack(lead[u], t) \in Signals(inbox'[t])
        /\ PairRequest(lead[u], t) \in Signals(inbox[u]) => PairRequest(lead[u], t) \in Signals(inbox'[u])
    BY <2>2, <2>3, <2>4, <2>6
  <2>. QED BY <1>0, <2>4, <2>5, <2>7, MeetKept
<1>. QED BY <1>2, <1>3, <1>4, <1>5, <1>6, <1>7, <1>8, <1>9, <1>10, <1>11, <1>12 DEF HandshakeStep

LEMMA PairingStep ==
  ASSUME TypeOK, LockInv, HandshakeInv, PairingInv, [Next]_vars, retries' = 0
  PROVE  PairingInv'
<1>1. Context /\ HandshakeStep
  BY HasContext, StepShape
<1>. QED BY <1>1, LinkStep, ElectedStep, RequestStep, AckStep, QueueStep, MeetStep DEF PairingInv

-----------------------------------------------------------------------------
(* Requests and answers: what a step leaves in a queue.                    *)

LEMMA InAppend ==
  ASSUME NEW s \in Seq(Message), NEW x
  PROVE  In(Append(s, x)) = In(s) \cup {x}
<1>1. /\ Len(s) \in Nat /\ DOMAIN s = 1 .. Len(s) /\ DOMAIN Append(s, x) = 1 .. Len(s) + 1
      /\ \A k \in 1 .. Len(s) : Append(s, x)[k] = s[k]
      /\ Append(s, x)[Len(s) + 1] = x
  OBVIOUS
<1>2. \A k \in 1 .. Len(s) + 1 : k \in 1 .. Len(s) \/ k = Len(s) + 1
  BY <1>1
<1>3. 1 .. Len(s) \subseteq 1 .. Len(s) + 1 /\ Len(s) + 1 \in 1 .. Len(s) + 1
  BY <1>1
<1>. QED BY <1>1, <1>2, <1>3 DEF In

LEMMA InConcat ==
  ASSUME NEW s \in Seq(Message), NEW r \in Seq(Message)
  PROVE  In(s) \subseteq In(s \o r) /\ In(r) \subseteq In(s \o r)
<1>. DEFINE q == s \o r
<1>1. /\ Len(s) \in Nat /\ Len(r) \in Nat /\ DOMAIN s = 1 .. Len(s) /\ DOMAIN r = 1 .. Len(r)
      /\ DOMAIN q = 1 .. Len(s) + Len(r)
      /\ \A k \in 1 .. Len(s) : q[k] = s[k]
      /\ \A k \in 1 .. Len(r) : q[k + Len(s)] = r[k]
  OBVIOUS
<1>. HIDE DEF q
<1>2. \A k \in DOMAIN s : k \in DOMAIN q /\ q[k] = s[k]
  BY <1>1
<1>3. \A k \in DOMAIN r : k + Len(s) \in DOMAIN q /\ q[k + Len(s)] = r[k]
  BY <1>1
<1>4. \A k \in DOMAIN q : q[k] \in In(q)
  BY DEF In
<1>5. In(s) \subseteq In(q)
  BY <1>2, <1>4 DEF In
<1>6. In(r) \subseteq In(q)
  BY <1>3, <1>4 DEF In
<1>. QED BY <1>5, <1>6 DEF q

LEMMA InPosted ==
  ASSUME NEW box \in Boxes, NEW t \in Tabs, NEW v \in Tabs
  PROVE  /\ \A m \in Message : In(box[v]) \subseteq In(Broadcast(box, t, m)[v])
         /\ \A l \in Nat, ids \in Seq(Ids) :
              /\ In(box[v]) \subseteq In(PostRequests(box, t, l, ids)[v])
              /\ lead[v] = l /\ t \in bridges[v] =>
                   \A k \in DOMAIN ids : Request(l, t, ids[k]) \in In(PostRequests(box, t, l, ids)[v])
<1>0. box[v] \in Seq(Message)
  BY DEF Boxes
<1>1. ASSUME NEW m \in Message PROVE In(box[v]) \subseteq In(Broadcast(box, t, m)[v])
  <2>1. Broadcast(box, t, m)[v] = Append(box[v], m) \/ Broadcast(box, t, m)[v] = box[v]
    BY DEF Broadcast
  <2>. QED BY <1>0, <2>1, InAppend
<1>2. ASSUME NEW l \in Nat, NEW ids \in Seq(Ids)
      PROVE  /\ In(box[v]) \subseteq In(PostRequests(box, t, l, ids)[v])
             /\ lead[v] = l /\ t \in bridges[v] =>
                  \A k \in DOMAIN ids : Request(l, t, ids[k]) \in In(PostRequests(box, t, l, ids)[v])
  <2>. DEFINE reqs == [i \in DOMAIN ids |-> Request(l, t, ids[i])]
  <2>1. reqs \in Seq(Message)
    BY RequestsFree
  <2>2. PostRequests(box, t, l, ids)[v] = IF lead[v] = l /\ t \in bridges[v] THEN box[v] \o reqs ELSE box[v]
    BY DEF PostRequests
  <2>3. \A k \in DOMAIN ids : Request(l, t, ids[k]) \in In(reqs)
    BY DEF In
  <2>. HIDE DEF reqs
  <2>4. In(box[v]) \subseteq In(box[v] \o reqs) /\ In(reqs) \subseteq In(box[v] \o reqs)
    BY <1>0, <2>1, InConcat
  <2>. QED BY <2>2, <2>3, <2>4
<1>. QED BY <1>1, <1>2

LEMMA InDropped ==
  ASSUME NEW box \in Boxes, NEW t \in Tabs, NEW C, NEW v \in Tabs, NEW m \in In(box[v])
  PROVE  /\ v # t \/ m.kind \notin {"response", "error"} => m \in In(DropAnswers(box, t)[v])
         /\ v # t \/ ~(m.kind = "request" /\ m.client \in C) => m \in In(DropRequests(box, t, C)[v])
<1>. DEFINE s == box[v]
            A == [k \in DOMAIN s |-> IF s[k].kind \in {"response", "error"} THEN Dropped ELSE s[k]]
            R == [k \in DOMAIN s |-> IF s[k].kind = "request" /\ s[k].client \in C
                                     THEN Dropped ELSE s[k]]
<1>1. /\ DropAnswers(box, t)[v] = IF v = t THEN A ELSE s
      /\ DropRequests(box, t, C)[v] = IF v = t THEN R ELSE s
  BY DEF DropAnswers, DropRequests, Drop, Boxes
<1>. HIDE DEF s
<1>2. PICK k \in DOMAIN s : m = s[k]
  BY DEF In, s
<1>3. /\ m.kind \notin {"response", "error"} => A[k] = m
      /\ ~(m.kind = "request" /\ m.client \in C) => R[k] = m
      /\ DOMAIN A = DOMAIN s /\ DOMAIN R = DOMAIN s
  BY <1>2
<1>. HIDE DEF A, R
<1>4. /\ m.kind \notin {"response", "error"} => m \in In(A)
      /\ ~(m.kind = "request" /\ m.client \in C) => m \in In(R)
      /\ m \in In(s)
  BY <1>2, <1>3 DEF In
<1>. QED BY <1>1, <1>4

LEMMA InPopped ==
  ASSUME TypeOK, NEW t \in Tabs, inbox[t] # <<>>, NEW v \in Tabs, NEW m \in In(inbox[v]),
         v # t \/ m # Head(inbox[t])
  PROVE  m \in In(Pop(t)[v])
<1>1. Pop(t)[t] = Tail(inbox[t]) /\ (v # t => Pop(t)[v] = inbox[v]) /\ inbox[t] \in Seq(Message)
  BY PopQueue DEF TypeOK, Boxes
<1>2. CASE v = t
  <2>1. PICK k \in DOMAIN inbox[t] : m = inbox[t][k]
    BY <1>2 DEF In
  <2>2. k # 1
    BY <1>1, <1>2, <2>1
  <2>3. k - 1 \in DOMAIN Tail(inbox[t]) /\ Tail(inbox[t])[k - 1] = m
    BY <1>1, <2>1, <2>2
  <2>. QED BY <1>1, <1>2, <2>3 DEF In
<1>. QED BY <1>1, <1>2

\* The envelopes that a step takes out of the queue of an open tab v, as long
\* as no leader fails with it.
Lost(v, m) ==
  \/ Task(v) /\ m = Head(inbox[v])
  \/ m.kind # "request" /\ (PairWithLeader(v) \/ LeaderFailed(v) \/ BecomeLeader(v))
  \/ m.kind = "request" /\ (AcceptPair(v) \/ InterceptClose(v)) /\ m.client = Head(inbox[v]).client
FailsNow == \E t \in Tabs : WriterFailure(t) \/ WriterFailureTerminal(t)

LEMMA EnvelopeStays ==
  ASSUME TypeOK, [Next]_vars, ~FailsNow, NEW v \in Tabs, phase'[v] = "open",
         NEW m \in In(inbox[v]), m.kind \in Envelopes
  PROVE  m \in In(inbox'[v]) \/ Lost(v, m)
<1>0. inbox \in Boxes /\ \A t \in Tabs : pair[t] \in Nat /\ lead[t] \in Nat
  BY DEF TypeOK, PairType, LeaderType
<1>1. CASE inbox' = inbox
  BY <1>1
<1>2. ASSUME NEW t \in Tabs, NEW x \in Message, inbox' = Broadcast(inbox, t, x) PROVE m \in In(inbox'[v])
  BY <1>0, <1>2, InPosted
<1>3. ASSUME NEW t \in Tabs, Open(t) \/ RetryPair(t) PROVE m \in In(inbox'[v])
  <2>1. \/ inbox' = Broadcast(inbox, t, Query)
        \/ inbox' = Broadcast(inbox, t, PairRequest(await[t], t)) /\ await[t] \in Nat
    BY <1>3 DEF Open, RetryPair, Query, PairRequest, TypeOK, PairType
  <2>. QED BY <1>2, <2>1, SignalTypes
<1>4. ASSUME NEW t \in Tabs, NEW i \in Ids, Send(t, i) PROVE m \in In(inbox'[v])
  <2>1. inbox' = inbox \/ inbox' = PostRequests(inbox, t, pair[t], <<i>>)
    BY <1>4 DEF Send
  <2>2. <<i>> \in Seq(Ids)
    OBVIOUS
  <2>. QED BY <1>0, <2>1, <2>2, InPosted
<1>5. ASSUME NEW t \in Tabs, Unload(t) \/ LockRejected(t) \/ Terminate(t) PROVE m \in In(inbox'[v])
  <2>1. <<CloseId>> \in Seq(Ids)
    BY BoundsAssumption DEF CloseId, Ids
  <2>2. ASSUME NEW box \in Boxes, phase' = [phase EXCEPT ![t] = "closed"],
               inbox' = [box EXCEPT ![t] = <<>>], m \in In(box[v])
        PROVE  m \in In(inbox'[v])
    <3>1. v # t
      BY <2>2 DEF TypeOK, PairType
    <3>2. inbox'[v] = box[v]
      BY <2>2, <3>1 DEF Boxes
    <3>. QED BY <2>2, <3>2
  <2>3. CASE Unload(t) \/ LockRejected(t)
    <3>1. \/ inbox' = inbox
          \/ phase' = [phase EXCEPT ![t] = "closed"] /\ inbox' = [inbox EXCEPT ![t] = <<>>]
      BY <2>3 DEF Unload, LockRejected, CloseTransport
    <3>. QED BY <1>0, <2>2, <3>1
  <2>4. CASE Terminate(t)
    <3>. DEFINE box == IF pair[t] = 0 THEN inbox ELSE PostRequests(inbox, t, pair[t], <<CloseId>>)
    <3>1. phase' = [phase EXCEPT ![t] = "closed"] /\ inbox' = [box EXCEPT ![t] = <<>>]
      BY <2>4 DEF Terminate, CloseTransport
    <3>2. box \in Boxes /\ m \in In(box[v])
      BY <1>0, <2>1, PostRequestsType, InPosted
    <3>. HIDE DEF box
    <3>. QED BY <2>2, <3>1, <3>2
  <2>. QED BY <1>5, <2>3, <2>4
<1>6. ASSUME NEW t \in Tabs, BecomeLeader(t) PROVE m \in In(inbox'[v]) \/ Lost(v, m)
  <2>. DEFINE l == epoch + 1
              replayed == Replayed(t)
              requests == [i \in DOMAIN replayed |-> Request(l, t, replayed[i])]
              detached == DropAnswers(inbox, t)
              self == [detached EXCEPT ![t] = @ \o requests]
  <2>1. inbox' = Broadcast(self, t, Elected(l))
    BY <1>6 DEF BecomeLeader, Elected
  <2>2. l \in Nat
    BY DEF TypeOK, LockType
  <2>. HIDE DEF l
  <2>3. requests \in Seq(Message)
    <3>1. replayed \in Seq(Ids)
      BY InFlightSortedType DEF Replayed
    <3>. QED BY <2>2, <3>1, RequestsFree
  <2>. HIDE DEF requests
  <2>4. detached \in Boxes /\ (v # t \/ m.kind \notin {"response", "error"} => m \in In(detached[v]))
    BY <1>0, DropAnswersType, InDropped
  <2>. HIDE DEF detached
  <2>5. /\ self[t] = detached[t] \o requests /\ \A c \in Tabs \ {t} : self[c] = detached[c]
        /\ detached[t] \in Seq(Message)
    BY <2>4 DEF Boxes
  <2>6. self \in Boxes
    BY <2>3, <2>4, <2>5, SeqOps DEF Boxes
  <2>. HIDE DEF self
  <2>7. In(detached[v]) \subseteq In(self[v])
    BY <2>3, <2>5, InConcat
  <2>8. In(self[v]) \subseteq In(inbox'[v])
    BY <2>1, <2>2, <2>6, SignalTypes, InPosted
  <2>. QED BY <1>6, <2>4, <2>7, <2>8 DEF Lost, Envelopes
<1>7. ASSUME NEW t \in Tabs, ForwardReply(t) PROVE m \in In(inbox'[v])
  <2>1. \/ \E x : inbox'[v] = Append(inbox[v], x)
        \/ inbox'[v] = inbox[v]
    BY <1>7 DEF ForwardReply
  <2>2. inbox[v] \in Seq(Message)
    BY <1>0 DEF Boxes
  <2>. QED BY <2>1, <2>2, InAppend
<1>8. ASSUME NEW t \in Tabs, Task(t) PROVE m \in In(inbox'[v]) \/ Lost(v, m)
  <2>1. inbox[t] # <<>>
    BY <1>8 DEF Task, Ignored, PairWithLeader, AcceptPair, PairAck, LeaderFailed, AnswerQuery,
                ForwardRequest, InterceptClose, Receive, Handles
  <2>2. Pop(t) \in Boxes /\ Head(inbox[t]) \in Message
    BY <2>1, PopQueue
  <2>3. CASE v = t /\ m = Head(inbox[t])
    BY <1>8, <2>3 DEF Lost
  <2>4. CASE v # t \/ m # Head(inbox[t])
    <3>1. m \in In(Pop(t)[v])
      BY <2>1, <2>4, InPopped
    <3>2. CASE Ignored(t) \/ ForwardRequest(t) \/ Receive(t)
      BY <3>1, <3>2 DEF Ignored, ForwardRequest, Receive
    <3>3. CASE PairWithLeader(t)
      <4>. DEFINE box == DropAnswers(Pop(t), t)
                  x == PairRequest(Head(inbox[t]).leader, t)
      <4>1. inbox' = Broadcast(box, t, x) /\ x \in Message
        BY <2>2, <3>3, SignalTypes, MessageFields DEF PairWithLeader, PairRequest
      <4>2. box \in Boxes /\ (v # t \/ m.kind \notin {"response", "error"} => m \in In(box[v]))
        BY <2>2, <3>1, DropAnswersType, InDropped
      <4>. HIDE DEF box, x
      <4>3. In(box[v]) \subseteq In(inbox'[v])
        BY <4>1, <4>2, InPosted
      <4>. QED BY <3>3, <4>2, <4>3 DEF Lost, Envelopes
    <3>4. CASE AcceptPair(t)
      <4>. DEFINE c == Head(inbox[t]).client
                  box == DropRequests(Pop(t), t, {c})
                  x == Ack(lead[t], c)
      <4>1. inbox' = Broadcast(box, t, x) /\ Head(inbox[t]).kind = "pair-request"
        BY <3>4 DEF AcceptPair, Handles, Ack
      <4>2. x \in Message
        BY <1>0, <2>2, <4>1, SignalTypes, MessageFields DEF Handshakes
      <4>3. box \in Boxes /\ (v # t \/ ~(m.kind = "request" /\ m.client \in {c}) => m \in In(box[v]))
        BY <2>2, <3>1, DropRequestsType, InDropped
      <4>. HIDE DEF box, x
      <4>4. In(box[v]) \subseteq In(inbox'[v])
        BY <4>1, <4>2, <4>3, InPosted
      <4>. QED BY <3>4, <4>3, <4>4 DEF Lost
    <3>5. CASE PairAck(t)
      <4>1. inbox' = PostRequests(Pop(t), t, pair[t], Replayed(t)) /\ Replayed(t) \in Seq(Ids)
        BY <3>5, InFlightSortedType DEF PairAck, Replayed
      <4>. QED BY <1>0, <2>2, <3>1, <4>1, InPosted
    <3>6. CASE LeaderFailed(t)
      <4>1. inbox' = DropAnswers(Pop(t), t)
        BY <3>6 DEF LeaderFailed
      <4>. QED BY <2>2, <3>1, <3>6, <4>1, InDropped DEF Lost, Envelopes
    <3>7. CASE AnswerQuery(t)
      <4>1. inbox' = Broadcast(Pop(t), t, Elected(lead[t]))
        BY <3>7 DEF AnswerQuery, Elected
      <4>. QED BY <1>0, <2>2, <3>1, <4>1, SignalTypes, InPosted
    <3>8. CASE InterceptClose(t)
      <4>. DEFINE c == Head(inbox[t]).client
                  answer == Answer("response", lead[t], c, CloseId, <<c, CloseId>>)
                  box == [u \in Tabs |-> IF u = c /\ pair[c] = lead[t]
                                         THEN Append(Pop(t)[u], answer) ELSE Pop(t)[u]]
      <4>1. inbox' = DropRequests(box, t, {c}) /\ Head(inbox[t]).kind = "request"
        BY <3>8 DEF InterceptClose, Handles
      <4>2. answer \in Message
        <5>1. c \in Tabs
          BY <2>2, <4>1, MessageFields DEF Envelopes
        <5>2. CloseId \in Ids
          BY BoundsAssumption DEF CloseId, Ids
        <5>3. <<c, CloseId>> \in Requests
          BY <5>1, <5>2 DEF Requests
        <5>. HIDE DEF c
        <5>. QED BY <1>0, <5>1, <5>2, <5>3, AnswerType
      <4>. HIDE DEF answer
      <4>3. \A u \in Tabs : Pop(t)[u] \in Seq(Message) /\ Append(Pop(t)[u], answer) \in Seq(Message)
        BY <2>2, <4>2, SeqOps DEF Boxes
      <4>4. box \in Boxes /\ (box[v] = Append(Pop(t)[v], answer) \/ box[v] = Pop(t)[v])
        BY <4>3 DEF Boxes
      <4>. HIDE DEF box
      <4>5. m \in In(box[v])
        <5>1. In(Append(Pop(t)[v], answer)) = In(Pop(t)[v]) \cup {answer}
          BY <4>3, InAppend
        <5>. QED BY <3>1, <4>4, <5>1
      <4>6. v # t \/ ~(m.kind = "request" /\ m.client \in {c}) => m \in In(inbox'[v])
        BY <4>1, <4>4, <4>5, InDropped
      <4>. QED BY <3>8, <4>6 DEF Lost
    <3>. QED BY <1>8, <3>2, <3>3, <3>4, <3>5, <3>6, <3>7, <3>8 DEF Task
  <2>. QED BY <2>3, <2>4
<1>9. ASSUME NEW t \in Tabs, NEW i \in Ids, SendFailed(t, i) PROVE inbox' = inbox
  BY <1>9 DEF SendFailed
<1>10. ASSUME NEW t \in Tabs, GrantLock(t) \/ GrantAfterClose(t) \/ WriterRun(t) PROVE inbox' = inbox
  BY <1>10 DEF GrantLock, GrantAfterClose, WriterRun
<1>11. UNCHANGED vars => inbox' = inbox
  BY DEF vars
<1>. QED BY <1>1, <1>3, <1>4, <1>5, <1>6, <1>7, <1>8, <1>9, <1>10, <1>11 DEF Next, Environment, FailsNow

-----------------------------------------------------------------------------
(* In line for the lock; in flight until answered.                         *)

LineInv ==
  /\ nextTicket # 0
  /\ \A t \in Tabs : phase[t] = "open" => lead[t] # 0 \/ ticket[t] # 0 \/ granted = t

LEMMA LineStep ==
  ASSUME TypeOK, LockInv, LineInv, [Next]_vars, rejects' = 0
  PROVE  LineInv'
<1>0. /\ phase \in [Tabs -> {"new", "open", "failed", "closed"}] /\ lead \in [Tabs -> Nat]
      /\ ticket \in [Tabs -> Nat] /\ nextTicket \in Nat /\ epoch \in Nat /\ rejects \in Nat
  BY DEF TypeOK, PairType, LeaderType, LockType, BoundsType
<1>1. ASSUME UNCHANGED <<phase, lead, ticket, granted, nextTicket>> PROVE LineInv'
  BY <1>1 DEF LineInv
<1>2. ASSUME NEW t \in Tabs, Task(t) PROVE LineInv'
  <2>1. UNCHANGED <<phase, lead, ticket, granted, nextTicket, rejects>>
    BY <1>2 DEF Task, Ignored, PairWithLeader, AcceptPair, PairAck, LeaderFailed, AnswerQuery,
                ForwardRequest, InterceptClose, Receive, pairVars, leaderVars, lockVars, bounds
  <2>. QED BY <1>1, <2>1
<1>3. ASSUME NEW t \in Tabs, \/ \E i \in Ids : Send(t, i) \/ SendFailed(t, i)
                             \/ RetryPair(t) \/ WriterRun(t) \/ ForwardReply(t)
      PROVE  LineInv'
  <2>1. UNCHANGED <<phase, lead, ticket, granted, nextTicket, rejects>>
    BY <1>3 DEF Send, SendFailed, RetryPair, WriterRun, ForwardReply, pairVars, leaderVars, lockVars, bounds
  <2>. QED BY <1>1, <2>1
<1>4. ASSUME NEW t \in Tabs, Open(t) PROVE LineInv'
  BY <1>0, <1>4 DEF Open, leaderVars, bounds, LineInv
<1>5. ASSUME NEW t \in Tabs, GrantLock(t) PROVE LineInv'
  <2>1. granted = NoTab
    BY <1>5 DEF GrantLock, LockInv
  <2>. QED BY <1>0, <1>5, <2>1, TabsAssumption DEF GrantLock, pairVars, leaderVars, bounds, LineInv
<1>6. ASSUME NEW t \in Tabs, GrantAfterClose(t) PROVE LineInv'
  BY <1>0, <1>6 DEF GrantAfterClose, pairVars, leaderVars, bounds, LineInv
<1>7. ASSUME NEW t \in Tabs, BecomeLeader(t) PROVE LineInv'
  <2>1. /\ granted = t /\ lead' = [lead EXCEPT ![t] = epoch + 1]
        /\ UNCHANGED <<phase, ticket, nextTicket, rejects>>
    BY <1>7 DEF BecomeLeader, bounds
  <2>2. epoch + 1 # 0
    BY <1>0
  <2>. QED BY <1>0, <2>1, <2>2 DEF LineInv
<1>8. ASSUME NEW t \in Tabs, WriterFailure(t) PROVE LineInv'
  BY <1>0, <1>8 DEF WriterFailure, GiveUpLeadership, LineInv
<1>9. ASSUME NEW t \in Tabs, Unload(t) \/ Terminate(t) \/ WriterFailureTerminal(t)
      PROVE  LineInv'
  <2>1. /\ phase' = [phase EXCEPT ![t] = "closed"] \/ phase' = [phase EXCEPT ![t] = "failed"]
        /\ lead' = [lead EXCEPT ![t] = 0] /\ ticket' \in {ticket, [ticket EXCEPT ![t] = 0]}
        /\ granted' = granted \/ granted = t
        /\ UNCHANGED <<nextTicket, rejects>>
    BY <1>9 DEF Unload, Terminate, WriterFailureTerminal, CloseTransport, GiveUpLeadership, bounds
  <2>. QED BY <1>0, <2>1 DEF LineInv
<1>10. ASSUME NEW t \in Tabs, LockRejected(t) PROVE FALSE
  BY <1>0, <1>10 DEF LockRejected
<1>11. UNCHANGED vars => LineInv'
  BY <1>1 DEF vars, pairVars, leaderVars, lockVars, bounds
<1>. QED BY <1>2, <1>3, <1>4, <1>5, <1>6, <1>7, <1>8, <1>9, <1>10, <1>11 DEF Next, Environment

FlightInv == \A t \in Tabs : phase[t] \in {"new", "open"} => Pending(t) \subseteq inFlight[t]

LEMMA FlightStep ==
  ASSUME TypeOK, FlightInv, [Next]_vars
  PROVE  FlightInv'
<1>0. /\ phase \in [Tabs -> {"new", "open", "failed", "closed"}] /\ inFlight \in [Tabs -> SUBSET Ids]
      /\ outcome \in [Tabs -> [Ids -> {"none", "pending", "ok", "error", "gone"}]]
  BY DEF TypeOK, PairType, CallType
<1>1. ASSUME UNCHANGED <<inFlight, outcome>>,
             \A t \in Tabs : phase'[t] \in {"new", "open"} => phase[t] \in {"new", "open"}
      PROVE  FlightInv'
  BY <1>1 DEF FlightInv, Pending
<1>2. ASSUME NEW t \in Tabs, Receive(t) PROVE FlightInv'
  <2>. DEFINE m == Head(inbox[t])
  <2>1. /\ inFlight' = [inFlight EXCEPT ![t] = @ \ {m.id}] /\ phase' = phase
        /\ outcome' = [outcome EXCEPT ![t][m.id] = SettleAs(@, m.kind)]
        /\ inbox[t] # <<>> /\ m.kind \in {"response", "error"}
    BY <1>2 DEF Receive, pairVars
  <2>2. m.id \in Ids
    BY <2>1, PopQueue, MessageFields DEF Envelopes
  <2>. HIDE DEF m
  <2>3. outcome'[t][m.id] # "pending" /\ \A i \in Ids \ {m.id} : outcome'[t][i] = outcome[t][i]
    BY <1>0, <2>1, <2>2 DEF SettleAs
  <2>4. \A v \in Tabs \ {t} : outcome'[v] = outcome[v] /\ inFlight'[v] = inFlight[v]
    BY <1>0, <2>1
  <2>5. inFlight'[t] = inFlight[t] \ {m.id}
    BY <1>0, <2>1
  <2>. QED BY <2>1, <2>3, <2>4, <2>5 DEF FlightInv, Pending
<1>3. ASSUME NEW t \in Tabs, NEW i \in Ids, Send(t, i) PROVE FlightInv'
  BY <1>0, <1>3 DEF Send, pairVars, FlightInv, Pending
<1>4. ASSUME NEW t \in Tabs, inFlight' \in {inFlight, [inFlight EXCEPT ![t] = {}]}, outcome' = RejectAll(t),
             \A v \in Tabs : phase'[v] \in {"new", "open"} => phase[v] \in {"new", "open"}
      PROVE  FlightInv'
  <2>1. \A i \in Ids : outcome'[t][i] # "pending"
    BY <1>0, <1>4 DEF RejectAll
  <2>2. \A v \in Tabs \ {t} : outcome'[v] = outcome[v] /\ inFlight'[v] = inFlight[v]
    BY <1>0, <1>4 DEF RejectAll
  <2>. QED BY <1>4, <2>1, <2>2 DEF FlightInv, Pending
<1>5. ASSUME NEW t \in Tabs, phase' \in {[phase EXCEPT ![t] = "closed"], [phase EXCEPT ![t] = "failed"]},
             \A v \in Tabs \ {t} : outcome'[v] = outcome[v] /\ inFlight'[v] = inFlight[v]
      PROVE  FlightInv'
  <2>1. phase'[t] \notin {"new", "open"} /\ \A v \in Tabs \ {t} : phase'[v] = phase[v]
    BY <1>0, <1>5
  <2>. QED BY <1>5, <2>1 DEF FlightInv, Pending
<1>6. ASSUME NEW t \in Tabs, Task(t) PROVE FlightInv'
  <2>1. CASE LeaderFailed(t)
    <3>1. phase' = phase /\ inFlight' = inFlight /\ outcome' = RejectAll(t)
      BY <2>1 DEF LeaderFailed
    <3>. QED BY <1>4, <3>1
  <2>2. CASE \/ Ignored(t) \/ PairWithLeader(t) \/ AcceptPair(t) \/ PairAck(t)
             \/ AnswerQuery(t) \/ ForwardRequest(t) \/ InterceptClose(t)
    <3>1. phase' = phase /\ UNCHANGED <<inFlight, outcome>>
      BY <2>2 DEF Ignored, PairWithLeader, AcceptPair, PairAck, AnswerQuery, ForwardRequest, InterceptClose,
                  pairVars, callVars
    <3>. QED BY <1>1, <3>1
  <2>. QED BY <1>2, <1>6, <2>1, <2>2 DEF Task
<1>7. ASSUME NEW t \in Tabs, \/ GrantLock(t) \/ GrantAfterClose(t) \/ BecomeLeader(t) \/ RetryPair(t)
                             \/ WriterRun(t) \/ ForwardReply(t)
      PROVE  FlightInv'
  <2>1. phase' = phase /\ UNCHANGED <<inFlight, outcome>>
    BY <1>7 DEF GrantLock, GrantAfterClose, BecomeLeader, RetryPair, WriterRun, ForwardReply, pairVars, callVars
  <2>. QED BY <1>1, <2>1
<1>8. ASSUME NEW t \in Tabs, Open(t) PROVE FlightInv'
  <2>1. phase[t] = "new" /\ phase' = [phase EXCEPT ![t] = "open"] /\ UNCHANGED <<inFlight, outcome>>
    BY <1>8 DEF Open, callVars
  <2>2. \A v \in Tabs : phase'[v] \in {"new", "open"} => phase[v] \in {"new", "open"}
    BY <1>0, <2>1
  <2>. QED BY <1>1, <2>1, <2>2
<1>9. ASSUME NEW t \in Tabs, NEW i \in Ids, SendFailed(t, i) PROVE FlightInv'
  <2>1. phase[t] = "failed" /\ phase' = phase /\ inFlight' = inFlight
        /\ outcome' = [outcome EXCEPT ![t][i] = "error"]
    BY <1>9 DEF SendFailed, pairVars
  <2>2. \A v \in Tabs \ {t} : outcome'[v] = outcome[v]
    BY <1>0, <2>1
  <2>. QED BY <2>1, <2>2 DEF FlightInv, Pending
<1>10. ASSUME NEW t \in Tabs, Unload(t) PROVE FlightInv'
  <2>1. /\ phase' = [phase EXCEPT ![t] = "closed"]
        /\ \A v \in Tabs \ {t} : outcome'[v] = outcome[v] /\ inFlight'[v] = inFlight[v]
    BY <1>0, <1>10 DEF Unload
  <2>. QED BY <1>5, <2>1
<1>11. ASSUME NEW t \in Tabs, Terminate(t) \/ WriterFailureTerminal(t) PROVE FlightInv'
  <2>1. /\ phase' \in {[phase EXCEPT ![t] = "closed"], [phase EXCEPT ![t] = "failed"]}
        /\ outcome' = RejectAll(t) /\ inFlight' = [inFlight EXCEPT ![t] = {}]
    BY <1>11 DEF Terminate, WriterFailureTerminal, CloseTransport
  <2>2. \A v \in Tabs \ {t} : outcome'[v] = outcome[v] /\ inFlight'[v] = inFlight[v]
    BY <1>0, <2>1 DEF RejectAll
  <2>. QED BY <1>5, <2>1, <2>2
<1>12. ASSUME NEW t \in Tabs, WriterFailure(t) PROVE FlightInv'
  <2>1. phase' = phase /\ outcome' = RejectAll(t) /\ inFlight' = inFlight
    BY <1>12 DEF WriterFailure
  <2>. QED BY <1>4, <2>1
<1>13. ASSUME NEW t \in Tabs, LockRejected(t) PROVE FlightInv'
  <2>1. \/ phase' = phase /\ outcome' = RejectAll(t) /\ inFlight' = inFlight
        \/ /\ phase' = [phase EXCEPT ![t] = "closed"] /\ outcome' = outcome
           /\ inFlight' = [inFlight EXCEPT ![t] = {}]
    BY <1>13 DEF LockRejected, CloseTransport
  <2>2. CASE phase' = phase /\ outcome' = RejectAll(t) /\ inFlight' = inFlight
    BY <1>4, <2>2
  <2>3. CASE /\ phase' = [phase EXCEPT ![t] = "closed"] /\ outcome' = outcome
             /\ inFlight' = [inFlight EXCEPT ![t] = {}]
    <3>1. \A v \in Tabs \ {t} : outcome'[v] = outcome[v] /\ inFlight'[v] = inFlight[v]
      BY <1>0, <2>3
    <3>. QED BY <1>5, <2>3, <3>1
  <2>. QED BY <2>1, <2>2, <2>3
<1>14. CASE UNCHANGED vars
  <2>1. phase' = phase /\ UNCHANGED <<inFlight, outcome>>
    BY <1>14 DEF vars, pairVars, callVars
  <2>. QED BY <1>1, <2>1
<1>. QED BY <1>3, <1>6, <1>7, <1>8, <1>9, <1>10, <1>11, <1>12, <1>13, <1>14 DEF Next, Environment

-----------------------------------------------------------------------------
(* What a completed pairing serves.                                        *)

\* Request i of t is queued at leader u, mapped there, or answered at t.
Way(t, i, u) ==
  \/ \E m \in In(inbox[u]) : m.kind = "request" /\ m.of = <<t, i>>
  \/ \E r \in idMap[u] : r.client = t /\ r.id = i
  \/ \E m \in In(inbox[t]) : m.kind \in {"response", "error"} /\ m.id = i
\* Tab t and leader u have paired, and t has not asked to close.
Paired(t, u) ==
  /\ phase[t] = "open" /\ lead[u] # 0 /\ pair[t] = lead[u] /\ await[t] = 0
  /\ outcome[t][CloseId] = "none"
ServedInv ==
  \A t, u \in Tabs : Paired(t, u) => t \in bridges[u] /\ \A i \in Pending(t) : Way(t, i, u)

LEMMA QueuedFits ==
  ASSUME DeliveryInv, HandshakeInv, NEW v \in Tabs, NEW m \in In(inbox[v])
  PROVE  m \in NewsFor(v) /\ m \in SoundFor(v, outcome, ran) /\ m \in Message
<1>1. PICK k \in DOMAIN inbox[v] : m = inbox[v][k]
  BY DEF In
<1>. DEFINE N == NewsFor(v)
            S == SoundFor(v, outcome, ran)
<1>2. inbox[v] \in Seq(N) /\ inbox[v] \in Seq(S)
  BY DEF HandshakeInv, Fits, News, DeliveryInv, SoundBoxes
<1>. HIDE DEF N, S
<1>3. m \in N /\ m \in S
  BY <1>1, <1>2
<1>. QED BY <1>3 DEF N, S, NewsFor

\* A tab that asks to close has issued the close request, or has gone.
LEMMA ClosesLate ==
  ASSUME DeliveryInv, HandshakeInv, NEW v \in Tabs, NEW m \in In(inbox[v]), m.kind = "request", m.id = CloseId
  PROVE  m.client \in Tabs /\ (outcome[m.client][CloseId] # "none" \/ phase[m.client] = "closed")
<1>1. m \in NewsFor(v) /\ m \in Message
  BY QueuedFits
<1>2. m.client \in Tabs
  BY <1>1, MessageFields DEF Envelopes
<1>. QED BY <1>1, <1>2 DEF NewsFor

LEMMA HeadQueued ==
  ASSUME TypeOK, NEW t \in Tabs, inbox[t] # <<>>
  PROVE  Head(inbox[t]) \in In(inbox[t])
<1>1. inbox[t] \in Seq(Message)
  BY DEF TypeOK, Boxes
<1>2. 1 \in DOMAIN inbox[t] /\ Head(inbox[t]) = inbox[t][1]
  BY <1>1
<1>. QED BY <1>2 DEF In

\* How a tab comes to be paired.
LEMMA PairedSteps ==
  ASSUME TypeOK, LinkInv, [Next]_vars, NEW t \in Tabs, phase'[t] = "open", pair'[t] # 0, await'[t] = 0
  PROVE  \/ BecomeLeader(t)
         \/ PairAck(t)
         \/ phase[t] = "open" /\ pair'[t] = pair[t] /\ await[t] = 0
<1>. DEFINE Goal == \/ BecomeLeader(t) \/ PairAck(t)
                    \/ phase[t] = "open" /\ pair'[t] = pair[t] /\ await[t] = 0
<1>. SUFFICES Goal
  OBVIOUS
<1>0. /\ phase \in [Tabs -> {"new", "open", "failed", "closed"}]
      /\ pair \in [Tabs -> Nat] /\ await \in [Tabs -> Nat]
  BY DEF TypeOK, PairType
<1>1. UNCHANGED <<phase, pair, await>> => Goal
  OBVIOUS
<1>2. ASSUME NEW a \in Tabs, Open(a) PROVE Goal
  <2>1. phase[a] = "new" /\ phase' = [phase EXCEPT ![a] = "open"] /\ pair' = pair /\ await' = await
    BY <1>2 DEF Open
  <2>2. pair[a] = 0
    BY <2>1 DEF LinkInv
  <2>. QED BY <1>0, <2>1, <2>2
<1>3. ASSUME NEW a \in Tabs, \E p \in {"closed", "failed"} : phase' = [phase EXCEPT ![a] = p],
             pair' = [pair EXCEPT ![a] = 0], await' = [await EXCEPT ![a] = 0]
      PROVE  Goal
  BY <1>0, <1>3
<1>4. ASSUME NEW a \in Tabs, Environment(a) PROVE Goal
  <2>1. CASE \/ \E i \in Ids : Send(a, i) \/ SendFailed(a, i)
             \/ WriterFailure(a) \/ RetryPair(a)
    BY <1>1, <2>1 DEF Send, SendFailed, WriterFailure, RetryPair, pairVars
  <2>2. CASE Unload(a) \/ WriterFailureTerminal(a)
    BY <1>3, <2>2 DEF Unload, WriterFailureTerminal
  <2>3. CASE LockRejected(a)
    BY <1>1, <1>3, <2>3 DEF LockRejected, CloseTransport
  <2>. QED BY <1>2, <1>4, <2>1, <2>2, <2>3 DEF Environment
<1>5. ASSUME NEW a \in Tabs, Terminate(a) PROVE Goal
  BY <1>3, <1>5 DEF Terminate, CloseTransport
<1>6. ASSUME NEW a \in Tabs, PairWithLeader(a) PROVE Goal
  <2>. DEFINE l == Head(inbox[a]).leader
  <2>1. pair' = [pair EXCEPT ![a] = l] /\ await' = [await EXCEPT ![a] = l] /\ phase' = phase
    BY <1>6 DEF PairWithLeader
  <2>. HIDE DEF l
  <2>. QED BY <1>0, <2>1
<1>7. ASSUME NEW a \in Tabs, LeaderFailed(a) PROVE Goal
  <2>1. pair' = [pair EXCEPT ![a] = 0] /\ await' = [await EXCEPT ![a] = 0] /\ phase' = phase
    BY <1>7 DEF LeaderFailed
  <2>. QED BY <1>0, <2>1
<1>8. ASSUME NEW a \in Tabs, PairAck(a) PROVE Goal
  <2>1. await' = [await EXCEPT ![a] = 0] /\ pair' = pair /\ phase' = phase
    BY <1>8 DEF PairAck
  <2>2. CASE t = a
    BY <1>8, <2>2
  <2>. QED BY <1>0, <2>1, <2>2
<1>9. ASSUME NEW a \in Tabs, BecomeLeader(a) PROVE Goal
  <2>1. /\ pair' = [pair EXCEPT ![a] = epoch + 1] /\ await' = [await EXCEPT ![a] = 0] /\ phase' = phase
    BY <1>9 DEF BecomeLeader, SelfPair
  <2>2. CASE t = a
    BY <1>9, <2>2
  <2>. QED BY <1>0, <2>1, <2>2
<1>10. ASSUME NEW a \in Tabs, \/ Ignored(a) \/ AcceptPair(a) \/ AnswerQuery(a) \/ ForwardRequest(a)
                              \/ InterceptClose(a) \/ Receive(a)
       PROVE  Goal
  BY <1>1, <1>10 DEF Ignored, AcceptPair, AnswerQuery, ForwardRequest, InterceptClose, Receive, pairVars
<1>11. ASSUME NEW a \in Tabs, GrantLock(a) \/ GrantAfterClose(a) \/ WriterRun(a) \/ ForwardReply(a)
       PROVE  Goal
  BY <1>1, <1>11 DEF GrantLock, GrantAfterClose, WriterRun, ForwardReply, pairVars
<1>12. UNCHANGED vars => Goal
  BY <1>1 DEF vars, pairVars
<1>. HIDE DEF Goal
<1>. QED BY <1>4, <1>5, <1>6, <1>7, <1>8, <1>9, <1>10, <1>11, <1>12 DEF Next, Task

\* A promise is pending because it was, or because it is sent now.
LEMMA PendingSteps ==
  ASSUME TypeOK, [Next]_vars, NEW t \in Tabs, NEW i \in Ids, outcome'[t][i] = "pending"
  PROVE  outcome[t][i] = "pending" \/ Send(t, i)
<1>0. outcome \in [Tabs -> [Ids -> {"none", "pending", "ok", "error", "gone"}]]
  BY DEF TypeOK, CallType
<1>1. OutcomeStep
  BY OutcomeMoves
<1>2. ASSUME NEW a \in Tabs, NEW j \in Ids, Send(a, j) \/ SendFailed(a, j)
      PROVE  outcome[t][i] = "pending" \/ Send(t, i)
  <2>1. CASE a = t /\ j = i /\ Send(a, j)
    BY <2>1
  <2>2. \/ outcome' = [outcome EXCEPT ![a][j] = "pending"] /\ Send(a, j)
        \/ outcome' = [outcome EXCEPT ![a][j] = "error"]
    BY <1>2 DEF Send, SendFailed
  <2>. QED BY <1>0, <2>1, <2>2
<1>3. ASSUME NEW a \in Tabs, Receive(a) PROVE outcome[t][i] = "pending"
  <2>. DEFINE m == Head(inbox[a])
  <2>1. outcome' = [outcome EXCEPT ![a][m.id] = SettleAs(@, m.kind)] /\ inbox[a] # <<>>
        /\ m.kind \in {"response", "error"}
    BY <1>3 DEF Receive
  <2>2. m.id \in Ids
    BY <2>1, PopQueue, MessageFields DEF Envelopes
  <2>. HIDE DEF m
  <2>. QED BY <1>0, <2>1, <2>2 DEF SettleAs
<1>4. ASSUME NEW a \in Tabs, outcome' = RejectAll(a) PROVE outcome[t][i] = "pending"
  BY <1>0, <1>4 DEF RejectAll
<1>5. ASSUME NEW a \in Tabs,
             outcome' = [outcome EXCEPT ![a] = [j \in Ids |-> IF @[j] = "pending" THEN "gone" ELSE @[j]]]
      PROVE  outcome[t][i] = "pending"
  BY <1>0, <1>5
<1>. QED BY <1>1, <1>2, <1>3, <1>4, <1>5 DEF OutcomeStep

\* A bridge's entry goes with its leader, with its bridge, or by its answer.
LEMMA EntrySteps ==
  ASSUME TypeOK, [Next]_vars, NEW u \in Tabs, lead'[u] # 0, NEW r \in idMap[u]
  PROVE  \/ r \in idMap'[u]
         \/ (AcceptPair(u) \/ InterceptClose(u)) /\ Head(inbox[u]).client = r.client
         \/ ForwardReply(u) /\ r.lid = Head(replies[u]).job.lid
<1>. DEFINE Goal == \/ r \in idMap'[u]
                    \/ (AcceptPair(u) \/ InterceptClose(u)) /\ Head(inbox[u]).client = r.client
                    \/ ForwardReply(u) /\ r.lid = Head(replies[u]).job.lid
<1>. SUFFICES Goal
  OBVIOUS
<1>0. lead \in [Tabs -> Nat] /\ DOMAIN idMap = Tabs
  BY DEF TypeOK, LeaderType
<1>1. idMap' = idMap => Goal
  OBVIOUS
<1>2. ASSUME NEW a \in Tabs, idMap' = [idMap EXCEPT ![a] = {}], lead' = [lead EXCEPT ![a] = 0] PROVE Goal
  BY <1>0, <1>2
<1>3. ASSUME NEW a \in Tabs, Environment(a) \/ Terminate(a) PROVE Goal
  <2>1. \/ idMap' = idMap
        \/ idMap' = [idMap EXCEPT ![a] = {}] /\ lead' = [lead EXCEPT ![a] = 0]
    BY <1>3 DEF Environment, Terminate, Open, Send, SendFailed, Unload, WriterFailure, WriterFailureTerminal,
                LockRejected, CloseTransport, GiveUpLeadership, RetryPair, leaderVars
  <2>. QED BY <1>1, <1>2, <2>1
<1>4. ASSUME NEW a \in Tabs, AcceptPair(a) \/ InterceptClose(a) PROVE Goal
  <2>1. idMap' = [idMap EXCEPT ![a] = WithoutClient(@, Head(inbox[a]).client)]
    BY <1>4 DEF AcceptPair, InterceptClose
  <2>2. CASE a = u /\ Head(inbox[a]).client = r.client
    BY <1>4, <2>2
  <2>3. CASE ~(a = u /\ Head(inbox[a]).client = r.client)
    BY <1>0, <2>1, <2>3 DEF WithoutClient
  <2>. QED BY <2>2, <2>3
<1>5. ASSUME NEW a \in Tabs, ForwardReply(a) PROVE Goal
  <2>1. idMap' = [idMap EXCEPT ![a] = @ \ {q \in idMap[a] : q.lid = Head(replies[a]).job.lid}]
    BY <1>5 DEF ForwardReply
  <2>2. CASE a = u /\ r.lid = Head(replies[a]).job.lid
    BY <1>5, <2>2
  <2>3. CASE ~(a = u /\ r.lid = Head(replies[a]).job.lid)
    BY <1>0, <2>1, <2>3
  <2>. QED BY <2>2, <2>3
<1>6. ASSUME NEW a \in Tabs, ForwardRequest(a) PROVE Goal
  <2>1. \E n : idMap' = [idMap EXCEPT ![a] = @ \cup {n}]
    BY <1>6 DEF ForwardRequest
  <2>. QED BY <1>0, <2>1
<1>7. ASSUME NEW a \in Tabs, \/ Ignored(a) \/ PairWithLeader(a) \/ PairAck(a) \/ LeaderFailed(a)
                             \/ AnswerQuery(a) \/ Receive(a)
      PROVE  Goal
  BY <1>1, <1>7 DEF Ignored, PairWithLeader, PairAck, LeaderFailed, AnswerQuery, Receive, leaderVars
<1>8. ASSUME NEW a \in Tabs, GrantLock(a) \/ GrantAfterClose(a) \/ WriterRun(a) \/ BecomeLeader(a)
      PROVE  Goal
  BY <1>1, <1>8 DEF GrantLock, GrantAfterClose, WriterRun, BecomeLeader, leaderVars
<1>9. UNCHANGED vars => Goal
  BY <1>1 DEF vars, leaderVars
<1>. HIDE DEF Goal
<1>. QED BY <1>3, <1>4, <1>5, <1>6, <1>7, <1>8, <1>9 DEF Next, Task

\* The leader does not close or replace the bridge of a tab that has paired.
LEMMA BridgeUndisturbed ==
  ASSUME TypeOK, DeliveryInv, HandshakeInv, PairingInv, NEW t \in Tabs, NEW u \in Tabs, Paired(t, u),
         AcceptPair(u) \/ InterceptClose(u)
  PROVE  Head(inbox[u]).client # t
<1>. DEFINE h == Head(inbox[u])
<1>1. /\ inbox[u] # <<>>
      /\ \/ h.kind = "pair-request" /\ h.leader = lead[u]
         \/ h.kind = "request" /\ h.id = CloseId
  BY DEF AcceptPair, InterceptClose, Handles
<1>2. h \in In(inbox[u])
  BY <1>1, HeadQueued
<1>3. h \in Message
  BY <1>2, QueuedFits
<1>. HIDE DEF h
<1>4. CASE h.kind = "pair-request" /\ h.leader = lead[u]
  <2>1. h \in Signals(inbox[u])
    BY <1>2, <1>4 DEF Signals, Free, SignalKinds
  <2>2. h = PairRequest(lead[u], h.client)
    BY <1>3, <1>4, SignalIs
  <2>3. h.client = t => await[t] = lead[u]
    BY <2>1, <2>2 DEF PairingInv, RequestInv, Paired
  <2>. QED BY <2>3 DEF Paired, h
<1>5. CASE h.kind = "request" /\ h.id = CloseId
  <2>1. outcome[h.client][CloseId] # "none" \/ phase[h.client] = "closed"
    BY <1>2, <1>5, ClosesLate
  <2>. QED BY <2>1 DEF Paired, h
<1>. QED BY <1>1, <1>4, <1>5 DEF h

\* Where a pending request of a paired tab is queued, mapped or answered
\* before a step it is so after it.
LEMMA RequestHeld ==
  ASSUME TypeOK, DeliveryInv, HandshakeInv, PairingInv, [Next]_vars, ~FailsNow,
         NEW t \in Tabs, NEW u \in Tabs, NEW i \in Ids, Paired(t, u), phase'[u] = "open",
         NEW m \in In(inbox[u]), m.kind = "request", m.of = <<t, i>>
  PROVE  Way(t, i, u)'
<1>1. m.client = t /\ m.id = i
  <2>1. m \in SoundFor(u, outcome, ran)
    BY QueuedFits
  <2>. QED BY <2>1 DEF SoundFor
<1>2. m \in In(inbox'[u]) \/ Lost(u, m)
  BY EnvelopeStays DEF Envelopes
<1>3. CASE m \in In(inbox'[u])
  BY <1>3 DEF Way, In
<1>4. CASE AcceptPair(u) \/ InterceptClose(u)
  <2>1. Head(inbox[u]).client # t
    BY <1>4, BridgeUndisturbed
  <2>2. m # Head(inbox[u])
    BY <1>1, <2>1
  <2>. QED BY <1>1, <1>2, <1>3, <2>1, <2>2 DEF Lost
<1>5. CASE Task(u) /\ m = Head(inbox[u]) /\ ~(AcceptPair(u) \/ InterceptClose(u))
  <2>1. ForwardRequest(u)
    BY <1>5 DEF Task, Ignored, PairWithLeader, PairAck, LeaderFailed, AnswerQuery, Receive, Handles
  <2>2. PICK n : idMap' = [idMap EXCEPT ![u] = @ \cup {[lid |-> n, client |-> t, id |-> i]}]
    BY <1>1, <1>5, <2>1 DEF ForwardRequest
  <2>. DEFINE r == [lid |-> n, client |-> t, id |-> i]
  <2>3. r.client = t /\ r.id = i
    OBVIOUS
  <2>4. u \in DOMAIN idMap /\ idMap' = [idMap EXCEPT ![u] = @ \cup {r}]
    BY <2>2 DEF TypeOK, LeaderType
  <2>. HIDE DEF r
  <2>5. r \in idMap'[u]
    BY <2>4
  <2>. QED BY <2>3, <2>5 DEF Way
<1>. QED BY <1>2, <1>3, <1>4, <1>5 DEF Lost

LEMMA EntryHeld ==
  ASSUME TypeOK, DeliveryInv, HandshakeInv, PairingInv, [Next]_vars,
         NEW t \in Tabs, NEW u \in Tabs, NEW i \in Ids, Paired(t, u), lead'[u] # 0,
         NEW r \in idMap[u], r.client = t, r.id = i
  PROVE  Way(t, i, u)'
<1>1. CASE r \in idMap'[u]
  BY <1>1 DEF Way
<1>2. CASE (AcceptPair(u) \/ InterceptClose(u)) /\ Head(inbox[u]).client = t
  BY <1>2, BridgeUndisturbed
<1>3. CASE ForwardReply(u) /\ r.lid = Head(replies[u]).job.lid
  <2>. DEFINE a == Head(replies[u])
              mine == {q \in idMap[u] : q.lid = a.job.lid}
              x == Answer(a.kind, lead[u], t, (CHOOSE q \in mine : q.client = t).id, a.job.of)
  <2>1. /\ replies[u] # <<>>
        /\ pair[t] = lead[u] /\ (\E q \in mine : q.client = t) => inbox'[t] = Append(inbox[t], x)
    BY <1>3 DEF ForwardReply
  <2>2. a.kind \in {"response", "error"}
    <3>1. replies[u] \in Seq(Replies)
      BY DEF TypeOK, WorkerType
    <3>2. a \in Replies
      BY <2>1, <3>1, SeqOps
    <3>. QED BY <3>2 DEF Replies
  <2>3. r \in mine /\ \A q \in mine : q = r
    BY <1>3 DEF DeliveryInv, BridgeInv, EntriesDistinct
  <2>. HIDE DEF mine
  <2>4. (CHOOSE q \in mine : q.client = t) = r
    BY <2>3
  <2>5. x.kind \in {"response", "error"} /\ x.id = i
    BY <2>2, <2>4 DEF Answer
  <2>6. inbox'[t] = Append(inbox[t], x) /\ inbox[t] \in Seq(Message)
    BY <2>1, <2>3 DEF Paired, TypeOK, Boxes
  <2>. HIDE DEF x
  <2>7. x \in In(inbox'[t])
    BY <2>6, InAppend
  <2>. QED BY <2>5, <2>7 DEF Way, In
<1>. QED BY <1>1, <1>2, <1>3, EntrySteps

LEMMA AnswerHeld ==
  ASSUME TypeOK, LockInv, [Next]_vars, ~FailsNow,
         NEW t \in Tabs, NEW u \in Tabs, NEW i \in Ids, Paired(t, u), phase'[t] = "open",
         pair'[t] # 0, await'[t] = 0, outcome'[t][i] = "pending",
         NEW m \in In(inbox[t]), m.kind \in {"response", "error"}, m.id = i
  PROVE  Way(t, i, u)'
<1>0. /\ outcome \in [Tabs -> [Ids -> {"none", "pending", "ok", "error", "gone"}]]
      /\ pair \in [Tabs -> Nat] /\ await \in [Tabs -> Nat]
  BY DEF TypeOK, CallType, PairType
<1>1. m \in In(inbox'[t]) \/ Lost(t, m)
  BY EnvelopeStays DEF Envelopes
<1>2. CASE m \in In(inbox'[t])
  BY <1>2 DEF Way, In
<1>3. ASSUME PairWithLeader(t) PROVE FALSE
  <2>. DEFINE l == Head(inbox[t]).leader
  <2>1. pair' = [pair EXCEPT ![t] = l] /\ await' = [await EXCEPT ![t] = l]
    BY <1>3 DEF PairWithLeader
  <2>. HIDE DEF l
  <2>. QED BY <1>0, <2>1
<1>4. ASSUME LeaderFailed(t) PROVE FALSE
  BY <1>0, <1>4 DEF LeaderFailed
<1>5. ASSUME BecomeLeader(t) PROVE FALSE
  BY <1>5, TabsAssumption DEF BecomeLeader, LockInv, Paired
<1>6. ASSUME Task(t), m = Head(inbox[t]) PROVE FALSE
  <2>1. Receive(t)
    BY <1>6 DEF Task, Ignored, PairWithLeader, AcceptPair, PairAck, LeaderFailed, AnswerQuery,
                ForwardRequest, InterceptClose, Handles
  <2>2. outcome' = [outcome EXCEPT ![t][i] = SettleAs(@, m.kind)]
    BY <1>6, <2>1 DEF Receive
  <2>. QED BY <1>0, <2>2 DEF SettleAs
<1>. QED BY <1>1, <1>2, <1>3, <1>4, <1>5, <1>6 DEF Lost

\* A tab that becomes the leader serves itself: all it has in flight is
\* replayed on the self-pair.
LEMMA ServedAtElection ==
  ASSUME TypeOK, FlightInv, NEW t \in Tabs, BecomeLeader(t)
  PROVE  t \in bridges'[t] /\ \A i \in Pending(t)' : Way(t, i, t)'
<1>. DEFINE l == epoch + 1
            replayed == Replayed(t)
            requests == [i \in DOMAIN replayed |-> Request(l, t, replayed[i])]
            detached == DropAnswers(inbox, t)
            self == [detached EXCEPT ![t] = @ \o requests]
<1>1. /\ inbox' = Broadcast(self, t, Elected(l)) /\ outcome' = outcome /\ phase[t] = "open"
      /\ bridges' = [bridges EXCEPT ![t] = @ \cup {t}]
  BY DEF BecomeLeader, Elected, callVars, Runs
<1>2. t \in bridges'[t]
  BY <1>1 DEF TypeOK, LeaderType
<1>3. l \in Nat /\ inbox \in Boxes
  BY DEF TypeOK, LockType
<1>. HIDE DEF l
<1>4. requests \in Seq(Message)
  <2>1. replayed \in Seq(Ids)
    BY InFlightSortedType DEF Replayed
  <2>. QED BY <1>3, <2>1, RequestsFree
<1>5. \A k \in DOMAIN replayed : Request(l, t, replayed[k]) \in In(requests)
  BY DEF In
<1>6. \A i \in inFlight[t] : \E k \in DOMAIN replayed : replayed[k] = i
  BY ReplayedAll
<1>. HIDE DEF replayed, requests
<1>7. detached \in Boxes
  BY <1>3, DropAnswersType
<1>. HIDE DEF detached
<1>8. self[t] = detached[t] \o requests /\ detached[t] \in Seq(Message)
  BY <1>7 DEF Boxes
<1>9. self \in Boxes
  BY <1>4, <1>7, <1>8, SeqOps DEF Boxes
<1>. HIDE DEF self
<1>10. In(requests) \subseteq In(self[t])
  BY <1>4, <1>8, InConcat
<1>11. In(self[t]) \subseteq In(inbox'[t])
  BY <1>1, <1>3, <1>9, SignalTypes, InPosted
<1>12. ASSUME NEW i \in Pending(t)' PROVE Way(t, i, t)'
  <2>1. i \in inFlight[t]
    BY <1>1 DEF Pending, FlightInv
  <2>2. Request(l, t, i) \in In(inbox'[t])
    BY <1>5, <1>6, <1>10, <1>11, <2>1
  <2>3. Request(l, t, i).kind = "request" /\ Request(l, t, i).of = <<t, i>>
    BY DEF Request
  <2>. QED BY <2>2, <2>3 DEF Way, In
<1>. QED BY <1>2, <1>12

\* The pair-ack a tab waits for finds the bridge open, and the replay
\* reaches it.
LEMMA ServedAtAck ==
  ASSUME TypeOK, DeliveryInv, HandshakeInv, LinkInv, FlightInv, NEW t \in Tabs, NEW u \in Tabs,
         PairAck(t), Paired(t, u)'
  PROVE  t \in bridges'[u] /\ \A i \in Pending(t)' : Way(t, i, u)'
<1>. DEFINE h == Head(inbox[t])
<1>1. /\ inbox[t] # <<>> /\ h.kind = "pair-ack" /\ h.client = t /\ await[t] # 0 /\ await[t] = h.leader
      /\ inbox' = PostRequests(Pop(t), t, pair[t], Replayed(t))
      /\ UNCHANGED <<phase, pair, outcome, lead, bridges>>
  BY DEF PairAck, Handles, callVars, leaderVars
<1>2. h \in NewsFor(t)
  BY <1>1, HeadQueued, QueuedFits
<1>. HIDE DEF h
<1>3. /\ phase[t] = "open" /\ pair[t] = lead[u] /\ lead[u] # 0 /\ outcome[t][CloseId] = "none"
  BY <1>1 DEF Paired
<1>4. h.leader = lead[u]
  BY <1>1, <1>3 DEF LinkInv
<1>5. t \in bridges[u]
  BY <1>1, <1>2, <1>3, <1>4 DEF NewsFor
<1>6. Pop(t) \in Boxes /\ lead[u] \in Nat /\ Replayed(t) \in Seq(Ids)
  BY <1>1, PopQueue, InFlightSortedType DEF TypeOK, LeaderType, Replayed
<1>7. \A k \in DOMAIN Replayed(t) : Request(lead[u], t, Replayed(t)[k]) \in In(inbox'[u])
  BY <1>1, <1>3, <1>5, <1>6, InPosted
<1>8. ASSUME NEW i \in Pending(t)' PROVE Way(t, i, u)'
  <2>1. i \in inFlight[t]
    BY <1>1, <1>3 DEF Pending, FlightInv
  <2>2. Request(lead[u], t, i) \in In(inbox'[u])
    BY <1>7, <2>1, ReplayedAll
  <2>3. Request(lead[u], t, i).kind = "request" /\ Request(lead[u], t, i).of = <<t, i>>
    BY DEF Request
  <2>. QED BY <2>2, <2>3 DEF Way, In
<1>. QED BY <1>1, <1>5, <1>8

\* A request sent on a completed pairing is queued at the leader.
LEMMA ServedAtSend ==
  ASSUME TypeOK, NEW t \in Tabs, NEW u \in Tabs, NEW i \in Ids, Send(t, i), Paired(t, u), t \in bridges[u]
  PROVE  Way(t, i, u)'
<1>1. inbox' = PostRequests(inbox, t, lead[u], <<i>>)
  BY DEF Send, Paired
<1>2. <<i>> \in Seq(Ids) /\ 1 \in DOMAIN <<i>> /\ <<i>>[1] = i /\ inbox \in Boxes /\ lead[u] \in Nat
  BY DEF TypeOK, LeaderType
<1>3. Request(lead[u], t, i) \in In(inbox'[u])
  BY <1>1, <1>2, InPosted
<1>4. Request(lead[u], t, i).kind = "request" /\ Request(lead[u], t, i).of = <<t, i>>
  BY DEF Request
<1>. QED BY <1>3, <1>4 DEF Way, In

LEMMA ServedStep ==
  ASSUME TypeOK, LockInv, DeliveryInv, HandshakeInv, PairingInv, FlightInv, ServedInv,
         [Next]_vars, retries' = 0
  PROVE  ServedInv'
<1>. SUFFICES ASSUME NEW t \in Tabs, NEW u \in Tabs, Paired(t, u)'
              PROVE  t \in bridges'[u] /\ \A i \in Pending(t)' : Way(t, i, u)'
  BY DEF ServedInv
<1>0. /\ phase'[t] = "open" /\ lead'[u] # 0 /\ pair'[t] = lead'[u] /\ await'[t] = 0
      /\ outcome'[t][CloseId] = "none"
  BY DEF Paired
<1>1. Context /\ LinkInv /\ LeadMoves /\ PairingInv'
  BY HasContext, LeadSteps, PairingStep DEF PairingInv
<1>2. phase'[u] = "open"
  BY <1>0, <1>1 DEF PairingInv, LinkInv
<1>3. outcome[t][CloseId] = "none"
  <2>1. PromisesKept /\ CloseId \in Ids
    BY OutcomeMoves, PromisesMonotone, BoundsAssumption DEF CloseId, Ids
  <2>. QED BY <1>0, <2>1 DEF PromisesKept
<1>4. CASE BecomeLeader(t)
  <2>1. lead' = [lead EXCEPT ![t] = epoch + 1] /\ granted = t
    BY <1>4 DEF BecomeLeader
  <2>2. u = t
    BY <1>0, <1>1, <2>1 DEF Context
  <2>. QED BY <1>4, <2>2, ServedAtElection
<1>5. CASE PairAck(t)
  BY <1>1, <1>5, ServedAtAck
<1>6. CASE phase[t] = "open" /\ pair'[t] = pair[t] /\ await[t] = 0
  <2>1. lead[u] = lead'[u]
    <3>1. pair[t] <= epoch /\ pair[t] \in Nat /\ epoch \in Nat
      BY <1>1 DEF LinkInv, Context
    <3>2. lead'[u] = lead[u] \/ lead'[u] = 0 \/ lead'[u] = epoch + 1
      BY <1>1 DEF LeadMoves
    <3>3. lead'[u] # epoch + 1
      BY <1>0, <1>6, <3>1
    <3>. QED BY <1>0, <3>2, <3>3
  <2>2. Paired(t, u)
    BY <1>0, <1>3, <1>6, <2>1 DEF Paired
  <2>3. t \in bridges[u] /\ \A i \in Pending(t) : Way(t, i, u)
    BY <2>2 DEF ServedInv
  <2>4. t \in bridges'[u]
    BY <1>0, <1>3, <1>6, <2>3, BridgeSteps
  <2>5. ~FailsNow
    <3>. SUFFICES ASSUME NEW a \in Tabs, WriterFailure(a) \/ WriterFailureTerminal(a) PROVE FALSE
      BY DEF FailsNow
    <3>1. lead[a] # 0 /\ lead' = [lead EXCEPT ![a] = 0]
      BY DEF WriterFailure, WriterFailureTerminal, GiveUpLeadership
    <3>. QED BY <1>0, <1>1, <2>1, <3>1 DEF Context
  <2>6. ASSUME NEW i \in Pending(t)' PROVE Way(t, i, u)'
    <3>1. i \in Ids /\ outcome'[t][i] = "pending"
      BY DEF Pending
    <3>2. CASE Send(t, i)
      BY <2>2, <2>3, <3>1, <3>2, ServedAtSend
    <3>3. CASE outcome[t][i] = "pending"
      <4>1. Way(t, i, u)
        BY <2>3, <3>1, <3>3 DEF Pending
      <4>2. ASSUME NEW m \in In(inbox[u]), m.kind = "request", m.of = <<t, i>> PROVE Way(t, i, u)'
        BY <1>2, <2>2, <2>5, <3>1, <4>2, RequestHeld
      <4>3. ASSUME NEW r \in idMap[u], r.client = t, r.id = i PROVE Way(t, i, u)'
        BY <1>0, <2>2, <3>1, <4>3, EntryHeld
      <4>4. ASSUME NEW m \in In(inbox[t]), m.kind \in {"response", "error"}, m.id = i PROVE Way(t, i, u)'
        BY <1>0, <2>2, <2>5, <3>1, <4>4, AnswerHeld
      <4>. QED BY <4>1, <4>2, <4>3, <4>4 DEF Way
    <3>. QED BY <3>1, <3>2, <3>3, PendingSteps
  <2>. QED BY <2>4, <2>6
<1>. QED BY <1>0, <1>1, <1>4, <1>5, <1>6, PairedSteps

-----------------------------------------------------------------------------
(* No request is stranded.                                                 *)

\* The invariant behind NotStranded.  The pairing half is broken by a
\* repeated pair-request, the line for the lock by a rejected lock request.
StrandInv ==
  /\ FlightInv
  /\ retries = 0 => PairingInv /\ ServedInv
  /\ rejects = 0 => LineInv

LEMMA RejectsKept ==
  ASSUME TypeOK, [Next]_vars, rejects' = 0
  PROVE  rejects = 0
<1>1. ASSUME NEW t \in Tabs, LockRejected(t) PROVE FALSE
  BY <1>1 DEF LockRejected, TypeOK, BoundsType
<1>2. ASSUME NEW t \in Tabs, Environment(t), ~LockRejected(t) PROVE rejects' = rejects
  BY <1>2 DEF Environment, Open, Send, SendFailed, Unload, WriterFailure, WriterFailureTerminal, RetryPair, bounds
<1>3. ASSUME NEW t \in Tabs, Task(t) PROVE rejects' = rejects
  BY <1>3 DEF Task, Ignored, PairWithLeader, AcceptPair, PairAck, LeaderFailed, AnswerQuery, ForwardRequest,
              InterceptClose, Receive, bounds
<1>4. ASSUME NEW t \in Tabs, \/ Terminate(t) \/ GrantLock(t) \/ GrantAfterClose(t) \/ BecomeLeader(t)
                             \/ WriterRun(t) \/ ForwardReply(t)
      PROVE  rejects' = rejects
  BY <1>4 DEF Terminate, GrantLock, GrantAfterClose, BecomeLeader, WriterRun, ForwardReply, bounds
<1>5. UNCHANGED vars => rejects' = rejects
  BY DEF vars, bounds
<1>. QED BY <1>1, <1>2, <1>3, <1>4, <1>5 DEF Next

LEMMA InitStrand == Init => StrandInv
<1>. SUFFICES ASSUME Init PROVE StrandInv
  OBVIOUS
<1>1. /\ \A v \in Tabs : /\ phase[v] = "new" /\ cur[v] = 0 /\ pair[v] = 0 /\ await[v] = 0 /\ lead[v] = 0
                         /\ inbox[v] = <<>> /\ \A i \in Ids : outcome[v][i] = "none"
      /\ nextTicket = 1 /\ epoch = 0
  BY DEF Init
<1>2. \A v \in Tabs : In(inbox[v]) = {} /\ Signals(inbox[v]) = {} /\ InOrder(inbox[v])
  <2>1. DOMAIN << >> = {}
    OBVIOUS
  <2>. QED BY <1>1, <2>1 DEF In, Signals, InOrder
<1>3. LinkInv /\ MeetInv
  BY <1>1 DEF LinkInv, MeetInv
<1>4. ElectedInv /\ RequestInv /\ AckInv /\ QueueInv
  BY <1>1, <1>2 DEF ElectedInv, RequestInv, AckInv, QueueInv
<1>5. FlightInv /\ ServedInv /\ LineInv
  BY <1>1 DEF FlightInv, ServedInv, Paired, LineInv, Pending
<1>. QED BY <1>3, <1>4, <1>5 DEF StrandInv, PairingInv

LEMMA StepStrand ==
  ASSUME TypeOK, LockInv, DeliveryInv, HandshakeInv, StrandInv, [Next]_vars
  PROVE  StrandInv'
<1>1. FlightInv'
  BY FlightStep DEF StrandInv
<1>2. ASSUME retries' = 0 PROVE PairingInv' /\ ServedInv'
  <2>1. PairingInv /\ ServedInv /\ FlightInv
    BY <1>2, StepShape DEF StrandInv
  <2>. QED BY <1>2, <2>1, PairingStep, ServedStep
<1>3. ASSUME rejects' = 0 PROVE LineInv'
  <2>1. rejects = 0
    BY <1>3, RejectsKept
  <2>. QED BY <1>3, <2>1, LineStep DEF StrandInv
<1>. QED BY <1>1, <1>2, <1>3 DEF StrandInv

LEMMA StrandStates ==
  ASSUME TypeOK, PairingInv, ServedInv, FlightInv, LineInv
  PROVE  NotStranded
<1>. SUFFICES ASSUME NEW t \in Tabs, NEW i \in Pending(t), phase[t] = "open", outcome[t][CloseId] = "none",
                     lead[t] # 0 => pair[t] = lead[t]
              PROVE  /\ i \in inFlight[t]
                     /\ \A u \in Tabs : lead[u] # 0 =>
                          IF lead[u] = pair[t] THEN OnItsWay(t, i, u) \/ PairingUnderWay(t, u)
                                               ELSE Announced(t, u)
                     /\ lead[t] # 0 \/ ticket[t] # 0 \/ granted = t
  BY DEF NotStranded, Estranged
<1>1. i \in inFlight[t] /\ (lead[t] # 0 \/ ticket[t] # 0 \/ granted = t)
  BY DEF FlightInv, LineInv
<1>2. ASSUME NEW u \in Tabs, lead[u] # 0, lead[u] = pair[t] PROVE OnItsWay(t, i, u) \/ PairingUnderWay(t, u)
  <2>1. CASE await[t] = 0
    <3>1. t \in bridges[u] /\ Way(t, i, u)
      BY <1>2, <2>1 DEF ServedInv, Paired
    <3>. QED BY <3>1 DEF Way, OnItsWay, Queued, In
  <2>2. CASE await[t] # 0
    <3>1. await[t] = lead[u] /\ u # t
      BY <1>2, <2>2 DEF PairingInv, LinkInv
    <3>2. PairRequest(lead[u], t) \in In(inbox[u]) \/ Ack(lead[u], t) \in In(inbox[t])
      BY <1>2, <2>2, <3>1 DEF PairingInv, MeetInv, Signals
    <3>3. /\ PairRequest(lead[u], t).kind = "pair-request" /\ PairRequest(lead[u], t).client = t
          /\ PairRequest(lead[u], t).leader = lead[u]
          /\ Ack(lead[u], t).kind = "pair-ack" /\ Ack(lead[u], t).client = t /\ Ack(lead[u], t).leader = lead[u]
      BY SignalFields
    <3>. QED BY <3>1, <3>2, <3>3 DEF PairingUnderWay, Queued, In
  <2>. QED BY <2>1, <2>2
<1>3. ASSUME NEW u \in Tabs, lead[u] # 0, lead[u] # pair[t] PROVE Announced(t, u)
  <2>1. Elected(lead[u]) \in In(inbox[t]) \/ \E m \in In(inbox[u]) : m.kind = "leader-query"
    BY <1>3 DEF PairingInv, MeetInv, Signals
  <2>2. Elected(lead[u]).kind = "leader-elected" /\ Elected(lead[u]).leader = lead[u]
    BY SignalFields
  <2>. QED BY <2>1, <2>2 DEF Announced, Queued, In
<1>. QED BY <1>1, <1>2, <1>3

\* A request of a tab that is not an estranged leader is never stranded while
\* no pair-request has been repeated and no lock request rejected: through
\* elections, crashes, replays and unloads of any number of tabs, grants that
\* overtake announcements included, it stays queued, mapped or answered at
\* the leader its tab is paired with, or the handshake that replays it, or
\* the tab's place in the line for the lock, is there.
THEOREM RequestsNotStranded == Spec => []KeptUntilRetry
<1>1. TypeOK /\ LockInv /\ DeliveryInv /\ HandshakeInv /\ StrandInv /\ [Next]_vars => StrandInv'
  BY StepStrand
<1>2. TypeOK /\ StrandInv => KeptUntilRetry
  BY StrandStates DEF StrandInv, KeptUntilRetry
<1>. QED BY <1>1, <1>2, InitStrand, LockInvariant, DeliveryInvariant, HandshakeInvariant, PTL DEF Spec

=============================================================================
