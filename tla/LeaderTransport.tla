--------------------------- MODULE LeaderTransport ---------------------------
(***************************************************************************)
(* The Web-Locks leader-election transport of packages/storage             *)
(* (leader.ts), together with the page-side WorkerClient that drives it    *)
(* (rpc.ts) and the browser services it stands on: one exclusive Web Lock  *)
(* granted in FIFO order, and BroadcastChannels.                           *)
(*                                                                         *)
(* A tab owns one transport.  Every tab queues for the lock; the tab that  *)
(* gets it starts the dedicated database worker and announces a fresh      *)
(* leader id.  The other tabs pair with it over a private channel named    *)
(* after (leader id, client id); at the leader a LeaderBridge forwards a   *)
(* client's requests to the worker under rewritten ids and its answers     *)
(* back.  Requests without an answer are kept in inFlight and replayed to  *)
(* the next leader.                                                        *)
(*                                                                         *)
(* Leader ids are the numbers 1, 2, ... in order of election and 0 stands  *)
(* for null; a client id is the tab.  inbox[t] holds, in posting order,    *)
(* the message tasks queued for the channel objects of tab t.  A task      *)
(* whose channel object is closed before it runs does nothing when it      *)
(* runs: closing a channel turns its queued tasks into Dropped.  Lock      *)
(* grants and worker messages reach a tab by other task sources and may    *)
(* overtake the inbox.                                                     *)
(***************************************************************************)
EXTENDS Naturals, Sequences, FiniteSets

CONSTANTS
  Tabs,          \* the tabs of one browser profile on the origin
  NoTab,         \* not a tab: the lock is free, a message names no client
  MaxCalls,      \* calls one tab issues before it closes its Repo
  MaxFailures,   \* MAX_FAILURES: crashes in the window that end a transport
  MaxCrashes,    \* bound: writer errors in a behaviour
  MaxRetries,    \* bound: expiries of the 500 ms pair-ack timer
  MaxRejects     \* bound: lock requests the browser rejects

ASSUME TabsAssumption == NoTab \notin Tabs
ASSUME BoundsAssumption ==
  /\ MaxCalls \in Nat \ {0} /\ MaxFailures \in Nat \ {0}
  /\ MaxCrashes \in Nat /\ MaxRetries \in Nat /\ MaxRejects \in Nat

Calls == 1 .. MaxCalls
Bootstrap == 1             \* the first request of every WorkerClient
CloseId == MaxCalls + 1    \* the {kind: "close"} request of Repo.close()
Ids == 1 .. MaxCalls + 1

VARIABLES
  phase,      \* "new", "open", "failed" or "closed"
  ready,      \* whenReady has resolved
  cur,        \* currentLeaderId
  pair,       \* leader id in the name of pairChannel
  await,      \* pendingPair.leaderId
  inFlight,   \* ids sent and not answered (a Map keyed by increasing ids)
  outcome,    \* the promise of each request: #pending and how it settled
  inbox,      \* queued message tasks of the tab's channel objects
  lead,       \* leaderId: set while the tab is the leader
  bridges,    \* the clients that have a LeaderBridge at this leader
  idMap,      \* the bridges' id maps: leader-assigned id -> client, id
  nextLid,    \* nextLeaderEnvelopeId
  failures,   \* Len(failureTimestamps)
  workers,    \* leader ids whose dedicated worker is running
  jobs,       \* requests posted to the tab's worker
  replies,    \* envelopes the worker has posted back to the tab
  ran,        \* history: the leader ids whose worker ran a request, in order
  holder,     \* the tab that holds the lock
  granted,    \* the holder whose lock callback has not run yet
  ticket,     \* place in the lock's FIFO queue, 0 when not queued
  nextTicket,
  epoch,      \* the last leader id handed out
  crashes, retries, rejects

pairVars == <<phase, ready, cur, pair, await>>
callVars == <<inFlight, outcome>>
leaderVars == <<lead, bridges, idMap, nextLid, failures>>
workerVars == <<workers, jobs, replies, ran>>
lockVars == <<holder, granted, ticket, nextTicket, epoch>>
bounds == <<crashes, retries, rejects>>
vars == <<pairVars, callVars, inbox, leaderVars, workerVars, lockVars, bounds>>

-----------------------------------------------------------------------------
(* Messages.  One record shape serves every kind; a field a kind does not  *)
(* use holds 0 or NoTab.  "of" is the request that an answer answers, as   *)
(* its payload shows it.                                                   *)

Announcements == {"leader-elected", "leader-failed", "leader-query", "dropped"}
Handshakes == {"pair-request", "pair-ack"}
Envelopes == {"request", "response", "error"}
Requests == Tabs \X Ids
NoRequest == <<NoTab, 0>>
Message ==
  [kind: Announcements, leader: Nat, client: {NoTab}, id: {0}, of: {NoRequest}]
    \cup [kind: Handshakes, leader: Nat, client: Tabs, id: {0}, of: {NoRequest}]
    \cup [kind: Envelopes, leader: Nat, client: Tabs, id: Ids, of: Requests]

Discovery(kind, l, c) ==
  [kind |-> kind, leader |-> l, client |-> c, id |-> 0, of |-> NoRequest]
Request(l, c, i) ==
  [kind |-> "request", leader |-> l, client |-> c, id |-> i, of |-> <<c, i>>]
\* Mutant: the answer is not given the id of the client's request.
AnswerWithoutId(kind, l, c, i, of) ==
  [kind |-> kind, leader |-> l, client |-> c, id |-> 0, of |-> of]
Answer(kind, l, c, i, of) ==
  [kind |-> kind, leader |-> l, client |-> c, id |-> i, of |-> of]
Dropped == Discovery("dropped", 0, NoTab)

\* The elements of a finite set of numbers in increasing order.
Sorted(S) ==
  LET Orders == {s \in [1 .. Cardinality(S) -> S] :
                   \A i, j \in DOMAIN s : i < j => s[i] < s[j]}
  IN  IF Orders = {} THEN <<>> ELSE CHOOSE s \in Orders : TRUE

\* discovery.postMessage(m) by t: every other open discovery channel gets it.
Broadcast(box, t, m) ==
  [u \in Tabs |-> IF u # t /\ phase[u] = "open" THEN Append(box[u], m) ELSE box[u]]

\* t posts requests on its end of pair channel (l, t).
PostRequests(box, t, l, ids) ==
  [u \in Tabs |-> IF lead[u] = l /\ t \in bridges[u]
                  THEN box[u] \o [i \in DOMAIN ids |-> Request(l, t, ids[i])]
                  ELSE box[u]]

\* Closing channel objects of t: the end of its pair channel, the ends of
\* the bridges for the clients C.
Drop(box, t, Closed(_)) ==
  [box EXCEPT ![t] = [i \in DOMAIN box[t] |->
                        IF Closed(box[t][i]) THEN Dropped ELSE box[t][i]]]
DropAnswers(box, t) == Drop(box, t, LAMBDA m : m.kind \in {"response", "error"})
DropRequests(box, t, C) ==
  Drop(box, t, LAMBDA m : m.kind = "request" /\ m.client \in C)

Pop(t) == [inbox EXCEPT ![t] = Tail(@)]

-----------------------------------------------------------------------------
(* The page side: WorkerClient and the promises of its callers.            *)

Settled == {"ok", "error"}
Pending(t) == {i \in Ids : outcome[t][i] = "pending"}

\* rejectAll: every pending promise of t settles with an error.
RejectAll(t) ==
  [outcome EXCEPT ![t] = [i \in Ids |-> IF @[i] = "pending" THEN "error" ELSE @[i]]]

\* The answer to close, or the failure of bootstrap, runs terminate() in the
\* microtasks of the same task: no other task of the tab runs before it.
MustTerminate(t) ==
  /\ phase[t] \in {"open", "failed"}
  /\ outcome[t][CloseId] \in Settled \/ outcome[t][Bootstrap] = "error"

Runs(t) == phase[t] = "open" /\ ~MustTerminate(t)

\* bootRepo sends bootstrap first, the page's calls follow its answer;
\* ids are issued in order, and Repo.close() is called at most once.
MaySend(t, i) ==
  /\ ready[t]
  /\ outcome[t][i] = "none"
  /\ outcome[t][CloseId] = "none"
  /\ i # Bootstrap => outcome[t][Bootstrap] = "ok"
  /\ i \in Calls => \A j \in Calls : j < i => outcome[t][j] # "none"

\* WorkerClient.send through LeaderTransport.postMessage.
Send(t, i) ==
  /\ Runs(t)
  /\ MaySend(t, i)
  /\ outcome' = [outcome EXCEPT ![t][i] = "pending"]
  /\ inFlight' = [inFlight EXCEPT ![t] = @ \cup {i}]
  /\ inbox' = IF pair[t] = 0 THEN inbox ELSE PostRequests(inbox, t, pair[t], <<i>>)
  /\ UNCHANGED <<pairVars, leaderVars, workerVars, lockVars, bounds>>

\* A transport past its restart budget answers every call with an error.
SendFailed(t, i) ==
  /\ phase[t] = "failed" /\ ~MustTerminate(t)
  /\ MaySend(t, i)
  /\ outcome' = [outcome EXCEPT ![t][i] = "error"]
  /\ UNCHANGED <<pairVars, inFlight, inbox, leaderVars, workerVars, lockVars, bounds>>

-----------------------------------------------------------------------------
(* The lock and the election.                                              *)

\* createLeaderTransport: queue for the lock, then probe for a leader.
Open(t) ==
  /\ phase[t] = "new"
  /\ phase' = [phase EXCEPT ![t] = "open"]
  /\ ticket' = [ticket EXCEPT ![t] = nextTicket]
  /\ nextTicket' = nextTicket + 1
  /\ inbox' = Broadcast(inbox, t, Discovery("leader-query", 0, NoTab))
  /\ UNCHANGED <<ready, cur, pair, await, callVars, leaderVars, workerVars,
                 holder, granted, epoch, bounds>>

\* The browser grants the free lock to the oldest request.
GrantLock(t) ==
  /\ holder = NoTab
  /\ ticket[t] # 0
  /\ \A u \in Tabs : ticket[u] # 0 => ticket[t] <= ticket[u]
  /\ holder' = t
  /\ granted' = t
  /\ ticket' = [ticket EXCEPT ![t] = 0]
  /\ UNCHANGED <<pairVars, callVars, inbox, leaderVars, workerVars,
                 nextTicket, epoch, bounds>>

\* The grant reached a transport that had closed: release at once.
GrantAfterClose(t) ==
  /\ granted = t
  /\ phase[t] = "closed"
  /\ holder' = NoTab
  /\ granted' = NoTab
  /\ UNCHANGED <<pairVars, callVars, inbox, leaderVars, workerVars,
                 ticket, nextTicket, epoch, bounds>>

\* Mutant: nothing is replayed.
ReplayedNone(t) == <<>>
\* The requests replayed on a fresh pairing, oldest first.
Replayed(t) == Sorted(inFlight[t])

\* attachPair with the leader's own end of its self-pair.
SelfPair(t, l) == [pair EXCEPT ![t] = l]

\* becomeLeader, run by the lock callback.
BecomeLeader(t) ==
  LET l == epoch + 1
      replayed == Replayed(t)
      detached == DropAnswers(inbox, t)
      self == [detached EXCEPT ![t] =
                 @ \o [i \in DOMAIN replayed |-> Request(l, t, replayed[i])]]
  IN  /\ granted = t
      /\ Runs(t)
      /\ granted' = NoTab
      /\ epoch' = l
      /\ lead' = [lead EXCEPT ![t] = l]
      /\ workers' = workers \cup {l}
      /\ jobs' = [jobs EXCEPT ![t] = {}]
      /\ replies' = [replies EXCEPT ![t] = <<>>]
      /\ bridges' = [bridges EXCEPT ![t] = @ \cup {t}]
      /\ cur' = [cur EXCEPT ![t] = l]
      /\ pair' = SelfPair(t, l)
      /\ await' = [await EXCEPT ![t] = 0]
      /\ ready' = [ready EXCEPT ![t] = TRUE]
      /\ inbox' = Broadcast(self, t, Discovery("leader-elected", l, NoTab))
      /\ UNCHANGED <<phase, callVars, idMap, nextLid, failures, ran, holder,
                     ticket, nextTicket, bounds>>

\* Mutants: the worker is left running, the lock is not released.
WorkerLeftRunning(t) == workers
LockKept(t) == holder
\* writer.close() and the release of the lock, if the tab is the leader.
StopWorker(t) == workers \ {lead[t]}
ReleaseLock(t) == IF lead[t] # 0 THEN NoTab ELSE holder

\* giveUpLeadership: dispose the bridges, close the worker, forget the
\* leader id, release the lock.
GiveUpLeadership(t) ==
  /\ bridges' = [bridges EXCEPT ![t] = {}]
  /\ idMap' = [idMap EXCEPT ![t] = {}]
  /\ workers' = StopWorker(t)
  /\ jobs' = [jobs EXCEPT ![t] = {}]
  /\ replies' = [replies EXCEPT ![t] = <<>>]
  /\ lead' = [lead EXCEPT ![t] = 0]
  /\ holder' = ReleaseLock(t)

\* Prefix of failureTimestamps older than the window is purged, now is pushed.
FailureCounts(t) == {k + 1 : k \in 0 .. failures[t]}

\* bridge.failPending for every bridge, then leader-failed on discovery.
FailPending(t, l) ==
  LET lids(c) == {r.lid : r \in {q \in idMap[t] : q.client = c}}
      entry(n) == CHOOSE r \in idMap[t] : r.lid = n
      error(c, n) == Answer("error", l, c, entry(n).id, <<c, entry(n).id>>)
      errors(c) == LET s == Sorted(lids(c)) IN [i \in DOMAIN s |-> error(c, s[i])]
      failed == [c \in Tabs |-> IF c \in bridges[t] /\ pair[c] = l
                                THEN inbox[c] \o errors(c) ELSE inbox[c]]
  IN  Broadcast(failed, t, Discovery("leader-failed", l, NoTab))

\* handleWriterFailure with budget left: the lock is requested again.
WriterFailure(t) ==
  /\ Runs(t) /\ lead[t] # 0 /\ crashes < MaxCrashes
  /\ \E n \in FailureCounts(t) :
       /\ n < MaxFailures
       /\ failures' = [failures EXCEPT ![t] = n]
  /\ inbox' = DropRequests(FailPending(t, lead[t]), t, bridges[t])
  /\ outcome' = RejectAll(t)
  /\ GiveUpLeadership(t)
  /\ cur' = [cur EXCEPT ![t] = 0]
  /\ ticket' = [ticket EXCEPT ![t] = nextTicket]
  /\ nextTicket' = nextTicket + 1
  /\ crashes' = crashes + 1
  /\ UNCHANGED <<phase, ready, pair, await, inFlight, nextLid, ran, granted,
                 epoch, retries, rejects>>

\* handleWriterFailure with the budget spent: the transport fails for good.
WriterFailureTerminal(t) ==
  /\ Runs(t) /\ lead[t] # 0 /\ crashes < MaxCrashes
  /\ \E n \in FailureCounts(t) :
       /\ n >= MaxFailures
       /\ failures' = [failures EXCEPT ![t] = n]
  /\ inbox' = [FailPending(t, lead[t]) EXCEPT ![t] = <<>>]
  /\ outcome' = RejectAll(t)
  /\ inFlight' = [inFlight EXCEPT ![t] = {}]
  /\ GiveUpLeadership(t)
  /\ phase' = [phase EXCEPT ![t] = "failed"]
  /\ cur' = [cur EXCEPT ![t] = 0]
  /\ pair' = [pair EXCEPT ![t] = 0]
  /\ await' = [await EXCEPT ![t] = 0]
  /\ crashes' = crashes + 1
  /\ UNCHANGED <<ready, nextLid, ran, granted, ticket, nextTicket, epoch,
                 retries, rejects>>

\* LeaderTransport.close(), common to its callers; outcome is theirs.
CloseTransport(t, box) ==
  /\ phase' = [phase EXCEPT ![t] = "closed"]
  /\ pair' = [pair EXCEPT ![t] = 0]
  /\ await' = [await EXCEPT ![t] = 0]
  /\ inFlight' = [inFlight EXCEPT ![t] = {}]
  /\ ticket' = [ticket EXCEPT ![t] = 0]
  /\ inbox' = [box EXCEPT ![t] = <<>>]
  /\ GiveUpLeadership(t)

\* WorkerClient.terminate: a last close request, then close the transport.
Terminate(t) ==
  /\ MustTerminate(t)
  /\ CloseTransport(t, IF pair[t] = 0 THEN inbox
                       ELSE PostRequests(inbox, t, pair[t], <<CloseId>>))
  /\ outcome' = RejectAll(t)
  /\ UNCHANGED <<ready, cur, nextLid, failures, ran, granted, nextTicket, epoch, bounds>>

\* The browser rejects a queued lock request.  Before readiness createRepo
\* then closes the transport; afterwards only the error event is seen.
LockRejected(t) ==
  /\ Runs(t) /\ ticket[t] # 0 /\ rejects < MaxRejects
  /\ rejects' = rejects + 1
  /\ \/ /\ ~ready[t]
        /\ CloseTransport(t, inbox)
        /\ UNCHANGED outcome
     \/ /\ ready[t]
        /\ outcome' = RejectAll(t)
        /\ ticket' = [ticket EXCEPT ![t] = 0]
        /\ UNCHANGED <<phase, pair, await, inFlight, inbox, lead, bridges,
                       idMap, workers, jobs, replies, holder>>
  /\ UNCHANGED <<ready, cur, nextLid, failures, ran, granted, nextTicket, epoch,
                 crashes, retries>>

\* The tab goes away: nothing of it runs again and the browser releases its
\* lock, queued, granted or held.
Unload(t) ==
  /\ phase[t] \in {"open", "failed"}
  /\ phase' = [phase EXCEPT ![t] = "closed"]
  /\ pair' = [pair EXCEPT ![t] = 0]
  /\ await' = [await EXCEPT ![t] = 0]
  /\ inFlight' = [inFlight EXCEPT ![t] = {}]
  /\ outcome' = [outcome EXCEPT ![t] =
                   [i \in Ids |-> IF @[i] = "pending" THEN "gone" ELSE @[i]]]
  /\ inbox' = [inbox EXCEPT ![t] = <<>>]
  /\ bridges' = [bridges EXCEPT ![t] = {}]
  /\ idMap' = [idMap EXCEPT ![t] = {}]
  /\ workers' = workers \ {lead[t]}
  /\ jobs' = [jobs EXCEPT ![t] = {}]
  /\ replies' = [replies EXCEPT ![t] = <<>>]
  /\ lead' = [lead EXCEPT ![t] = 0]
  /\ holder' = IF holder = t THEN NoTab ELSE holder
  /\ granted' = IF granted = t THEN NoTab ELSE granted
  /\ ticket' = [ticket EXCEPT ![t] = 0]
  /\ UNCHANGED <<ready, cur, nextLid, failures, ran, nextTicket, epoch, bounds>>

-----------------------------------------------------------------------------
(* Message handlers: one task of inbox[t] each.                            *)

Handles(t, kind) ==
  /\ Runs(t)
  /\ inbox[t] # <<>>
  /\ Head(inbox[t]).kind = kind

\* A task whose channel was closed, a request for another leader, an ack
\* that is not awaited, a failure of another leader, a query to a follower.
Ignored(t) ==
  LET m == Head(inbox[t])
  IN  /\ Runs(t)
      /\ inbox[t] # <<>>
      /\ \/ m.kind = "dropped"
         \/ m.kind = "leader-elected"
              /\ (m.leader = lead[t] \/ (cur[t] = m.leader /\ pair[t] # 0))
         \/ m.kind = "pair-request" /\ m.leader # lead[t]
         \/ m.kind = "pair-ack" /\ (m.client # t \/ await[t] # m.leader)
         \/ m.kind = "leader-failed" /\ m.leader # cur[t]
         \/ m.kind = "leader-query" /\ lead[t] = 0
      /\ inbox' = Pop(t)
      /\ UNCHANGED <<pairVars, callVars, leaderVars, workerVars, lockVars, bounds>>

\* pairWithLeader on a leader-elected announcement.
PairWithLeader(t) ==
  LET l == Head(inbox[t]).leader
  IN  /\ Handles(t, "leader-elected")
      /\ l # lead[t]
      /\ ~(cur[t] = l /\ pair[t] # 0)
      /\ cur' = [cur EXCEPT ![t] = l]
      /\ pair' = [pair EXCEPT ![t] = l]
      /\ await' = [await EXCEPT ![t] = l]
      /\ inbox' = Broadcast(DropAnswers(Pop(t), t), t, Discovery("pair-request", l, t))
      /\ UNCHANGED <<phase, ready, callVars, leaderVars, workerVars, lockVars, bounds>>

\* The pair-ack timer expires: the same request again, the timer re-armed.
RetryPair(t) ==
  /\ Runs(t)
  /\ await[t] # 0
  /\ retries < MaxRetries
  /\ retries' = retries + 1
  /\ inbox' = Broadcast(inbox, t, Discovery("pair-request", await[t], t))
  /\ UNCHANGED <<pairVars, callVars, leaderVars, workerVars, lockVars, crashes, rejects>>

\* The entries of idMap[t] that survive when the bridge for c is replaced
\* or disposed.
WithoutClient(map, c) == {r \in map : r.client # c}

\* Mutant: the ack is sent and no bridge opened.
WithBridgeMissing(t, c) == bridges[t]
WithBridge(t, c) == bridges[t] \cup {c}

\* The leader opens (or replaces) the bridge for a client and acks.
AcceptPair(t) ==
  LET c == Head(inbox[t]).client
      ack == Discovery("pair-ack", lead[t], c)
  IN  /\ Handles(t, "pair-request")
      /\ lead[t] # 0 /\ Head(inbox[t]).leader = lead[t]
      /\ bridges' = [bridges EXCEPT ![t] = WithBridge(t, c)]
      /\ idMap' = [idMap EXCEPT ![t] = WithoutClient(@, c)]
      /\ inbox' = Broadcast(DropRequests(Pop(t), t, {c}), t, ack)
      /\ UNCHANGED <<pairVars, callVars, lead, nextLid, failures, workerVars,
                     lockVars, bounds>>

\* The awaited ack: stop the timer, replay inFlight, resolve whenReady.
PairAck(t) ==
  LET l == Head(inbox[t]).leader
  IN  /\ Handles(t, "pair-ack")
      /\ Head(inbox[t]).client = t
      /\ await[t] # 0 /\ await[t] = l
      /\ await' = [await EXCEPT ![t] = 0]
      /\ ready' = [ready EXCEPT ![t] = TRUE]
      /\ inbox' = PostRequests(Pop(t), t, pair[t], Replayed(t))
      /\ UNCHANGED <<phase, cur, pair, callVars, leaderVars, workerVars, lockVars, bounds>>

\* The followed leader's writer failed: drop the pairing, fire error.
LeaderFailed(t) ==
  /\ Handles(t, "leader-failed")
  /\ Head(inbox[t]).leader = cur[t]
  /\ cur' = [cur EXCEPT ![t] = 0]
  /\ pair' = [pair EXCEPT ![t] = 0]
  /\ await' = [await EXCEPT ![t] = 0]
  /\ inbox' = DropAnswers(Pop(t), t)
  /\ outcome' = RejectAll(t)
  /\ UNCHANGED <<phase, ready, inFlight, leaderVars, workerVars, lockVars, bounds>>

\* The leader answers a late joiner's probe with its announcement.
AnswerQuery(t) ==
  /\ Handles(t, "leader-query")
  /\ lead[t] # 0
  /\ inbox' = Broadcast(Pop(t), t, Discovery("leader-elected", lead[t], NoTab))
  /\ UNCHANGED <<pairVars, callVars, leaderVars, workerVars, lockVars, bounds>>

\* Mutant: the client's id is forwarded as it is.
AllocateClientId(t, i) == i
\* The id under which the bridge forwards a request to the worker.
AllocateLeaderId(t, i) == nextLid[t]

\* LeaderBridge.#onClientMessage for an ordinary request.
ForwardRequest(t) ==
  LET m == Head(inbox[t])
      lid == AllocateLeaderId(t, m.id)
  IN  /\ Handles(t, "request")
      /\ m.id # CloseId
      /\ nextLid' = [nextLid EXCEPT ![t] = @ + 1]
      /\ idMap' = [idMap EXCEPT ![t] = @ \cup {[lid |-> lid, client |-> m.client, id |-> m.id]}]
      /\ jobs' = [jobs EXCEPT ![t] = @ \cup {[lid |-> lid, of |-> m.of]}]
      /\ inbox' = Pop(t)
      /\ UNCHANGED <<pairVars, callVars, lead, bridges, failures, workers, replies,
                     ran, lockVars, bounds>>

\* LeaderBridge.#onClientMessage for close: answer, dispose, unregister.
InterceptClose(t) ==
  LET c == Head(inbox[t]).client
      answered == [u \in Tabs |-> IF u = c /\ pair[c] = lead[t]
                                  THEN Append(Pop(t)[u], Answer("response", lead[t], c, CloseId, <<c, CloseId>>))
                                  ELSE Pop(t)[u]]
  IN  /\ Handles(t, "request")
      /\ Head(inbox[t]).id = CloseId
      /\ bridges' = [bridges EXCEPT ![t] = @ \ {c}]
      /\ idMap' = [idMap EXCEPT ![t] = WithoutClient(@, c)]
      /\ inbox' = DropRequests(answered, t, {c})
      /\ UNCHANGED <<pairVars, callVars, lead, nextLid, failures, workerVars,
                     lockVars, bounds>>

\* Mutant: a late answer settles a promise again.
SettleAgain(was, kind) == IF kind = "response" THEN "ok" ELSE "error"
\* What an answer of the given kind makes of a promise.
SettleAs(was, kind) ==
  IF was # "pending" THEN was ELSE IF kind = "response" THEN "ok" ELSE "error"

\* onPairMessage, then WorkerClient.#onMessage.
Receive(t) ==
  LET m == Head(inbox[t])
  IN  /\ Runs(t)
      /\ inbox[t] # <<>>
      /\ m.kind \in {"response", "error"}
      /\ inFlight' = [inFlight EXCEPT ![t] = @ \ {m.id}]
      /\ outcome' = [outcome EXCEPT ![t][m.id] = SettleAs(@, m.kind)]
      /\ inbox' = Pop(t)
      /\ UNCHANGED <<pairVars, leaderVars, workerVars, lockVars, bounds>>

-----------------------------------------------------------------------------
(* The dedicated worker of the leader.                                     *)

\* Connection.#onMessage: dispatch a request and post its answer, or the
\* error its handler throws.  Handlers that wait for the database to open
\* may finish in any order.
WriterRun(t) ==
  \E j \in jobs[t], kind \in {"response", "error"} :
    /\ lead[t] \in workers
    /\ jobs' = [jobs EXCEPT ![t] = @ \ {j}]
    /\ replies' = [replies EXCEPT ![t] = Append(@, [job |-> j, kind |-> kind])]
    /\ ran' = [ran EXCEPT ![j.of] = Append(@, lead[t])]
    /\ UNCHANGED <<pairVars, callVars, inbox, leaderVars, workers, lockVars, bounds>>

\* LeaderBridge.#onWriterMessage in every bridge: the one whose map holds
\* the id forwards the answer to its client.
ForwardReply(t) ==
  LET a == Head(replies[t])
      mine == {r \in idMap[t] : r.lid = a.job.lid}
  IN  /\ Runs(t) /\ lead[t] # 0
      /\ replies[t] # <<>>
      /\ replies' = [replies EXCEPT ![t] = Tail(@)]
      /\ idMap' = [idMap EXCEPT ![t] = @ \ mine]
      /\ inbox' = [c \in Tabs |->
                     IF pair[c] = lead[t] /\ \E r \in mine : r.client = c
                     THEN Append(inbox[c], Answer(a.kind, lead[t], c,
                            (CHOOSE r \in mine : r.client = c).id, a.job.of))
                     ELSE inbox[c]]
      /\ UNCHANGED <<pairVars, callVars, lead, bridges, nextLid, failures, workers,
                     jobs, ran, lockVars, bounds>>

-----------------------------------------------------------------------------
Init ==
  /\ phase = [t \in Tabs |-> "new"]
  /\ ready = [t \in Tabs |-> FALSE]
  /\ cur = [t \in Tabs |-> 0]
  /\ pair = [t \in Tabs |-> 0]
  /\ await = [t \in Tabs |-> 0]
  /\ inFlight = [t \in Tabs |-> {}]
  /\ outcome = [t \in Tabs |-> [i \in Ids |-> "none"]]
  /\ inbox = [t \in Tabs |-> <<>>]
  /\ lead = [t \in Tabs |-> 0]
  /\ bridges = [t \in Tabs |-> {}]
  /\ idMap = [t \in Tabs |-> {}]
  /\ nextLid = [t \in Tabs |-> 1]
  /\ failures = [t \in Tabs |-> 0]
  /\ workers = {}
  /\ jobs = [t \in Tabs |-> {}]
  /\ replies = [t \in Tabs |-> <<>>]
  /\ ran = [q \in Requests |-> <<>>]
  /\ holder = NoTab
  /\ granted = NoTab
  /\ ticket = [t \in Tabs |-> 0]
  /\ nextTicket = 1
  /\ epoch = 0
  /\ crashes = 0
  /\ retries = 0
  /\ rejects = 0

\* A task the event loop of t runs because something is queued for it.
Task(t) ==
  \/ Ignored(t) \/ PairWithLeader(t) \/ AcceptPair(t) \/ PairAck(t)
  \/ LeaderFailed(t) \/ AnswerQuery(t) \/ ForwardRequest(t) \/ InterceptClose(t)
  \/ Receive(t)

\* What users, the browser and faults decide.
Environment(t) ==
  \/ Open(t)
  \/ \E i \in Ids : Send(t, i) \/ SendFailed(t, i)
  \/ Unload(t)
  \/ WriterFailure(t) \/ WriterFailureTerminal(t)
  \/ LockRejected(t)
  \/ RetryPair(t)

Next ==
  \E t \in Tabs :
    \/ Environment(t)
    \/ Task(t)
    \/ Terminate(t)
    \/ GrantLock(t) \/ GrantAfterClose(t) \/ BecomeLeader(t)
    \/ WriterRun(t) \/ ForwardReply(t)

Spec == Init /\ [][Next]_vars

\* The event loop of a tab, its worker and the lock manager keep running;
\* users, faults and timers owe nothing.
Fairness ==
  \A t \in Tabs :
    /\ WF_vars(Task(t)) /\ WF_vars(Terminate(t))
    /\ WF_vars(GrantLock(t)) /\ WF_vars(GrantAfterClose(t)) /\ WF_vars(BecomeLeader(t))
    /\ WF_vars(WriterRun(t)) /\ WF_vars(ForwardReply(t))

FairSpec == Spec /\ Fairness

-----------------------------------------------------------------------------
(* Properties.                                                             *)

PairType ==
  /\ phase \in [Tabs -> {"new", "open", "failed", "closed"}]
  /\ ready \in [Tabs -> BOOLEAN]
  /\ cur \in [Tabs -> Nat]
  /\ pair \in [Tabs -> Nat]
  /\ await \in [Tabs -> Nat]
CallType ==
  /\ inFlight \in [Tabs -> SUBSET Ids]
  /\ outcome \in [Tabs -> [Ids -> {"none", "pending", "ok", "error", "gone"}]]
Boxes == [Tabs -> Seq(Message)]
LeaderType ==
  /\ lead \in [Tabs -> Nat]
  /\ bridges \in [Tabs -> SUBSET Tabs]
  /\ idMap \in [Tabs -> SUBSET [lid: Nat, client: Tabs, id: Ids]]
  /\ \A t \in Tabs : IsFiniteSet(idMap[t])
  /\ nextLid \in [Tabs -> Nat]
  /\ failures \in [Tabs -> Nat]
Jobs == [lid: Nat, of: Requests]
Replies == [job: Jobs, kind: {"response", "error"}]
WorkerType ==
  /\ workers \subseteq Nat
  /\ jobs \in [Tabs -> SUBSET Jobs]
  /\ replies \in [Tabs -> Seq(Replies)]
  /\ ran \in [Requests -> Seq(Nat)]
LockType ==
  /\ holder \in Tabs \cup {NoTab}
  /\ granted \in Tabs \cup {NoTab}
  /\ ticket \in [Tabs -> Nat]
  /\ nextTicket \in Nat
  /\ epoch \in Nat
BoundsType == crashes \in Nat /\ retries \in Nat /\ rejects \in Nat

\* Every variable holds a value of its type; a queued request or answer names
\* a tab and one of its requests, a bridge's id map stays finite.
TypeOK ==
  /\ PairType /\ CallType /\ inbox \in Boxes
  /\ LeaderType /\ WorkerType /\ LockType /\ BoundsType

\* Never two database workers at once, and the one that runs belongs to the
\* tab that holds the Web Lock: giveUpLeadership closes the worker before
\* it releases, on every path out of leadership.
SingleWriter ==
  /\ \A v, w \in workers : v = w
  /\ \A w \in workers : holder # NoTab /\ lead[holder] = w

\* The lock is never held for nothing: its holder runs the worker or has the
\* lock callback still to come, so a closed or failed tab cannot block the
\* election of the others.
LockNotOrphaned ==
  holder # NoTab => granted = holder \/ lead[holder] \in workers

\* An answer reaches only the request it answers: ids that collide across
\* clients are told apart by the bridges' rewriting.
NoCrossTalk ==
  \A t \in Tabs : \A i \in DOMAIN inbox[t] :
    inbox[t][i].kind \in {"response", "error"} => inbox[t][i].of = <<t, inbox[t][i].id>>

\* Where a pending request i of t, or the handshake that replays it, may be.
Queued(u, P(_)) == \E k \in DOMAIN inbox[u] : P(inbox[u][k])
OnItsWay(t, i, u) ==
  \/ t \in bridges[u]
       /\ Queued(u, LAMBDA m : m.kind = "request" /\ m.of = <<t, i>>)
  \/ \E r \in idMap[u] : r.client = t /\ r.id = i
  \/ Queued(t, LAMBDA m : m.kind \in {"response", "error"} /\ m.id = i)
PairingUnderWay(t, u) ==
  /\ await[t] = lead[u]
  /\ \/ Queued(u, LAMBDA m : m.kind = "pair-request" /\ m.client = t /\ m.leader = lead[u])
     \/ Queued(t, LAMBDA m : m.kind = "pair-ack" /\ m.client = t /\ m.leader = lead[u])
Announced(t, u) ==
  \/ Queued(t, LAMBDA m : m.kind = "leader-elected" /\ m.leader = lead[u])
  \/ Queued(u, LAMBDA m : m.kind = "leader-query")

\* A leader whose pair channel is not its self-pair: it handled, after its
\* election, the queued announcement of a leader before it (see the README).
Estranged(t) == lead[t] # 0 /\ pair[t] # lead[t]

\* A pending request is never stranded.  If the leader the tab is paired with
\* is alive, the request is in the task queue of its bridge, in the bridge's
\* id map, or answered in the tab's own queue, or the handshake that will
\* replay it is under way.  If another leader is alive, its announcement is
\* on the way to the tab.  If none is, the tab is in line for the lock.
\* Only an estranged leader's own requests are left out.
NotStranded ==
  \A t \in Tabs : \A i \in Pending(t) :
    (phase[t] = "open" /\ outcome[t][CloseId] = "none" /\ ~Estranged(t)) =>
      /\ i \in inFlight[t]
      /\ \A u \in Tabs : lead[u] # 0 =>
           IF lead[u] = pair[t] THEN OnItsWay(t, i, u) \/ PairingUnderWay(t, u)
                                ELSE Announced(t, u)
      /\ lead[t] # 0 \/ ticket[t] # 0 \/ granted = t

\* Until a pair-request is repeated, which loses requests, or a lock request is
\* rejected, which takes a tab out of line, no pending request is stranded.
KeptUntilRetry == retries = 0 /\ rejects = 0 => NotStranded

\* A pair-ack that a tab still waits for means what the tab takes it to mean:
\* the leader it names has subscribed to the pair channel, or is gone, or
\* has already disposed the bridge because the tab itself asked to close.
AckMeansSubscribed ==
  \A t \in Tabs : \A i \in DOMAIN inbox[t] :
    LET m == inbox[t][i]
    IN  (/\ m.kind = "pair-ack" /\ m.client = t /\ await[t] = m.leader
         /\ outcome[t][CloseId] = "none") =>
          \A u \in Tabs : lead[u] = m.leader => t \in bridges[u]

\* The leader is its own client: its pair channel is the self-pair.
LeaderIsOwnClient ==
  \A t \in Tabs : Runs(t) => ~Estranged(t)

\* A request sent in an open session is answered, one way or the other, unless
\* its tab becomes an estranged leader.
EveryCallSettles ==
  \A t \in Tabs : \A i \in Ids :
    outcome[t][i] = "pending" ~> outcome[t][i] # "pending" \/ Estranged(t)

-----------------------------------------------------------------------------
(* The transport implements StorageService for the calls of all tabs.      *)

Service ==
  INSTANCE StorageService WITH
    Requests <- Tabs \X Calls,
    writer <- IF workers = {} THEN 0 ELSE CHOOSE w \in workers : TRUE,
    last <- epoch,
    status <- [q \in Tabs \X Calls |-> outcome[q[1]][q[2]]],
    runs <- [q \in Tabs \X Calls |-> ran[q]]

\* Whatever is lost, replayed, replaced or restarted on the way, callers see
\* the service of StorageService: one worker at a time in increasing order,
\* success only for a request that ran, promises that settle once.
ImplementsService == Service!Spec

=============================================================================
