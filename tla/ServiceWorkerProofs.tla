--------------------------- MODULE ServiceWorkerProofs ---------------------------
(***************************************************************************)
(* The offline shell for any number of pages and deployments.              *)
(***************************************************************************)
EXTENDS ServiceWorker, TLAPS

\* Each worker is of a newer build than the one it will replace.
OrderInv ==
  /\ installing # None => waiting < installing /\ active < installing
  /\ waiting # None => active < waiting

\* The installation in hand: no deployment and no deletion has met it, or it
\* is among the raced ones.
InstallInv ==
  /\ linked => installing # None /\ installing \in caches
  /\ installing # None /\ installing \notin raced =>
       linked /\ installing = server /\ \A u \in Urls : evaluated[u] \in {None, installing}

\* Version v can boot its build without the network.
Ready(v) == v \in caches /\ shellIn[v] = v /\ v \in chunksIn[v]

\* OfflineReady for the worker that waits as well, which is to be active, and
\* for the keys an activation has chosen to delete.
ReadyInv ==
  /\ \A v \in {waiting, active} : v # None /\ v \notin raced => Ready(v)
  /\ activation = "delete" => active \notin stale

\* A page is controlled by the active worker or by none.
PageOK(p) ==
  /\ page[p].controller \in {None, active}
  /\ page[p].state \in {"loading", "asking", "up"} => page[p].build # None
  /\ page[p].state \in {"asking", "broken"} => page[p].excused
PageInv == \A p \in Pages : PageOK(p)

\* Inductive.
ShellInv == TypeOK /\ OrderInv /\ InstallInv /\ ReadyInv /\ PageInv

USE BuildsAssumption DEF None, Builds

\* TypeOK by the part of the state it speaks of.
PageRecords == [build: 0 .. server, controller: 0 .. server,
                state: {"blank", "loading", "asking", "up", "broken"},
                into: caches \cup {None}, excused: BOOLEAN]
WorkerTypes ==
  /\ server \in Builds /\ online \in BOOLEAN
  /\ installing \in 0 .. server /\ waiting \in 0 .. server /\ active \in 0 .. server
  /\ evaluated \in [Urls -> 0 .. server] /\ linked \in BOOLEAN
  /\ activation \in {"keys", "delete", "claim", "done"}
  /\ raced \subseteq 1 .. server
CacheTypes ==
  /\ stale \subseteq caches /\ caches \subseteq 1 .. server
  /\ shellIn \in [Builds -> 0 .. server] /\ chunksIn \in [Builds -> SUBSET (1 .. server)]
  /\ puts \subseteq caches \X (1 .. server)
EmptyWhereNone == \A v \in Builds \ caches : shellIn[v] = None /\ chunksIn[v] = {}
PageTypes == page \in [Pages -> PageRecords]

LEMMA TypeParts ==
  /\ TypeOK => WorkerTypes /\ CacheTypes /\ EmptyWhereNone /\ PageTypes
  /\ WorkerTypes' /\ CacheTypes' /\ EmptyWhereNone' /\ PageTypes' => TypeOK'
BY DEF TypeOK, WorkerTypes, CacheTypes, EmptyWhereNone, PageTypes, PageRecords

LEMMA NothingFetched == server \in Builds => Nothing \in [Urls -> 0 .. server]
BY DEF Nothing

LEMMA MoreRecords ==
  ASSUME server \in Nat, server' \in Nat, server <= server', caches \subseteq caches',
         NEW r \in PageRecords
  PROVE  r \in PageRecords'
<1>1. 0 .. server \subseteq 0 .. server' /\ caches \cup {None} \subseteq caches' \cup {None}
  OBVIOUS
<1>. QED BY <1>1 DEF PageRecords

LEMMA DeployPreserves ==
  ASSUME ShellInv, Deploy
  PROVE  ShellInv'
<1>1. TypeOK'
  <2>1. WorkerTypes'
    BY TypeParts DEF ShellInv, WorkerTypes, Urls, Deploy, cacheVars, workerVars
  <2>2. CacheTypes'
    <3>1. /\ CacheTypes /\ WorkerTypes /\ server' = server + 1
          /\ UNCHANGED <<stale, caches, shellIn, chunksIn, puts>>
      BY TypeParts DEF ShellInv, Deploy, cacheVars, workerVars
    <3>2. 0 .. server \subseteq 0 .. server' /\ 1 .. server \subseteq 1 .. server'
      BY <3>1 DEF WorkerTypes
    <3>3. puts' \subseteq caches' \X (1 .. server')
      BY <3>1, <3>2 DEF CacheTypes
    <3>4. shellIn' \in [Builds -> 0 .. server'] /\ chunksIn' \in [Builds -> SUBSET (1 .. server')]
      BY <3>1, <3>2 DEF CacheTypes
    <3>. QED BY <3>1, <3>2, <3>3, <3>4 DEF CacheTypes
  <2>3. EmptyWhereNone'
    BY TypeParts DEF ShellInv, EmptyWhereNone, CacheTypes, WorkerTypes, PageTypes, PageRecords,
       InstallInv, Deploy, cacheVars, workerVars
  <2>4. PageTypes'
    BY TypeParts DEF ShellInv, PageTypes, WorkerTypes, CacheTypes, PageRecords, Deploy, cacheVars,
       workerVars
  <2>. QED BY <2>1, <2>2, <2>3, <2>4, TypeParts
<1>2. OrderInv'
  BY DEF ShellInv, OrderInv, TypeOK, Urls, Deploy, cacheVars, workerVars
<1>3. InstallInv'
  BY DEF ShellInv, InstallInv, OrderInv, TypeOK, Urls, Deploy, cacheVars, workerVars
<1>4. ReadyInv'
  BY DEF ShellInv, ReadyInv, Ready, InstallInv, OrderInv, TypeOK, Urls, Deploy, cacheVars,
     workerVars
<1>5. PageInv'
  BY DEF ShellInv, PageInv, PageOK, ReadyInv, Ready, TypeOK, Deploy, cacheVars, workerVars
<1>. QED BY <1>1, <1>2, <1>3, <1>4, <1>5 DEF ShellInv

LEMMA NetworkPreserves ==
  ASSUME ShellInv, Network
  PROVE  ShellInv'
<1>1. TypeOK'
  BY DEF ShellInv, TypeOK, InstallInv, PageInv, PageOK, Urls, Network, cacheVars,
     workerVars
<1>2. OrderInv'
  BY DEF ShellInv, OrderInv, TypeOK, Urls, Network, cacheVars, workerVars
<1>3. InstallInv'
  BY DEF ShellInv, InstallInv, OrderInv, TypeOK, Urls, Network, cacheVars, workerVars
<1>4. ReadyInv'
  BY DEF ShellInv, ReadyInv, Ready, InstallInv, OrderInv, TypeOK, Urls, Network, cacheVars,
     workerVars
<1>5. PageInv'
  BY DEF ShellInv, PageInv, PageOK, ReadyInv, Ready, TypeOK, Network, cacheVars, workerVars
<1>. QED BY <1>1, <1>2, <1>3, <1>4, <1>5 DEF ShellInv

LEMMA AddAllFetchPreserves ==
  ASSUME ShellInv, NEW u \in Urls, AddAllFetch(u)
  PROVE  ShellInv'
<1>1. TypeOK'
  BY DEF ShellInv, TypeOK, InstallInv, PageInv, PageOK, Urls, AddAllFetch, cacheVars,
     Origin
<1>2. OrderInv'
  BY DEF ShellInv, OrderInv, TypeOK, Urls, AddAllFetch, cacheVars, Origin
<1>3. InstallInv'
  BY DEF ShellInv, InstallInv, OrderInv, TypeOK, Urls, AddAllFetch, cacheVars, Origin
<1>4. ReadyInv'
  BY DEF ShellInv, ReadyInv, Ready, InstallInv, OrderInv, TypeOK, Urls, AddAllFetch,
     cacheVars, Origin
<1>5. PageInv'
  BY DEF ShellInv, PageInv, PageOK, ReadyInv, Ready, TypeOK, AddAllFetch, cacheVars, Origin
<1>. QED BY <1>1, <1>2, <1>3, <1>4, <1>5 DEF ShellInv

LEMMA InstallDonePreserves ==
  ASSUME ShellInv, InstallDone
  PROVE  ShellInv'
<1>1. TypeOK'
  <2>1. WorkerTypes'
    <3>1. WorkerTypes /\ evaluated' \in [Urls -> 0 .. server]
      BY TypeParts, NothingFetched DEF ShellInv, WorkerTypes, InstallDone
    <3>2. /\ installing' \in 0 .. server /\ waiting' \in 0 .. server /\ active' \in 0 .. server
          /\ UNCHANGED <<server, online, activation, raced>> /\ linked' = FALSE
      BY <3>1 DEF WorkerTypes, InstallDone
    <3>. QED BY <3>1, <3>2 DEF WorkerTypes
  <2>2. CacheTypes'
    <3>1. /\ CacheTypes /\ WorkerTypes /\ UNCHANGED <<server, caches, stale, puts>>
          /\ evaluated["shell"] \in 0 .. server /\ evaluated["chunk"] \in 0 .. server
          /\ installing \in Builds
      BY TypeParts DEF ShellInv, WorkerTypes, InstallDone, Urls
    <3>2. shellIn' \in [Builds -> 0 .. server]
      BY <3>1 DEF InstallDone, CacheTypes
    <3>3. {evaluated["chunk"]} \ {None} \in SUBSET (1 .. server)
      BY <3>1 DEF WorkerTypes
    <3>4. chunksIn' \in [Builds -> SUBSET (1 .. server)]
      <4>. DEFINE more == {evaluated["chunk"]} \ {None}
      <4>1. chunksIn' \in {chunksIn, [chunksIn EXCEPT ![installing] = @ \cup more]}
        BY DEF InstallDone
      <4>. HIDE DEF more
      <4>. QED BY <3>1, <3>3, <4>1 DEF CacheTypes, more
    <3>. QED BY <3>1, <3>2, <3>4 DEF CacheTypes
  <2>3. EmptyWhereNone'
    BY TypeParts DEF ShellInv, EmptyWhereNone, CacheTypes, WorkerTypes, PageTypes, PageRecords,
       InstallInv, InstallDone, Nothing, AllThere
  <2>4. PageTypes'
    BY TypeParts DEF ShellInv, PageTypes, WorkerTypes, CacheTypes, PageRecords, InstallDone,
       Nothing,
       AllThere
  <2>. QED BY <2>1, <2>2, <2>3, <2>4, TypeParts
<1>2. OrderInv'
  BY DEF ShellInv, OrderInv, TypeOK, Urls, InstallDone, Nothing, AllThere
<1>3. InstallInv'
  BY DEF ShellInv, InstallInv, OrderInv, TypeOK, Urls, InstallDone, Nothing, AllThere
<1>4. ReadyInv'
  <2>1. /\ waiting' = installing /\ active' = active /\ raced' = raced /\ caches' = caches
        /\ activation' = activation /\ stale' = stale /\ installing # None
        /\ installing \in Builds /\ active \in 0 .. server /\ active # installing
    BY TypeParts DEF ShellInv, OrderInv, WorkerTypes, InstallDone
  <2>2. ASSUME installing \notin raced PROVE Ready(waiting)'
    <3>1. linked /\ installing \in caches /\ \A u \in Urls : evaluated[u] = installing
      BY <2>1, <2>2 DEF ShellInv, InstallInv, InstallDone, AllThere
    <3>2. evaluated["shell"] = installing /\ evaluated["chunk"] = installing
      BY <3>1 DEF Urls
    <3>3. /\ shellIn' = [shellIn EXCEPT ![installing] = installing]
          /\ chunksIn' = [chunksIn EXCEPT ![installing] = @ \cup ({installing} \ {None})]
      BY <3>1, <3>2 DEF InstallDone
    <3>4. DOMAIN shellIn = Builds /\ DOMAIN chunksIn = Builds
      BY TypeParts DEF ShellInv, CacheTypes
    <3>5. waiting' \in caches' /\ shellIn'[waiting'] = waiting' /\ waiting' \in chunksIn'[waiting']
      BY <2>1, <3>1, <3>3, <3>4
    <3>. QED BY <3>5 DEF Ready
  <2>3. ASSUME active # None, active \notin raced PROVE Ready(active)'
    <3>1. Ready(active) /\ active \in Builds
      BY <2>1, <2>3, TypeParts DEF ShellInv, ReadyInv, WorkerTypes
    <3>. QED BY <2>1, <3>1, TypeParts DEF InstallDone, Ready, ShellInv, CacheTypes
  <2>. QED BY <2>1, <2>2, <2>3 DEF ShellInv, ReadyInv
<1>5. PageInv'
  BY DEF ShellInv, PageInv, PageOK, ReadyInv, Ready, TypeOK, InstallDone, Nothing, AllThere
<1>. QED BY <1>1, <1>2, <1>3, <1>4, <1>5 DEF ShellInv

LEMMA InstallFailsPreserves ==
  ASSUME ShellInv, InstallFails
  PROVE  ShellInv'
<1>1. TypeOK'
  <2>1. WorkerTypes'
    <3>1. WorkerTypes /\ evaluated' \in [Urls -> 0 .. server]
      BY TypeParts, NothingFetched DEF ShellInv, WorkerTypes, InstallFails
    <3>2. /\ installing' \in 0 .. server /\ waiting' \in 0 .. server /\ active' \in 0 .. server
          /\ UNCHANGED <<server, online, activation, raced>> /\ linked' = FALSE
      BY <3>1 DEF WorkerTypes, InstallFails
    <3>. QED BY <3>1, <3>2 DEF WorkerTypes
  <2>2. CacheTypes'
    BY TypeParts DEF ShellInv, CacheTypes, WorkerTypes, PageTypes, PageRecords, PageInv, PageOK,
       InstallInv, InstallFails, cacheVars, Nothing, Origin
  <2>3. EmptyWhereNone'
    BY TypeParts DEF ShellInv, EmptyWhereNone, CacheTypes, WorkerTypes, PageTypes, PageRecords,
       InstallInv, InstallFails, cacheVars, Nothing, Origin
  <2>4. PageTypes'
    BY TypeParts DEF ShellInv, PageTypes, WorkerTypes, CacheTypes, PageRecords, InstallFails,
       cacheVars, Nothing, Origin
  <2>. QED BY <2>1, <2>2, <2>3, <2>4, TypeParts
<1>2. OrderInv'
  BY DEF ShellInv, OrderInv, TypeOK, Urls, InstallFails, cacheVars, Nothing, Origin
<1>3. InstallInv'
  BY DEF ShellInv, InstallInv, OrderInv, TypeOK, Urls, InstallFails, cacheVars, Nothing,
     Origin
<1>4. ReadyInv'
  BY DEF ShellInv, ReadyInv, Ready, InstallInv, OrderInv, TypeOK, Urls, InstallFails,
     cacheVars, Nothing, Origin
<1>5. PageInv'
  BY DEF ShellInv, PageInv, PageOK, ReadyInv, Ready, TypeOK, InstallFails, cacheVars,
     Nothing, Origin
<1>. QED BY <1>1, <1>2, <1>3, <1>4, <1>5 DEF ShellInv

LEMMA ActivatePreserves ==
  ASSUME ShellInv, Activate
  PROVE  ShellInv'
<1>1. TypeOK'
  <2>1. WorkerTypes'
    BY TypeParts DEF ShellInv, WorkerTypes, Urls, Activate, cacheVars, MayActivate
  <2>2. CacheTypes'
    BY TypeParts DEF ShellInv, CacheTypes, WorkerTypes, PageTypes, PageRecords, PageInv, PageOK,
       InstallInv, Activate, cacheVars, MayActivate
  <2>3. EmptyWhereNone'
    BY TypeParts DEF ShellInv, EmptyWhereNone, CacheTypes, WorkerTypes, PageTypes, PageRecords,
       InstallInv, Activate, cacheVars, MayActivate
  <2>4. PageTypes'
    <3>1. /\ page \in [Pages -> PageRecords] /\ WorkerTypes /\ UNCHANGED <<server, caches>>
      BY TypeParts DEF ShellInv, PageTypes, Activate, cacheVars
    <3>2. ASSUME NEW p \in Pages PROVE page'[p] \in PageRecords
      <4>1. page[p] \in PageRecords
        BY <3>1
      <4>. QED BY <3>1, <4>1 DEF Activate, PageRecords, WorkerTypes
    <3>3. page' = [p \in Pages |-> page'[p]]
      BY DEF Activate
    <3>4. PageRecords' = PageRecords
      BY <3>1 DEF PageRecords
    <3>. QED BY <3>2, <3>3, <3>4 DEF PageTypes
  <2>. QED BY <2>1, <2>2, <2>3, <2>4, TypeParts
<1>2. OrderInv'
  BY DEF ShellInv, OrderInv, TypeOK, Urls, Activate, cacheVars, MayActivate
<1>3. InstallInv'
  BY DEF ShellInv, InstallInv, OrderInv, TypeOK, Urls, Activate, cacheVars, MayActivate
<1>4. ReadyInv'
  BY DEF ShellInv, ReadyInv, Ready, InstallInv, OrderInv, TypeOK, Urls, Activate,
     cacheVars, MayActivate
<1>5. PageInv'
  BY DEF ShellInv, PageInv, PageOK, ReadyInv, Ready, TypeOK, Activate, cacheVars,
     MayActivate
<1>. QED BY <1>1, <1>2, <1>3, <1>4, <1>5 DEF ShellInv

LEMMA ActivateKeysPreserves ==
  ASSUME ShellInv, ActivateKeys
  PROVE  ShellInv'
<1>1. TypeOK'
  BY DEF ShellInv, TypeOK, InstallInv, PageInv, PageOK, Urls, ActivateKeys, cacheVars,
     StaleKeys
<1>2. OrderInv'
  BY DEF ShellInv, OrderInv, TypeOK, Urls, ActivateKeys, cacheVars, StaleKeys
<1>3. InstallInv'
  BY DEF ShellInv, InstallInv, OrderInv, TypeOK, Urls, ActivateKeys, cacheVars, StaleKeys
<1>4. ReadyInv'
  BY DEF ShellInv, ReadyInv, Ready, InstallInv, OrderInv, TypeOK, Urls, ActivateKeys,
     cacheVars, StaleKeys
<1>5. PageInv'
  BY DEF ShellInv, PageInv, PageOK, ReadyInv, Ready, TypeOK, ActivateKeys, cacheVars,
     StaleKeys
<1>. QED BY <1>1, <1>2, <1>3, <1>4, <1>5 DEF ShellInv

LEMMA ActivateDeletePreserves ==
  ASSUME ShellInv, ActivateDelete
  PROVE  ShellInv'
<1>1. TypeOK'
  <2>1. WorkerTypes'
    <3>1. WorkerTypes /\ CacheTypes
      BY TypeParts DEF ShellInv
    <3>2. raced' \subseteq 1 .. server
      BY <3>1 DEF ActivateDelete, WorkerTypes, CacheTypes
    <3>3. linked' \in BOOLEAN
      BY DEF ActivateDelete
    <3>. QED BY <3>1, <3>2, <3>3 DEF WorkerTypes, ActivateDelete
  <2>2. CacheTypes'
    BY TypeParts DEF ShellInv, CacheTypes, WorkerTypes, PageTypes, PageRecords, PageInv, PageOK,
       InstallInv, ActivateDelete
  <2>3. EmptyWhereNone'
    BY TypeParts DEF ShellInv, EmptyWhereNone, CacheTypes, WorkerTypes, PageTypes, PageRecords,
       InstallInv, ActivateDelete
  <2>4. PageTypes'
    <3>1. page \in [Pages -> PageRecords] /\ UNCHANGED server /\ caches' = caches \ stale
      BY TypeParts DEF ShellInv, PageTypes, ActivateDelete
    <3>2. ASSUME NEW p \in Pages PROVE page'[p] \in PageRecords'
      <4>1. page[p] \in PageRecords
        BY <3>1
      <4>2. page'[p] = [page[p] EXCEPT !.into = IF page[p].into \in stale THEN None ELSE page[p].into]
        BY DEF ActivateDelete
      <4>. QED BY <3>1, <4>1, <4>2 DEF PageRecords
    <3>3. page' = [p \in Pages |-> page'[p]]
      BY DEF ActivateDelete
    <3>. QED BY <3>2, <3>3 DEF PageTypes
  <2>. QED BY <2>1, <2>2, <2>3, <2>4, TypeParts
<1>2. OrderInv'
  BY DEF ShellInv, OrderInv, TypeOK, Urls, ActivateDelete
<1>3. InstallInv'
  BY DEF ShellInv, InstallInv, OrderInv, TypeOK, Urls, ActivateDelete
<1>4. ReadyInv'
  BY DEF ShellInv, ReadyInv, Ready, InstallInv, OrderInv, TypeOK, Urls, ActivateDelete
<1>5. PageInv'
  <2>1. ASSUME NEW p \in Pages PROVE PageOK(p)'
    <3>1. page[p] \in PageRecords /\ PageOK(p)
      BY TypeParts DEF ShellInv, PageTypes, PageInv
    <3>2. /\ page'[p] = [page[p] EXCEPT !.into = IF page[p].into \in stale THEN None ELSE page[p].into]
          /\ UNCHANGED active
      BY DEF ActivateDelete
    <3>3. /\ page'[p].controller = page[p].controller /\ page'[p].state = page[p].state
          /\ page'[p].build = page[p].build /\ page'[p].excused = page[p].excused
      BY <3>1, <3>2 DEF PageRecords
    <3>. QED BY <3>1, <3>2, <3>3 DEF PageOK
  <2>. QED BY <2>1 DEF PageInv
<1>. QED BY <1>1, <1>2, <1>3, <1>4, <1>5 DEF ShellInv

LEMMA ClaimPreserves ==
  ASSUME ShellInv, Claim
  PROVE  ShellInv'
<1>1. TypeOK'
  <2>1. WorkerTypes'
    BY TypeParts DEF ShellInv, WorkerTypes, Urls, Claim, cacheVars
  <2>2. CacheTypes'
    BY TypeParts DEF ShellInv, CacheTypes, WorkerTypes, PageTypes, PageRecords, PageInv, PageOK,
       InstallInv, Claim, cacheVars
  <2>3. EmptyWhereNone'
    BY TypeParts DEF ShellInv, EmptyWhereNone, CacheTypes, WorkerTypes, PageTypes, PageRecords,
       InstallInv, Claim, cacheVars
  <2>4. PageTypes'
    <3>1. /\ page \in [Pages -> PageRecords] /\ WorkerTypes /\ UNCHANGED <<server, caches>>
      BY TypeParts DEF ShellInv, PageTypes, Claim, cacheVars
    <3>2. ASSUME NEW p \in Pages PROVE page'[p] \in PageRecords
      <4>1. page[p] \in PageRecords
        BY <3>1
      <4>. QED BY <3>1, <4>1 DEF Claim, PageRecords, WorkerTypes
    <3>3. page' = [p \in Pages |-> page'[p]]
      BY DEF Claim
    <3>4. PageRecords' = PageRecords
      BY <3>1 DEF PageRecords
    <3>. QED BY <3>2, <3>3, <3>4 DEF PageTypes
  <2>. QED BY <2>1, <2>2, <2>3, <2>4, TypeParts
<1>2. OrderInv'
  BY DEF ShellInv, OrderInv, TypeOK, Urls, Claim, cacheVars
<1>3. InstallInv'
  BY DEF ShellInv, InstallInv, OrderInv, TypeOK, Urls, Claim, cacheVars
<1>4. ReadyInv'
  BY DEF ShellInv, ReadyInv, Ready, InstallInv, OrderInv, TypeOK, Urls, Claim, cacheVars
<1>5. PageInv'
  BY DEF ShellInv, PageInv, PageOK, ReadyInv, Ready, TypeOK, Claim, cacheVars
<1>. QED BY <1>1, <1>2, <1>3, <1>4, <1>5 DEF ShellInv

LEMMA RegisterPreserves ==
  ASSUME ShellInv, NEW p \in Pages, Register(p)
  PROVE  ShellInv'
<1>1. TypeOK'
  BY DEF ShellInv, TypeOK, InstallInv, PageInv, PageOK, Urls, Register, Nothing, Opened
<1>2. OrderInv'
  BY DEF ShellInv, OrderInv, TypeOK, Urls, Register, Nothing, Opened
<1>3. InstallInv'
  BY DEF ShellInv, InstallInv, OrderInv, TypeOK, Urls, Register, Nothing, Opened
<1>4. ReadyInv'
  BY DEF ShellInv, ReadyInv, Ready, InstallInv, OrderInv, TypeOK, Urls, Register, Nothing,
     Opened
<1>5. PageInv'
  BY DEF ShellInv, PageInv, PageOK, ReadyInv, Ready, TypeOK, Register, Nothing, Opened
<1>. QED BY <1>1, <1>2, <1>3, <1>4, <1>5 DEF ShellInv

LEMMA NavigatePreserves ==
  ASSUME ShellInv, NEW p \in Pages, Navigate(p)
  PROVE  ShellInv'
<1>1. TypeOK'
  <2>1. WorkerTypes'
    BY TypeParts DEF ShellInv, WorkerTypes, Urls, Navigate, workerVars, Blank, Shows, Opened,
       Answers,
       ShellFor
  <2>2. CacheTypes'
    <3>1. CacheTypes /\ WorkerTypes
      BY TypeParts DEF ShellInv
    <3>2. caches \subseteq caches' /\ caches' \subseteq 1 .. server
      BY <3>1 DEF Navigate, Opened, CacheTypes, WorkerTypes
    <3>. QED BY <3>1, <3>2 DEF Navigate, CacheTypes, workerVars
  <2>3. EmptyWhereNone'
    BY TypeParts DEF ShellInv, EmptyWhereNone, CacheTypes, WorkerTypes, PageTypes, PageRecords,
       InstallInv, Navigate, workerVars, Blank, Shows, Opened, Answers, ShellFor
  <2>4. PageTypes'
    BY TypeParts DEF ShellInv, PageTypes, WorkerTypes, CacheTypes, PageRecords, Navigate,
       workerVars,
       Blank, Shows, Opened, Answers, ShellFor
  <2>. QED BY <2>1, <2>2, <2>3, <2>4, TypeParts
<1>2. OrderInv'
  BY DEF ShellInv, OrderInv, TypeOK, Urls, Navigate, workerVars, Blank, Shows, Opened, Answers,
     ShellFor
<1>3. InstallInv'
  BY DEF ShellInv, InstallInv, OrderInv, TypeOK, Urls, Navigate, workerVars, Blank, Shows, Opened,
     Answers, ShellFor
<1>4. ReadyInv'
  BY DEF ShellInv, ReadyInv, Ready, InstallInv, OrderInv, TypeOK, Urls, Navigate,
     workerVars, Blank, Shows, Opened, Answers, ShellFor
<1>5. PageInv'
  BY DEF ShellInv, PageInv, PageOK, ReadyInv, Ready, TypeOK, Navigate, workerVars, Blank,
     Shows, Opened, Answers, ShellFor
<1>. QED BY <1>1, <1>2, <1>3, <1>4, <1>5 DEF ShellInv

LEMMA ChunkHitPreserves ==
  ASSUME ShellInv, NEW p \in Pages, ChunkHit(p)
  PROVE  ShellInv'
<1>1. TypeOK'
  <2>1. WorkerTypes'
    BY TypeParts DEF ShellInv, WorkerTypes, ChunkHit, workerVars, Opened, Asks, Answers, Hit
  <2>2. CacheTypes'
    BY TypeParts DEF ShellInv, CacheTypes, WorkerTypes, PageTypes, PageRecords, PageInv, PageOK,
       ChunkHit, workerVars, Opened, Asks, Answers, Hit
  <2>3. EmptyWhereNone'
    BY TypeParts DEF ShellInv, EmptyWhereNone, CacheTypes, WorkerTypes, ChunkHit, workerVars,
       Opened, Asks, Answers, Hit
  <2>4. PageTypes'
    <3>1. /\ page \in [Pages -> PageRecords] /\ page[p] \in PageRecords /\ UNCHANGED server
          /\ server \in Nat /\ caches \subseteq caches'
      BY TypeParts DEF ShellInv, PageTypes, WorkerTypes, ChunkHit, Opened
    <3>. DEFINE r == [page[p] EXCEPT !.state = "up"]
    <3>2. page' = [page EXCEPT ![p] = r]
      BY <3>1 DEF ChunkHit
    <3>3. r \in PageRecords'
      BY <3>1 DEF PageRecords
    <3>4. \A q \in Pages : page[q] \in PageRecords'
      BY <3>1, MoreRecords
    <3>. HIDE DEF r
    <3>. QED BY <3>1, <3>2, <3>3, <3>4 DEF PageTypes
  <2>. QED BY <2>1, <2>2, <2>3, <2>4, TypeParts
<1>2. OrderInv'
  BY DEF ShellInv, OrderInv, TypeOK, Urls, ChunkHit, workerVars, Opened, Asks, Answers, Hit
<1>3. InstallInv'
  BY DEF ShellInv, InstallInv, OrderInv, TypeOK, Urls, ChunkHit, workerVars, Opened, Asks,
     Answers, Hit
<1>4. ReadyInv'
  BY DEF ShellInv, ReadyInv, Ready, TypeOK, ChunkHit, workerVars, Opened, Asks, Answers, Hit
<1>5. PageInv'
  BY DEF ShellInv, PageInv, PageOK, ReadyInv, Ready, TypeOK, ChunkHit, workerVars, Opened, Asks,
     Answers, Hit
<1>. QED BY <1>1, <1>2, <1>3, <1>4, <1>5 DEF ShellInv

LEMMA ChunkMissPreserves ==
  ASSUME ShellInv, NEW p \in Pages, ChunkMiss(p)
  PROVE  ShellInv'
<1>1. TypeOK'
  <2>1. WorkerTypes'
    BY TypeParts DEF ShellInv, WorkerTypes, ChunkMiss, workerVars, Opened, Asks, Answers, Hit
  <2>2. CacheTypes'
    BY TypeParts DEF ShellInv, CacheTypes, WorkerTypes, PageTypes, PageRecords, PageInv, PageOK,
       ChunkMiss, workerVars, Opened, Asks, Answers, Hit
  <2>3. EmptyWhereNone'
    BY TypeParts DEF ShellInv, EmptyWhereNone, CacheTypes, WorkerTypes, ChunkMiss, workerVars,
       Opened, Asks, Answers, Hit
  <2>4. PageTypes'
    <3>1. /\ page \in [Pages -> PageRecords] /\ page[p] \in PageRecords /\ UNCHANGED server
          /\ server \in Nat /\ caches \subseteq caches'
      BY TypeParts DEF ShellInv, PageTypes, WorkerTypes, ChunkMiss, Opened
    <3>. DEFINE e == (page[p].controller = page[p].build => page[p].build \in raced)
    <3>a. e \in BOOLEAN /\ page[p].controller \in caches' \cup {None}
      BY <3>1 DEF ChunkMiss, Opened
    <3>. DEFINE r == [page[p] EXCEPT !.state = "asking", !.into = page[p].controller, !.excused = e]
    <3>2. page' = [page EXCEPT ![p] = r]
      BY <3>1 DEF ChunkMiss
    <3>. HIDE DEF e
    <3>3. r \in PageRecords'
      BY <3>1, <3>a DEF PageRecords
    <3>4. \A q \in Pages : page[q] \in PageRecords'
      BY <3>1, MoreRecords
    <3>. HIDE DEF r
    <3>. QED BY <3>1, <3>2, <3>3, <3>4 DEF PageTypes
  <2>. QED BY <2>1, <2>2, <2>3, <2>4, TypeParts
<1>2. OrderInv'
  BY DEF ShellInv, OrderInv, TypeOK, Urls, ChunkMiss, workerVars, Opened, Asks, Answers, Hit
<1>3. InstallInv'
  BY DEF ShellInv, InstallInv, OrderInv, TypeOK, Urls, ChunkMiss, workerVars, Opened, Asks,
     Answers, Hit
<1>4. ReadyInv'
  BY DEF ShellInv, ReadyInv, Ready, TypeOK, ChunkMiss, workerVars, Opened, Asks, Answers, Hit
<1>5. PageInv'
  <2>1. ASSUME NEW q \in Pages PROVE PageOK(q)'
    <3>1. page \in [Pages -> PageRecords] /\ PageOK(q) /\ PageOK(p) /\ UNCHANGED active
      BY TypeParts DEF ShellInv, PageTypes, PageInv, ChunkMiss, workerVars
    <3>2. CASE q # p
      <4>1. page'[q] = page[q]
        BY <3>1, <3>2 DEF ChunkMiss
      <4>. QED BY <3>1, <4>1 DEF PageOK
    <3>3. CASE q = p
      <4>1. page[p] \in PageRecords
        BY <3>1
      <4>2. page[p].build # None /\ page[p].controller \in {None, active}
        BY <3>1 DEF PageOK, ChunkMiss, Asks
      <4>3. page[p].controller = page[p].build => page[p].build \in raced
        BY <4>2 DEF ShellInv, ReadyInv, Ready, ChunkMiss, Hit
      <4>4. page'[p] = [page[p] EXCEPT !.state = "asking", !.into = page[p].controller, !.excused = TRUE]
        BY <3>1, <4>3 DEF ChunkMiss
      <4>5. /\ page'[p].controller = page[p].controller /\ page'[p].state = "asking"
            /\ page'[p].build = page[p].build /\ page'[p].excused
        BY <4>1, <4>4 DEF PageRecords
      <4>. QED BY <3>1, <3>3, <4>2, <4>5 DEF PageOK
    <3>. QED BY <3>2, <3>3
  <2>. QED BY <2>1 DEF PageInv
<1>. QED BY <1>1, <1>2, <1>3, <1>4, <1>5 DEF ShellInv

LEMMA ChunkFetchedPreserves ==
  ASSUME ShellInv, NEW p \in Pages, ChunkFetched(p)
  PROVE  ShellInv'
<1>1. TypeOK'
  <2>1. WorkerTypes'
    BY TypeParts DEF ShellInv, WorkerTypes, ChunkFetched, workerVars, Reachable, Shows
  <2>2. CacheTypes'
    BY TypeParts DEF ShellInv, CacheTypes, WorkerTypes, PageTypes, PageRecords, PageInv, PageOK,
       ChunkFetched, workerVars, Reachable, Shows
  <2>3. EmptyWhereNone'
    BY TypeParts DEF ShellInv, EmptyWhereNone, CacheTypes, WorkerTypes, ChunkFetched, workerVars,
       Reachable, Shows
  <2>4. PageTypes'
    BY TypeParts DEF ShellInv, PageTypes, WorkerTypes, CacheTypes, PageRecords, ChunkFetched,
       workerVars, Reachable, Shows
  <2>. QED BY <2>1, <2>2, <2>3, <2>4, TypeParts
<1>2. OrderInv'
  BY DEF ShellInv, OrderInv, TypeOK, Urls, ChunkFetched, workerVars, Reachable, Shows
<1>3. InstallInv'
  BY DEF ShellInv, InstallInv, OrderInv, TypeOK, Urls, ChunkFetched, workerVars, Reachable, Shows
<1>4. ReadyInv'
  BY DEF ShellInv, ReadyInv, Ready, TypeOK, ChunkFetched, workerVars, Reachable, Shows
<1>5. PageInv'
  BY DEF ShellInv, PageInv, PageOK, ReadyInv, Ready, TypeOK, ChunkFetched, workerVars, Reachable,
     Shows
<1>. QED BY <1>1, <1>2, <1>3, <1>4, <1>5 DEF ShellInv

LEMMA ChunkFailsPreserves ==
  ASSUME ShellInv, NEW p \in Pages, ChunkFails(p)
  PROVE  ShellInv'
<1>1. TypeOK'
  <2>1. WorkerTypes'
    BY TypeParts DEF ShellInv, WorkerTypes, ChunkFails, workerVars, cacheVars, Reachable
  <2>2. CacheTypes'
    BY TypeParts DEF ShellInv, CacheTypes, WorkerTypes, PageTypes, PageRecords, PageInv, PageOK,
       ChunkFails, workerVars, cacheVars, Reachable
  <2>3. EmptyWhereNone'
    BY TypeParts DEF ShellInv, EmptyWhereNone, CacheTypes, WorkerTypes, ChunkFails, workerVars,
       cacheVars, Reachable
  <2>4. PageTypes'
    <3>1. /\ page \in [Pages -> PageRecords] /\ page[p] \in PageRecords /\ UNCHANGED server
          /\ server \in Nat /\ caches \subseteq caches'
      BY TypeParts DEF ShellInv, PageTypes, WorkerTypes, ChunkFails, cacheVars
    <3>. DEFINE r == [page[p] EXCEPT !.state = "broken", !.into = None]
    <3>2. page' = [page EXCEPT ![p] = r]
      BY <3>1 DEF ChunkFails
    <3>3. r \in PageRecords'
      BY <3>1 DEF PageRecords
    <3>4. \A q \in Pages : page[q] \in PageRecords'
      BY <3>1, MoreRecords
    <3>. HIDE DEF r
    <3>. QED BY <3>1, <3>2, <3>3, <3>4 DEF PageTypes
  <2>. QED BY <2>1, <2>2, <2>3, <2>4, TypeParts
<1>2. OrderInv'
  BY DEF ShellInv, OrderInv, TypeOK, Urls, ChunkFails, workerVars, cacheVars, Reachable
<1>3. InstallInv'
  BY DEF ShellInv, InstallInv, OrderInv, TypeOK, Urls, ChunkFails, workerVars, cacheVars, Reachable
<1>4. ReadyInv'
  BY DEF ShellInv, ReadyInv, Ready, TypeOK, ChunkFails, workerVars, cacheVars, Reachable
<1>5. PageInv'
  BY DEF ShellInv, PageInv, PageOK, ReadyInv, Ready, TypeOK, ChunkFails, workerVars, cacheVars,
     Reachable
<1>. QED BY <1>1, <1>2, <1>3, <1>4, <1>5 DEF ShellInv

LEMMA ChunkPutPreserves ==
  ASSUME ShellInv, NEW w \in Builds \X Builds, ChunkPut(w)
  PROVE  ShellInv'
<1>1. TypeOK'
  <2>1. WorkerTypes'
    BY TypeParts DEF ShellInv, WorkerTypes, ChunkPut, workerVars
  <2>2. CacheTypes'
    <3>1. /\ CacheTypes /\ UNCHANGED <<server, stale, caches, shellIn>> /\ puts' \subseteq puts
          /\ w[1] \in Builds /\ w[2] \in 1 .. server /\ w[1] \in caches
      BY TypeParts DEF ShellInv, CacheTypes, ChunkPut, workerVars
    <3>2. chunksIn' \in {chunksIn, [chunksIn EXCEPT ![w[1]] = chunksIn[w[1]] \cup {w[2]}]}
      BY DEF ChunkPut
    <3>3. chunksIn[w[1]] \cup {w[2]} \in SUBSET (1 .. server)
      BY <3>1 DEF CacheTypes
    <3>4. chunksIn' \in [Builds -> SUBSET (1 .. server)]
      BY <3>1, <3>2, <3>3 DEF CacheTypes
    <3>. QED BY <3>1, <3>4 DEF CacheTypes
  <2>3. EmptyWhereNone'
    <3>1. /\ CacheTypes /\ EmptyWhereNone /\ UNCHANGED <<caches, shellIn>> /\ w[1] \in caches
      BY TypeParts DEF ShellInv, CacheTypes, ChunkPut
    <3>2. \A v \in Builds \ caches : chunksIn'[v] = chunksIn[v]
      BY <3>1 DEF ChunkPut, CacheTypes
    <3>. QED BY <3>1, <3>2 DEF EmptyWhereNone
  <2>4. PageTypes'
    BY TypeParts DEF ShellInv, PageTypes, WorkerTypes, CacheTypes, PageRecords, ChunkPut, workerVars
  <2>. QED BY <2>1, <2>2, <2>3, <2>4, TypeParts
<1>2. OrderInv'
  BY DEF ShellInv, OrderInv, TypeOK, Urls, ChunkPut, workerVars
<1>3. InstallInv'
  BY DEF ShellInv, InstallInv, OrderInv, TypeOK, Urls, ChunkPut, workerVars
<1>4. ReadyInv'
  <2>1. UNCHANGED <<waiting, active, activation, stale, caches, shellIn, raced>>
    BY DEF ChunkPut, workerVars
  <2>2. \A v \in Builds : chunksIn[v] \subseteq chunksIn'[v]
    BY TypeParts DEF ShellInv, CacheTypes, ChunkPut
  <2>3. waiting \in 0 .. server /\ active \in 0 .. server /\ server \in Builds
    BY TypeParts DEF ShellInv, WorkerTypes
  <2>4. ASSUME NEW v \in Builds, Ready(v) PROVE Ready(v)'
    BY <2>1, <2>2, <2>4 DEF Ready
  <2>. QED BY <2>1, <2>3, <2>4 DEF ShellInv, ReadyInv
<1>5. PageInv'
  BY DEF ShellInv, PageInv, PageOK, ReadyInv, Ready, TypeOK, ChunkPut, workerVars
<1>. QED BY <1>1, <1>2, <1>3, <1>4, <1>5 DEF ShellInv

LEMMA ShellInvariant == Spec => []ShellInv
<1>1. Init => ShellInv
  <2>. SUFFICES ASSUME Init PROVE ShellInv
    OBVIOUS
  <2>1. Nothing \in [Urls -> 0 .. server]
    BY NothingFetched DEF Init
  <2>2. page \in [Pages -> [build: 0 .. server, controller: 0 .. server,
                          state: {"blank", "loading", "asking", "up", "broken"},
                          into: caches \cup {None}, excused: BOOLEAN]]
    BY DEF Init, Blank, Shows
  <2>3. TypeOK
    <3>1. shellIn \in [Builds -> 0 .. server] /\ chunksIn \in [Builds -> SUBSET (1 .. server)]
      BY DEF Init
    <3>2. evaluated \in [Urls -> 0 .. server] /\ server \in Builds
      BY <2>1 DEF Init
    <3>3. \A v \in Builds \ caches : shellIn[v] = None /\ chunksIn[v] = {}
      BY DEF Init
    <3>. QED BY <2>2, <3>1, <3>2, <3>3 DEF Init, TypeOK
  <2>4. OrderInv /\ InstallInv /\ ReadyInv /\ PageInv
    BY DEF Init, OrderInv, InstallInv, ReadyInv, PageInv, PageOK, Blank, Shows
  <2>. QED BY <2>3, <2>4 DEF ShellInv
<1>2. ShellInv /\ [Next]_vars => ShellInv'
  <2>1. ASSUME ShellInv, UNCHANGED vars PROVE ShellInv'
    BY <2>1 DEF vars, ShellInv, TypeOK, OrderInv, InstallInv, ReadyInv, Ready, PageInv, PageOK
  <2>. QED BY <2>1, DeployPreserves, NetworkPreserves, AddAllFetchPreserves, InstallDonePreserves,
             InstallFailsPreserves, ActivatePreserves, ActivateKeysPreserves,
             ActivateDeletePreserves, ClaimPreserves, RegisterPreserves, NavigatePreserves,
             ChunkHitPreserves, ChunkMissPreserves, ChunkFetchedPreserves, ChunkFailsPreserves,
             ChunkPutPreserves DEF Next
<1>. QED BY <1>1, <1>2, PTL DEF Spec

\* Every reachable state of the workers, caches and pages is well typed and
\* no deleted cache holds anything, for any number of pages and deployments.
THEOREM TypeCorrect == Spec => []TypeOK
<1>1. ShellInv => TypeOK
  BY DEF ShellInv
<1>. QED BY <1>1, ShellInvariant, PTL

\* For any number of deployments the active worker has its whole build cached,
\* unless one of them fell into its installation or a deletion into its cache.
THEOREM ActiveIsReady == Spec => []OfflineReady
<1>1. ShellInv => OfflineReady
  BY DEF ShellInv, ReadyInv, Ready, OfflineReady
<1>. QED BY <1>1, ShellInvariant, PTL

\* For any number of pages and deployments, whatever is deployed, deleted or
\* put while a request is on its way, a page that cannot get its chunk asked a
\* worker of another build, or one whose cache was raced.
THEOREM ChunksLostOnlyIfGone == Spec => []LostOnlyIfGone
<1>1. ShellInv => LostOnlyIfGone
  BY DEF ShellInv, PageInv, PageOK, LostOnlyIfGone
<1>. QED BY <1>1, ShellInvariant, PTL
==================================================================================
