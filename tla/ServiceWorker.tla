--------------------------- MODULE ServiceWorker ---------------------------
(***************************************************************************)
(* The offline shell: apps/web/public/sw.js with its versioned caches, the *)
(* registration every page makes (service-worker-registration.tsx) and the *)
(* precache manifest of a build (scripts/build-precache-manifest.mjs).     *)
(*                                                                         *)
(* Builds are deployed in order and each replaces the one before.  A build *)
(* is its shell, index.html, whose URL never changes, and its chunks,      *)
(* whose hashed URLs exist only while it is deployed.  The browser keeps   *)
(* one registration with an installing, a waiting and an active worker.    *)
(***************************************************************************)
EXTENDS Naturals

CONSTANTS
  Pages,
  MaxBuild    \* bound on deployments

ASSUME BuildsAssumption == MaxBuild \in Nat \ {0}

Builds == 1 .. MaxBuild
None == 0
Urls == {"shell", "chunk"}

VARIABLES
  server,      \* the build that is deployed
  online,
  installing, waiting, active,   \* version of the worker in each slot
  evaluated,   \* what addAll of the installing worker has fetched so far
  linked,      \* the cache it opened has not been deleted since
  activation,  \* how far the active worker's activate handler is
  stale,       \* the keys it has found to delete
  caches,      \* existing caches, by version
  shellIn,     \* build of the shell in each cache
  chunksIn,    \* builds whose chunks are in each cache
  puts,        \* chunks on their way into a cache: <<version, build>>
  page,        \* what a tab shows and which worker controls it
  raced        \* history: versions whose cache met a deployment or an eviction

cacheVars == <<caches, shellIn, chunksIn, puts>>
workerVars == <<installing, waiting, active, evaluated, linked, activation, stale>>
vars == <<server, online, installing, waiting, active, evaluated, linked,
          activation, stale, caches, shellIn, chunksIn, puts, page, raced>>

\* What a tab shows: a document of a build, under the control of a worker.
\* into is the cache opened for the request it waits for, unless that has
\* been deleted since.
Shows(b, c, s) == [build |-> b, controller |-> c, state |-> s, into |-> None, excused |-> TRUE]
Blank == Shows(None, None, "blank")
Nothing == [u \in Urls |-> None]

Init ==
  /\ server = 1 /\ online = TRUE
  /\ installing = None /\ waiting = None /\ active = None
  /\ evaluated = Nothing /\ linked = FALSE /\ activation = "done" /\ stale = {}
  /\ caches = {} /\ shellIn = [v \in Builds |-> None] /\ chunksIn = [v \in Builds |-> {}]
  /\ puts = {} /\ page = [p \in Pages |-> Blank]
  /\ raced = {}

-----------------------------------------------------------------------------
(* The world.                                                              *)

\* A new build replaces the old one on the origin.
Deploy ==
  /\ server < MaxBuild /\ server' = server + 1
  /\ raced' = raced \cup ({installing} \ {None})
  /\ UNCHANGED <<online, page>> /\ UNCHANGED workerVars /\ UNCHANGED cacheVars

Network ==
  /\ online' = ~online
  /\ UNCHANGED <<server, page, raced>> /\ UNCHANGED workerVars /\ UNCHANGED cacheVars

-----------------------------------------------------------------------------
(* Install.                                                                *)

\* Mutant: the cache is looked up by name and not made.
OpenedNot(v) == caches
\* caches.open(CACHE_NAME) makes the cache when it does not exist.
Opened(v) == caches \cup ({v} \ {None})

\* A page registers sw.js: when it is not the newest worker already, the script
\* evaluates the manifest the origin serves at that moment, and its install
\* handler opens that version's cache.
Register(p) ==
  /\ page[p].state = "up" /\ online /\ installing = None
  /\ server # (IF waiting # None THEN waiting ELSE active)
  /\ installing' = server /\ evaluated' = Nothing /\ linked' = TRUE
  /\ caches' = Opened(server)
  /\ raced' = raced \ {server}
  /\ UNCHANGED <<server, online, waiting, active, activation, stale, shellIn, chunksIn, puts, page>>

\* What the origin answers for a URL of the manifest of build v.
Origin(u, v) == IF u = "shell" THEN server ELSE IF server = v THEN v ELSE None

\* One of addAll's requests is answered.
AddAllFetch(u) ==
  /\ installing # None /\ online /\ evaluated[u] = None
  /\ Origin(u, installing) # None
  /\ evaluated' = [evaluated EXCEPT ![u] = Origin(u, installing)]
  /\ UNCHANGED <<server, online, installing, waiting, active, linked, activation, stale, page, raced>>
  /\ UNCHANGED cacheVars

\* Mutant: requests made one by one, failures ignored.
AllThereAny == \E u \in Urls : evaluated[u] # None
\* addAll resolves when every request has succeeded.
AllThere == \A u \in Urls : evaluated[u] # None

\* It stores everything at once, in the cache as it was opened, and the
\* worker skips waiting.
InstallDone ==
  /\ installing # None /\ AllThere
  /\ IF linked
     THEN /\ shellIn' = [shellIn EXCEPT ![installing] = evaluated["shell"]]
          /\ chunksIn' = [chunksIn EXCEPT ![installing] = @ \cup ({evaluated["chunk"]} \ {None})]
     ELSE UNCHANGED <<shellIn, chunksIn>>
  /\ waiting' = installing /\ installing' = None /\ evaluated' = Nothing /\ linked' = FALSE
  /\ UNCHANGED <<server, online, active, activation, stale, caches, puts, page, raced>>

\* Any request that fails fails the installation.
InstallFails ==
  /\ installing # None
  /\ ~online \/ \E u \in Urls : evaluated[u] = None /\ Origin(u, installing) = None
  /\ installing' = None /\ evaluated' = Nothing /\ linked' = FALSE
  /\ UNCHANGED <<server, online, waiting, active, activation, stale, page, raced>>
  /\ UNCHANGED cacheVars

-----------------------------------------------------------------------------
(* Activate.                                                               *)

\* Mutant: without skipWaiting the worker waits until no page has the old one.
MayActivateUnused == activation = "done" /\ \A p \in Pages : page[p].controller = None
MayActivate == activation = "done"

\* skipWaiting: the waiting worker becomes active once the one before is not
\* itself activating, and takes over the pages that one controlled.
Activate ==
  /\ waiting # None /\ MayActivate
  /\ active' = waiting /\ waiting' = None /\ activation' = "keys"
  /\ page' = [p \in Pages |->
       IF page[p].controller = None THEN page[p] ELSE [page[p] EXCEPT !.controller = waiting]]
  /\ UNCHANGED <<server, online, installing, evaluated, linked, stale, raced>> /\ UNCHANGED cacheVars

\* Mutant: the filter forgets the worker's own cache.
StaleKeysAll(keys) == keys
StaleKeys(keys) == keys \ {active}

ActivateKeys ==
  /\ activation = "keys"
  /\ stale' = StaleKeys(caches) /\ activation' = "delete"
  /\ UNCHANGED <<server, online, installing, waiting, active, evaluated, linked, page, raced>>
  /\ UNCHANGED cacheVars

\* The caches found are deleted, that of a worker still installing included.
\* Who has one of them open keeps an object nobody else will ever find: what
\* is put there is lost.
ActivateDelete ==
  /\ activation = "delete" /\ activation' = "claim"
  /\ caches' = caches \ stale /\ stale' = {}
  /\ shellIn' = [v \in Builds |-> IF v \in stale THEN None ELSE shellIn[v]]
  /\ chunksIn' = [v \in Builds |-> IF v \in stale THEN {} ELSE chunksIn[v]]
  /\ puts' = {w \in puts : w[1] \notin stale}
  /\ page' = [p \in Pages |-> [page[p] EXCEPT !.into = IF @ \in stale THEN None ELSE @]]
  /\ linked' = (linked /\ installing \notin stale)
  /\ raced' = raced \cup (stale \cap {installing, waiting})
  /\ UNCHANGED <<server, online, installing, waiting, active, evaluated>>

Claim ==
  /\ activation = "claim" /\ activation' = "done"
  /\ page' = [p \in Pages |->
       IF page[p].build = None THEN page[p] ELSE [page[p] EXCEPT !.controller = active]]
  /\ UNCHANGED <<server, online, installing, waiting, active, evaluated, linked, stale, raced>>
  /\ UNCHANGED cacheVars

-----------------------------------------------------------------------------
(* Fetch.                                                                  *)

\* A worker is asked only when its activate handler has finished.
Answers(c) == c = None \/ activation = "done"

\* navigationStrategy: the network first, then the cached shell, then 503.  An
\* origin that answers 5xx is treated like one that cannot be reached.
ShellFor ==
  IF online THEN server
  ELSE IF active # None THEN shellIn[active] ELSE None

Navigate(p) ==
  /\ Answers(active)
  /\ page' = [page EXCEPT ![p] =
       IF ShellFor = None THEN Blank
       ELSE Shows(ShellFor, active, "loading")]
  /\ caches' = Opened(active)
  /\ UNCHANGED <<server, online, shellIn, chunksIn, puts, raced>> /\ UNCHANGED workerVars

\* A page asks for a chunk, at once or lazily, and nothing of it is under way.
Asks(p) == page[p].state \in {"loading", "up"} /\ Answers(page[p].controller)

\* Mutant: the network is asked first, the cache never.
HitNever(p) == FALSE
\* cacheFirst finds the page's chunk in the controlling version's cache.
Hit(p) ==
  page[p].controller # None /\ page[p].build \in chunksIn[page[p].controller]

ChunkHit(p) ==
  /\ Asks(p) /\ Hit(p)
  /\ page' = [page EXCEPT ![p].state = "up"]
  /\ caches' = Opened(page[p].controller)
  /\ UNCHANGED <<server, online, shellIn, chunksIn, puts, raced>> /\ UNCHANGED workerVars

\* It does not, and the request goes to the network.  Whether its loss would
\* be excused is settled here: the worker that missed is not of the page's
\* own build, or its cache was raced.
ChunkMiss(p) ==
  /\ Asks(p) /\ ~Hit(p)
  /\ page' = [page EXCEPT ![p].state = "asking", ![p].into = page[p].controller,
       ![p].excused = (page[p].controller = page[p].build => page[p].build \in raced)]
  /\ caches' = Opened(page[p].controller)
  /\ UNCHANGED <<server, online, shellIn, chunksIn, puts, raced>> /\ UNCHANGED workerVars

\* The origin has the chunk.
Reachable(p) == online /\ server = page[p].build

\* The network answers.  The page goes on at once: the put into the cache, for
\* the next time, is not awaited.
ChunkFetched(p) ==
  /\ page[p].state = "asking" /\ Reachable(p)
  /\ puts' = puts \cup {<<v, page[p].build>> : v \in {page[p].into} \ {None}}
  /\ page' = [page EXCEPT ![p] = Shows(page[p].build, page[p].controller, "up")]
  /\ UNCHANGED <<server, online, caches, shellIn, chunksIn, raced>> /\ UNCHANGED workerVars

\* Neither the cache nor the origin has it: the page is broken.
ChunkFails(p) ==
  /\ page[p].state = "asking" /\ ~Reachable(p)
  /\ page' = [page EXCEPT ![p].state = "broken", ![p].into = None]
  /\ UNCHANGED <<server, online, raced>> /\ UNCHANGED workerVars /\ UNCHANGED cacheVars

\* A put ends: the chunk is in the cache, or the put failed (a full quota),
\* which is ignored.
ChunkPut(w) ==
  /\ w \in puts /\ puts' = puts \ {w}
  /\ \/ chunksIn' = [chunksIn EXCEPT ![w[1]] = @ \cup {w[2]}]
     \/ UNCHANGED chunksIn
  /\ UNCHANGED <<server, online, caches, shellIn, page, raced>> /\ UNCHANGED workerVars

-----------------------------------------------------------------------------
Next ==
  \/ Deploy \/ Network
  \/ \E u \in Urls : AddAllFetch(u)
  \/ InstallDone \/ InstallFails
  \/ Activate \/ ActivateKeys \/ ActivateDelete \/ Claim
  \/ \E p \in Pages :
       \/ Register(p) \/ Navigate(p)
       \/ ChunkHit(p) \/ ChunkMiss(p) \/ ChunkFetched(p) \/ ChunkFails(p)
  \/ \E w \in Builds \X Builds : ChunkPut(w)

Spec == Init /\ [][Next]_vars

\* The worker's handlers run to their end: a request is answered or fails.
FairSpec ==
  /\ Spec
  /\ WF_vars(InstallDone \/ InstallFails \/ \E u \in Urls : AddAllFetch(u))
  /\ WF_vars(Activate \/ ActivateKeys \/ ActivateDelete \/ Claim)

-----------------------------------------------------------------------------
(* Properties.                                                             *)

\* Every variable holds a value of its type, no version is ahead of the build
\* that is deployed, and only a cache that exists holds or is sent anything.
TypeOK ==
  /\ server \in Builds /\ online \in BOOLEAN
  /\ {installing, waiting, active} \subseteq 0 .. server
  /\ evaluated \in [Urls -> 0 .. server] /\ linked \in BOOLEAN
  /\ activation \in {"keys", "delete", "claim", "done"}
  /\ stale \subseteq caches /\ caches \subseteq 1 .. server
  /\ shellIn \in [Builds -> 0 .. server] /\ chunksIn \in [Builds -> SUBSET (1 .. server)]
  /\ puts \subseteq caches \X (1 .. server)
  /\ page \in [Pages -> [build: 0 .. server, controller: 0 .. server,
                         state: {"blank", "loading", "asking", "up", "broken"},
                         into: caches \cup {None}, excused: BOOLEAN]]
  /\ raced \subseteq 1 .. server
  /\ \A v \in Builds \ caches : shellIn[v] = None /\ chunksIn[v] = {}

\* "The new worker has the full new shell ready before it activates": unless a
\* deployment fell into its installation or another worker's activation
\* deleted its cache, the active worker can boot its build without network.
OfflineReady ==
  active # None /\ active \notin raced =>
    /\ active \in caches /\ shellIn[active] = active /\ active \in chunksIn[active]

\* A page loses a chunk only if, when it asked, the worker controlling it was
\* of another version than its document, or one whose cache was raced: no
\* deployment, deletion or put in between costs a page its own worker's chunks.
LostOnlyIfGone == \A p \in Pages : page[p].state = "broken" => page[p].excused

\* An update never stops half-way: what is installing is installed or given
\* up, and what waits becomes active.
UpdateEnds ==
  /\ installing # None ~> installing = None
  /\ waiting # None ~> waiting = None
=============================================================================
