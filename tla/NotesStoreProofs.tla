--------------------------- MODULE NotesStoreProofs ---------------------------
(***************************************************************************)
(* The notes list, for any tabs, notes, page size and bounds: every state  *)
(* is well typed, and a list that nothing is about to refresh is the table.*)
(***************************************************************************)
EXTENDS NotesStore, TLAPS

-----------------------------------------------------------------------------
(* Type correctness.                                                       *)

LEMMA WrittenType ==
  ASSUME rows \subseteq Row, NEW w \in Write
  PROVE  Written(w) \subseteq Row
<1>1. Upserted(w) \subseteq Row
  <2>1. w.id \in Notes /\ w.day \in Nat /\ w.no \in Nat
    BY DEF Write
  <2>2. [id |-> w.id, day |-> w.day, archived |-> FALSE, text |-> w.no] \in Row
    BY <2>1 DEF Row
  <2>. QED BY <2>2 DEF Upserted
<1>2. Archived(w) \subseteq Row
  <2>1. \A r \in Row : [r EXCEPT !.archived = TRUE] \in Row
    BY DEF Row
  <2>. QED BY <2>1 DEF Archived
<1>3. Deleted(w) \subseteq Row
  BY DEF Deleted
<1>. QED BY <1>1, <1>2, <1>3 DEF Written, Write, Kinds

LEMMA NewLoadType ==
  ASSUME NEW g \in Nat, NEW b \in BOOLEAN
  PROVE  NewLoad(g, b) \in Load
BY DEF NewLoad, Load, Cursor, NoCursor

LEMMA PagedType ==
  ASSUME TypeOK, NEW t \in Tabs, NEW l \in loads[t], NEW more \in BOOLEAN,
         NEW P \in SUBSET After(l.cursor, l.archived),
         NEW last \in After(l.cursor, l.archived) \cup {l.cursor}
  PROVE  Paged(l, P, more, last) \in Load
<1>1. l \in Load
  BY DEF TypeOK
<1>2. After(l.cursor, l.archived) \subseteq Row
  BY DEF TypeOK, After, View
<1>3. last.day \in Nat /\ last.id \in Nat
  BY <1>1, <1>2, NotesAssumption DEF Load, Cursor, Row
<1>4. [day |-> last.day, id |-> last.id] \in Cursor
  BY <1>3 DEF Cursor
<1>5. l.got \cup P \in SUBSET Row
  BY <1>1, <1>2 DEF Load
<1>. QED BY <1>1, <1>4, <1>5 DEF Paged, Load

\* What List does to the loads, once the page is known.
LEMMA ListIs ==
  ASSUME NEW t \in Tabs, List(t)
  PROVE  \E l \in loads[t], more \in BOOLEAN :
           \E P \in SUBSET After(l.cursor, l.archived),
              last \in After(l.cursor, l.archived) \cup {l.cursor} :
             /\ l.stage = "asked"
             /\ IsPage(P, After(l.cursor, l.archived))
             /\ more = (Cardinality(After(l.cursor, l.archived)) > PageSize)
             /\ more => IsLast(last, P)
             /\ loads' = [loads EXCEPT ![t] = (@ \ {l}) \cup {Paged(l, P, more, last)}]
<1>1. PICK l \in loads[t] :
        /\ l.stage = "asked"
        /\ \E P \in SUBSET After(l.cursor, l.archived),
              last \in After(l.cursor, l.archived) \cup {l.cursor} :
             /\ IsPage(P, After(l.cursor, l.archived))
             /\ IF Cardinality(After(l.cursor, l.archived)) > PageSize
                THEN IsLast(last, P) ELSE last = l.cursor
             /\ loads' = [loads EXCEPT ![t] = (@ \ {l}) \cup
                  {Paged(l, P, Cardinality(After(l.cursor, l.archived)) > PageSize, last)}]
  BY Zenon DEF List
<1>. DEFINE more == Cardinality(After(l.cursor, l.archived)) > PageSize
<1>2. more \in BOOLEAN
  OBVIOUS
<1>. HIDE DEF more
<1>3. PICK P \in SUBSET After(l.cursor, l.archived),
           last \in After(l.cursor, l.archived) \cup {l.cursor} :
         /\ IsPage(P, After(l.cursor, l.archived))
         /\ more => IsLast(last, P)
         /\ loads' = [loads EXCEPT ![t] = (@ \ {l}) \cup {Paged(l, P, more, last)}]
  BY <1>1, Zenon DEF more
<1>4. more = (Cardinality(After(l.cursor, l.archived)) > PageSize)
  BY DEF more
<1>. QED BY <1>1, <1>2, <1>3, <1>4, Zenon

LEMMA TypeInit == Init => TypeOK
<1>. SUFFICES ASSUME Init PROVE TypeOK
  OBVIOUS
<1>1. rows \subseteq Row
  <2>1. \A n \in Stored : [id |-> n, day |-> 1, archived |-> FALSE, text |-> 0] \in Row
    BY NotesAssumption DEF Row
  <2>. QED BY <2>1 DEF Init
<1>. QED BY <1>1, NotesAssumption DEF Init, TypeOK

LEMMA TypeNext == TypeOK /\ [Next]_vars => TypeOK'
<1>. SUFFICES ASSUME TypeOK, [Next]_vars PROVE TypeOK'
  OBVIOUS
<1>. USE DEF dbVars, commandVars, storeVars, bounds
<1>1. ASSUME NEW w \in writes, RunWrite(w) PROVE TypeOK'
  <2>1. w \in Write
    BY DEF TypeOK
  <2>2. Written(w) \subseteq Row
    BY <2>1, WrittenType DEF TypeOK
  <2>3. [w EXCEPT !.ran = TRUE] \in Write
    BY <2>1 DEF Write
  <2>4. writes' \subseteq Write
    BY <1>1, <2>3 DEF RunWrite, TypeOK
  <2>5. queue' \in [Tabs -> Nat]
    BY <1>1 DEF RunWrite, BroadcastTx, TypeOK
  <2>. QED BY <1>1, <2>2, <2>4, <2>5 DEF RunWrite, TypeOK
<1>2. ASSUME NEW t \in Tabs, List(t) PROVE TypeOK'
  <2>1. PICK l \in loads[t], more \in BOOLEAN :
           \E P \in SUBSET After(l.cursor, l.archived),
              last \in After(l.cursor, l.archived) \cup {l.cursor} :
             loads' = [loads EXCEPT ![t] = (@ \ {l}) \cup {Paged(l, P, more, last)}]
    BY <1>2, ListIs
  <2>2. loads' \in [Tabs -> SUBSET Load]
    BY <2>1, PagedType DEF TypeOK
  <2>. QED BY <1>2, <2>2 DEF List, TypeOK
<1>3. ASSUME NEW t \in Tabs, NEW kind \in Kinds, NEW n \in Notes, Command(t, kind, n)
      PROVE  TypeOK'
  <2>1. [no |-> issued + 1, kind |-> kind, id |-> n, day |-> today, ran |-> FALSE] \in Write
    BY DEF TypeOK, Write
  <2>2. writes' \subseteq Write
    BY <1>3, <2>1 DEF Command, TypeOK
  <2>3. busy' \in [Tabs -> Nat] /\ issued' \in Nat /\ used' \subseteq Notes
    BY <1>3 DEF Command, TypeOK
  <2>. QED BY <1>3, <2>2, <2>3 DEF Command, TypeOK
<1>4. ASSUME NEW t \in Tabs, CommandDone(t) PROVE TypeOK'
  BY <1>4 DEF CommandDone, TypeOK
<1>5. ASSUME NEW t \in Tabs, CommandFailed(t) PROVE TypeOK'
  BY <1>5 DEF CommandFailed, TypeOK
<1>6. ASSUME NEW t \in Tabs, StoreStep(t) \/ LoadFailed(t) PROVE TypeOK'
  <2>1. ASSUME NEW l \in loads[t], NEW st \in {"ready", "error"}, NEW list \in SUBSET Row,
               Publish(t, l, st, list), UNCHANGED <<issued, replays, visits, toggles>>,
               errors' \in Nat
        PROVE  TypeOK'
    BY <2>1 DEF Publish, TypeOK
  <2>2. \A l \in loads[t] : l.got \in SUBSET Row
    BY DEF TypeOK, Load
  <2>3. CASE LoadDone(t)
    BY <2>1, <2>2, <2>3 DEF LoadDone, TypeOK
  <2>4. CASE LoadRefused(t)
    BY <2>1, <2>4 DEF LoadRefused, TypeOK
  <2>5. CASE LoadFailed(t)
    BY <2>1, <2>5 DEF LoadFailed, TypeOK
  <2>6. CASE Notified(t)
    <3>1. NewLoad(generation[t] + 1, showArchived[t]) \in Load
      BY NewLoadType DEF TypeOK
    <3>. QED BY <2>6, <3>1 DEF Notified, Reload, TypeOK
  <2>. QED BY <1>6, <2>3, <2>4, <2>5, <2>6 DEF StoreStep
<1>7. ASSUME NEW t \in Tabs, SetShowArchived(t) PROVE TypeOK'
  <2>1. (~showArchived[t]) \in BOOLEAN /\ generation[t] + 1 \in Nat
    BY DEF TypeOK
  <2>2. NewLoad(generation[t] + 1, ~showArchived[t]) \in Load
    BY <2>1, NewLoadType, Zenon
  <2>3. loads' \in [Tabs -> SUBSET Load] /\ generation' \in [Tabs -> Nat]
    BY <1>7, <2>2 DEF SetShowArchived, Reload, TypeOK
  <2>4. showArchived' \in [Tabs -> BOOLEAN]
    BY <1>7, Zenon DEF SetShowArchived, TypeOK
  <2>. QED BY <1>7, <2>3, <2>4 DEF SetShowArchived, TypeOK
<1>8. ASSUME NEW t \in Tabs, Mount(t) PROVE TypeOK'
  <2>1. NewLoad(1, FALSE) \in Load
    BY NewLoadType
  <2>2. mounted' \in [Tabs -> BOOLEAN] /\ showArchived' \in [Tabs -> BOOLEAN]
    BY <1>8 DEF Mount, TypeOK
  <2>3. status' \in [Tabs -> {"loading", "ready", "error"}] /\ notes' \in [Tabs -> SUBSET Row]
    BY <1>8 DEF Mount, TypeOK
  <2>4. loads' \in [Tabs -> SUBSET Load]
    BY <1>8, <2>1 DEF Mount, TypeOK
  <2>5. generation' \in [Tabs -> Nat] /\ queue' \in [Tabs -> Nat]
    BY <1>8 DEF Mount, TypeOK
  <2>6. /\ UNCHANGED <<rows, used, today, writes, busy, issued, replays, errors, toggles>>
        /\ visits' \in Nat
    BY <1>8 DEF Mount, TypeOK
  <2>. QED BY <2>2, <2>3, <2>4, <2>5, <2>6 DEF TypeOK
<1>9. ASSUME NEW t \in Tabs, Unmount(t) PROVE TypeOK'
  BY <1>9 DEF Unmount, TypeOK
<1>10. CASE NewDay
  BY <1>10 DEF NewDay, TypeOK
<1>11. CASE UNCHANGED vars
  BY <1>11 DEF vars, TypeOK
<1>. QED BY <1>1, <1>2, <1>3, <1>4, <1>5, <1>6, <1>7, <1>8, <1>9, <1>10, <1>11
         DEF Next, UserStep, Fault

\* Every reachable state is well typed: a load's pages are rows of the table,
\* whatever is written while they are fetched.
THEOREM TypeCorrect == Spec => []TypeOK
BY TypeInit, TypeNext, PTL DEF Spec

-----------------------------------------------------------------------------
(* What a tab shows is what is stored.  The argument: with no "tx-applied" *)
(* left to serve, nothing was written since the latest load began, so what *)
(* it has collected and what lies below its cursor make up the view.       *)

\* A cursor taken from a row is never mistaken for the absence of one.
DaysPositive ==
  /\ today > 0
  /\ \A r \in rows : r.day > 0
  /\ \A w \in writes : w.day > 0

\* Loads are numbered by the generation they were started in.
Numbered(t) ==
  /\ \A l \in loads[t] : l.gen <= generation[t]
  /\ \A l, m \in loads[t] : l.gen = m.gen => l = m

\* Load l misses no row and has none that is gone or changed.
Complete(l) ==
  /\ l.got \subseteq View(l.archived)
  /\ View(l.archived) \subseteq
       l.got \cup (IF l.stage = "asked" \/ l.more THEN After(l.cursor, l.archived) ELSE {})

Current(t) ==
  (mounted[t] /\ queue[t] = 0) =>
    /\ \A l \in loads[t] : l.gen = generation[t] => l.archived = showArchived[t] /\ Complete(l)
    /\ (status[t] = "ready" /\ ~Reloading(t)) => notes[t] = View(showArchived[t])

StoreInv == TypeOK /\ DaysPositive /\ \A t \in Tabs : Numbered(t) /\ Current(t)

LEMMA NewLoadComplete ==
  ASSUME NEW g, NEW b
  PROVE  Complete(NewLoad(g, b)) /\ NewLoad(g, b).gen = g /\ NewLoad(g, b).archived = b
BY DEF Complete, NewLoad, After, View

\* A page continues a complete load where the page before it ended.
LEMMA PagedComplete ==
  ASSUME StoreInv, NEW t \in Tabs, NEW l \in loads[t], NEW more \in BOOLEAN,
         NEW P \in SUBSET After(l.cursor, l.archived),
         NEW last \in After(l.cursor, l.archived) \cup {l.cursor},
         l.stage = "asked", IsPage(P, After(l.cursor, l.archived)),
         more = (Cardinality(After(l.cursor, l.archived)) > PageSize),
         more => IsLast(last, P), Complete(l)
  PROVE  Complete(Paged(l, P, more, last))
<1>. DEFINE S == After(l.cursor, l.archived)
            p == Paged(l, P, more, last)
<1>1. /\ p.archived = l.archived /\ p.got = l.got \cup P /\ p.more = more
      /\ p.cursor = [day |-> last.day, id |-> last.id]
  BY DEF Paged
<1>2. S \subseteq View(l.archived)
  BY DEF After
<1>3. p.got \subseteq View(p.archived)
  BY <1>1, <1>2 DEF Complete
<1>4. View(l.archived) \subseteq l.got \cup S
  BY DEF Complete
<1>5. CASE more
  <2>1. last \in P /\ \A q \in S \ P : Before(last, q)
    BY <1>5 DEF IsLast, IsPage
  <2>2. last \in rows
    BY <2>1 DEF After, View
  <2>3. last.day > 0 /\ last.day \in Nat
    BY <2>2 DEF StoreInv, DaysPositive, TypeOK, Row
  <2>4. p.cursor.day = last.day /\ p.cursor.id = last.id
    BY <1>1
  <2>5. \A q \in S \ P : Before(p.cursor, q)
    BY <2>1, <2>4 DEF Before
  <2>6. S \ P \subseteq After(p.cursor, l.archived)
    BY <1>2, <2>5 DEF After
  <2>. QED BY <1>1, <1>3, <1>4, <1>5, <2>6 DEF Complete
<1>6. CASE ~more
  <2>1. P = S
    BY <1>6 DEF IsPage
  <2>. QED BY <1>1, <1>3, <1>4, <2>1 DEF Complete
<1>. QED BY <1>5, <1>6

LEMMA StoreInit == Init => StoreInv
<1>. SUFFICES ASSUME Init PROVE StoreInv
  OBVIOUS
<1>1. TypeOK
  BY TypeInit
<1>2. DaysPositive
  BY DEF Init, DaysPositive
<1>3. \A t \in Tabs : Numbered(t) /\ Current(t)
  BY DEF Init, Numbered, Current
<1>. QED BY <1>1, <1>2, <1>3 DEF StoreInv

\* A tab's part of the invariant rests on the table and on its own variables.
LEMMA TabUnchanged ==
  ASSUME NEW t \in Tabs, Numbered(t), Current(t), rows' = rows,
         UNCHANGED <<mounted[t], generation[t], showArchived[t], status[t], notes[t],
                     loads[t], queue[t]>>
  PROVE  Numbered(t)' /\ Current(t)'
BY DEF Numbered, Current, Complete, Reloading, After, View

LEMMA DaysNext ==
  ASSUME TypeOK, DaysPositive, [Next]_vars
  PROVE  DaysPositive'
<1>. USE DEF dbVars, commandVars, storeVars, bounds
<1>1. ASSUME NEW w \in writes, RunWrite(w) PROVE DaysPositive'
  <2>1. \A r \in Written(w) : r.day > 0
    <3>1. w \in Write /\ w.day > 0
      BY DEF TypeOK, DaysPositive
    <3>2. \A r \in Upserted(w) : r.day > 0
      BY <3>1 DEF Upserted, DaysPositive
    <3>3. \A r \in Archived(w) : r.day > 0
      <4>1. \A r \in rows : [r EXCEPT !.archived = TRUE].day = r.day
        BY DEF TypeOK, Row
      <4>. QED BY <4>1 DEF Archived, DaysPositive
    <3>4. \A r \in Deleted(w) : r.day > 0
      BY DEF Deleted, DaysPositive
    <3>. QED BY <3>1, <3>2, <3>3, <3>4 DEF Written, Write, Kinds
  <2>2. \A v \in writes' : v.day > 0
    <3>1. [w EXCEPT !.ran = TRUE].day = w.day
      BY DEF TypeOK, Write
    <3>. QED BY <1>1, <3>1 DEF RunWrite, DaysPositive
  <2>. QED BY <1>1, <2>1, <2>2 DEF RunWrite, DaysPositive
<1>2. ASSUME NEW t \in Tabs, NEW kind \in Kinds, NEW n \in Notes, Command(t, kind, n)
      PROVE  DaysPositive'
  BY <1>2 DEF Command, DaysPositive
<1>3. CASE NewDay
  BY <1>3 DEF NewDay, DaysPositive, TypeOK
<1>4. ASSUME rows' = rows, today' = today, writes' \subseteq writes PROVE DaysPositive'
  BY <1>4 DEF DaysPositive
<1>5. ASSUME NEW t \in Tabs,
             \/ List(t) \/ StoreStep(t) \/ CommandDone(t) \/ Fault(t)
             \/ SetShowArchived(t) \/ Mount(t) \/ Unmount(t)
      PROVE  DaysPositive'
  BY <1>4, <1>5 DEF List, StoreStep, LoadDone, LoadRefused, Notified, Publish, CommandDone,
     Fault, CommandFailed, LoadFailed, SetShowArchived, Mount, Unmount
<1>6. CASE UNCHANGED vars
  BY <1>4, <1>6 DEF vars
<1>. QED BY <1>1, <1>2, <1>3, <1>5, <1>6 DEF Next, UserStep

\* A tab that starts a load: whatever ran before is not the latest any more.
LEMMA ReloadTab ==
  ASSUME TypeOK, NEW t \in Tabs, Numbered(t), rows' = rows,
         generation'[t] = generation[t] + 1,
         loads'[t] = loads[t] \cup {NewLoad(generation[t] + 1, showArchived'[t])}
  PROVE  Numbered(t)' /\ Current(t)'
<1>0. PICK g, b : g = generation[t] + 1 /\ b = showArchived'[t]
  OBVIOUS
<1>. DEFINE n == NewLoad(g, b)
<1>1. n.gen = g /\ n.archived = b /\ Complete(n)
  BY NewLoadComplete
<1>2. \A l \in loads[t] : l.gen \in Nat /\ l.gen < g
  BY <1>0 DEF TypeOK, Numbered, Load
<1>3. Complete(n)'
  BY <1>1 DEF Complete, After, View, NewLoad
<1>4. loads'[t] = loads[t] \cup {n} /\ generation'[t] = g /\ showArchived'[t] = b
  BY <1>0
<1>. HIDE DEF n
<1>5. Numbered(t)'
  <2>1. g \in Nat
    BY <1>0 DEF TypeOK
  <2>. QED BY <1>1, <1>2, <1>4, <2>1 DEF Numbered
<1>6. \A l \in loads'[t] : l.gen = g => l = n
  BY <1>1, <1>2, <1>4
<1>7. Reloading(t)'
  BY <1>1, <1>4 DEF Reloading
<1>8. \A l \in loads'[t] : l.gen = generation'[t] => l.archived = showArchived'[t] /\ Complete(l)'
  <2>. SUFFICES ASSUME NEW l \in loads'[t], l.gen = g PROVE l.archived = b /\ Complete(l)'
    BY <1>4
  <2>1. l = n
    BY <1>6
  <2>. QED BY <1>1, <1>3, <2>1
<1>. QED BY <1>5, <1>7, <1>8 DEF Current

\* A load that ends publishes if it is the latest one.
LEMMA PublishTab ==
  ASSUME StoreInv, NEW t \in Tabs, NEW l \in loads[t], NEW st, NEW list,
         Publish(t, l, st, list),
         st = "ready" => l.stage = "answered" /\ ~l.more /\ list = l.got
  PROVE  Numbered(t)' /\ Current(t)'
<1>. USE DEF dbVars
<1>1. /\ rows' = rows /\ loads'[t] = loads[t] \ {l}
      /\ generation' = generation /\ mounted' = mounted /\ queue' = queue
      /\ showArchived' = showArchived
  BY DEF Publish, StoreInv, TypeOK
<1>2. Numbered(t)'
  BY <1>1 DEF StoreInv, Numbered
<1>3. CASE l.gen = generation[t]
  <2>1. status'[t] = st /\ notes'[t] = list
    BY <1>3 DEF Publish, IsLatest, StoreInv, TypeOK
  <2>2. \A m \in loads'[t] : m.gen # generation[t]
    BY <1>1, <1>3 DEF StoreInv, Numbered
  <2>3. ASSUME mounted[t], queue[t] = 0, st = "ready" PROVE list = View(showArchived[t])
    <3>1. l.archived = showArchived[t] /\ Complete(l)
      BY <1>3, <2>3 DEF StoreInv, Current
    <3>2. l.stage # "asked" /\ ~l.more /\ list = l.got
      BY <2>3
    <3>. QED BY <3>1, <3>2 DEF Complete
  <2>. QED BY <1>1, <1>2, <2>1, <2>2, <2>3 DEF Current, View
<1>4. CASE l.gen # generation[t]
  <2>1. status' = status /\ notes' = notes
    BY <1>4 DEF Publish, IsLatest
  <2>2. Reloading(t)' <=> Reloading(t)
    BY <1>1, <1>4 DEF Reloading
  <2>. QED BY <1>1, <1>2, <2>1, <2>2 DEF StoreInv, Current, Complete, After, View
<1>. QED BY <1>2, <1>3, <1>4

LEMMA ListTab ==
  ASSUME StoreInv, NEW t \in Tabs, List(t)
  PROVE  Numbered(t)' /\ Current(t)'
<1>. USE DEF dbVars
<1>1. PICK l \in loads[t], more \in BOOLEAN :
        \E P \in SUBSET After(l.cursor, l.archived),
           last \in After(l.cursor, l.archived) \cup {l.cursor} :
          /\ l.stage = "asked"
          /\ IsPage(P, After(l.cursor, l.archived))
          /\ more = (Cardinality(After(l.cursor, l.archived)) > PageSize)
          /\ more => IsLast(last, P)
          /\ loads' = [loads EXCEPT ![t] = (@ \ {l}) \cup {Paged(l, P, more, last)}]
  BY ListIs, Zenon
<1>2. PICK P \in SUBSET After(l.cursor, l.archived),
           last \in After(l.cursor, l.archived) \cup {l.cursor} :
          /\ l.stage = "asked"
          /\ IsPage(P, After(l.cursor, l.archived))
          /\ more = (Cardinality(After(l.cursor, l.archived)) > PageSize)
          /\ more => IsLast(last, P)
          /\ loads' = [loads EXCEPT ![t] = (@ \ {l}) \cup {Paged(l, P, more, last)}]
  BY <1>1, Zenon
<1>. DEFINE p == Paged(l, P, more, last)
<1>3. /\ loads'[t] = (loads[t] \ {l}) \cup {p} /\ rows' = rows
      /\ UNCHANGED <<mounted, generation, showArchived, status, notes, queue>>
  BY <1>2 DEF List, StoreInv, TypeOK
<1>4. p.gen = l.gen /\ p.archived = l.archived
  BY DEF Paged
<1>5. Complete(l) => Complete(p)
  BY <1>2, PagedComplete
<1>. HIDE DEF p
<1>6. Numbered(t)'
  BY <1>3, <1>4 DEF StoreInv, Numbered
<1>7. Reloading(t)' <=> Reloading(t)
  BY <1>3, <1>4 DEF Reloading
<1>8. \A m \in loads'[t] : Complete(m) => Complete(m)'
  BY <1>3 DEF Complete, After, View
<1>9. Current(t)'
  BY <1>3, <1>4, <1>5, <1>7, <1>8 DEF StoreInv, Current, View
<1>. QED BY <1>6, <1>9

LEMMA TabNext ==
  ASSUME HasBroadcast, StoreInv, [Next]_vars, NEW u \in Tabs
  PROVE  Numbered(u)' /\ Current(u)'
<1>. USE DEF dbVars, commandVars, storeVars, bounds
<1>0. TypeOK /\ Numbered(u) /\ Current(u)
  BY DEF StoreInv
<1>1. ASSUME NEW w \in writes, RunWrite(w) PROVE Numbered(u)' /\ Current(u)'
  <2>1. UNCHANGED <<loads, generation, mounted>>
    BY <1>1 DEF RunWrite
  <2>2. mounted'[u] => queue'[u] # 0
    BY <1>1, <1>0 DEF RunWrite, BroadcastTx, TypeOK
  <2>. QED BY <1>0, <2>1, <2>2 DEF Numbered, Current
<1>2. ASSUME UNCHANGED <<rows, storeVars>> PROVE Numbered(u)' /\ Current(u)'
  BY <1>0, <1>2, TabUnchanged
<1>3. ASSUME NEW t \in Tabs, NEW kind \in Kinds, NEW n \in Notes, Command(t, kind, n)
      PROVE  Numbered(u)' /\ Current(u)'
  BY <1>2, <1>3 DEF Command
<1>4. ASSUME NEW t \in Tabs, CommandDone(t) \/ CommandFailed(t)
      PROVE  Numbered(u)' /\ Current(u)'
  BY <1>2, <1>4 DEF CommandDone, CommandFailed
<1>5. CASE NewDay \/ UNCHANGED vars
  BY <1>2, <1>5 DEF NewDay, vars
<1>6. ASSUME NEW t \in Tabs, t # u,
             \/ List(t) \/ StoreStep(t) \/ LoadFailed(t)
             \/ SetShowArchived(t) \/ Mount(t) \/ Unmount(t)
      PROVE  Numbered(u)' /\ Current(u)'
  <2>1. rows' = rows
    BY <1>6 DEF List, StoreStep, LoadDone, LoadRefused, Notified, Publish, LoadFailed,
       SetShowArchived, Mount, Unmount
  <2>2. UNCHANGED <<mounted[u], generation[u], showArchived[u], queue[u]>>
    BY <1>0, <1>6 DEF List, StoreStep, LoadDone, LoadRefused, Notified, Publish, LoadFailed,
       SetShowArchived, Mount, Unmount, Reload, TypeOK
  <2>3. UNCHANGED <<status[u], notes[u]>>
    BY <1>0, <1>6 DEF List, StoreStep, LoadDone, LoadRefused, Notified, Publish, LoadFailed,
       SetShowArchived, Mount, Unmount, TypeOK
  <2>4. loads'[u] = loads[u]
    BY <1>0, <1>6 DEF List, StoreStep, LoadDone, LoadRefused, Notified, Publish, LoadFailed,
       SetShowArchived, Mount, Unmount, Reload, TypeOK
  <2>. QED BY <1>0, <2>1, <2>2, <2>3, <2>4, TabUnchanged
<1>7. CASE List(u)
  BY <1>7, ListTab
<1>8. CASE StoreStep(u) \/ LoadFailed(u)
  <2>1. CASE Notified(u)
    <3>1. /\ rows' = rows /\ generation'[u] = generation[u] + 1
          /\ showArchived'[u] = showArchived[u]
          /\ loads'[u] = loads[u] \cup {NewLoad(generation[u] + 1, showArchived[u])}
      BY <1>0, <2>1 DEF Notified, Reload, TypeOK
    <3>. QED BY <1>0, <3>1, ReloadTab
  <2>2. CASE LoadDone(u)
    BY <2>2, PublishTab DEF LoadDone
  <2>3. CASE LoadRefused(u) \/ LoadFailed(u)
    BY <2>3, PublishTab DEF LoadRefused, LoadFailed
  <2>. QED BY <1>8, <2>1, <2>2, <2>3 DEF StoreStep
<1>9. CASE SetShowArchived(u)
  <2>1. /\ rows' = rows /\ generation'[u] = generation[u] + 1
        /\ loads'[u] = loads[u] \cup {NewLoad(generation[u] + 1, ~showArchived[u])}
    BY <1>0, <1>9 DEF SetShowArchived, Reload, TypeOK
  <2>2. showArchived'[u] = ~showArchived[u]
    BY <1>0, <1>9 DEF SetShowArchived, TypeOK
  <2>3. loads'[u] = loads[u] \cup {NewLoad(generation[u] + 1, showArchived'[u])}
    BY <2>1, <2>2, Zenon
  <2>. QED BY <1>0, <2>1, <2>3, ReloadTab
<1>10. CASE Mount(u)
  <2>1. PICK n : n = NewLoad(1, FALSE)
    OBVIOUS
  <2>2. /\ rows' = rows /\ generation'[u] = 1 /\ loads'[u] = {n}
        /\ showArchived'[u] = FALSE /\ status'[u] = "loading"
    BY <1>0, <1>10, <2>1 DEF Mount, TypeOK
  <2>3. n.gen = 1 /\ n.archived = FALSE /\ Complete(n)
    BY <2>1, NewLoadComplete
  <2>4. Complete(n)'
    BY <2>2, <2>3 DEF Complete, After, View
  <2>5. Numbered(u)'
    BY <2>2, <2>3 DEF Numbered
  <2>6. \A l \in loads'[u] : l.archived = showArchived'[u] /\ Complete(l)'
    <3>. SUFFICES ASSUME NEW l \in loads'[u] PROVE l.archived = showArchived'[u] /\ Complete(l)'
      OBVIOUS
    <3>1. l = n
      BY <2>2
    <3>. QED BY <2>2, <2>3, <2>4, <3>1
  <2>7. status'[u] # "ready"
    BY <2>2
  <2>. QED BY <2>5, <2>6, <2>7 DEF Current
<1>11. CASE Unmount(u)
  BY <1>0, <1>11 DEF Unmount, Numbered, Current, TypeOK
<1>. QED BY <1>1, <1>3, <1>4, <1>5, <1>6, <1>7, <1>8, <1>9, <1>10, <1>11
         DEF Next, UserStep, Fault

LEMMA ShownFromInv == StoreInv => ShownIsStored
BY DEF StoreInv, Current, ShownIsStored

\* Where the channel exists, a list on screen that no message and no reload is
\* about to replace is the table's: for any number of tabs, notes and pages,
\* with writes between two pages, late, rejected or run twice, with rows that
\* move, switches, remounts and failed loads.
THEOREM ShownListsAreStored ==
  ASSUME HasBroadcast
  PROVE  Spec => []ShownIsStored
<1>1. StoreInv /\ [Next]_vars => StoreInv'
  BY TypeNext, DaysNext, TabNext DEF StoreInv
<1>. QED BY <1>1, StoreInit, ShownFromInv, PTL DEF Spec

=============================================================================
