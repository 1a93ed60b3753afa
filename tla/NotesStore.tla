------------------------------ MODULE NotesStore ------------------------------
(***************************************************************************)
(* The notes list of every tab and the database behind it: the Zustand     *)
(* store (packages/state), the page-side Repo, the worker's handlers and   *)
(* the SQL repository with its keyset paging, and the "tx-applied" channel *)
(* that makes every tab reload after a write of any tab.                   *)
(*                                                                         *)
(* A page of a list is strictly below the cursor in the order (updated_day *)
(* DESC, id DESC), so the list a load collects is strictly descending and  *)
(* is modelled by the set of its rows.  Titles and bodies are the number   *)
(* of the command that wrote them.  The transport is StorageService: the   *)
(* worker runs requests in any order, a write may run again, and one that  *)
(* was rejected may still run.                                             *)
(***************************************************************************)
EXTENDS Naturals, FiniteSets

CONSTANTS
  Tabs,
  Notes,         \* row ids, in the order SQLite compares them
  Stored,        \* the notes in the table when the first tab opens
  PageSize,      \* PAGE_SIZE
  MaxPages,      \* MAX_PAGES
  HasBroadcast,  \* hasBroadcastChannel()
  LastDay,       \* bound: the calendar stops here
  MaxWrites,     \* bound: commands of all tabs
  MaxReplays,    \* bound: writes the transport runs again
  MaxErrors,     \* bound: requests the transport rejects
  MaxVisits,     \* bound: times the notes view is mounted
  MaxToggles     \* bound: uses of the archived-notes switch

ASSUME NotesAssumption == Notes \subseteq Nat /\ Stored \subseteq Notes
ASSUME SizesAssumption ==
  /\ PageSize \in Nat \ {0} /\ MaxPages \in Nat \ {0}
  /\ HasBroadcast \in BOOLEAN
  /\ LastDay \in Nat \ {0} /\ MaxWrites \in Nat /\ MaxReplays \in Nat
  /\ MaxErrors \in Nat /\ MaxVisits \in Nat /\ MaxToggles \in Nat

VARIABLES
  rows,          \* the table: rows with distinct ids
  used,          \* the ids generateRowId has handed out
  today,         \* todayDayBucket()
  writes,        \* commands the transport may still run
  busy,          \* the command a tab's editor waits for (runGuarded), or 0
  mounted,       \* the notes view is on screen: a store exists
  generation,    \* Internal.generation
  showArchived,
  status,        \* NotesState.status
  notes,         \* NotesState.notes
  loads,         \* running calls of reload
  queue,         \* "tx-applied" messages waiting for the tab
  issued, replays, errors, visits, toggles

dbVars == <<rows, used, today>>
commandVars == <<writes, busy>>
storeVars == <<mounted, generation, showArchived, status, notes, loads, queue>>
bounds == <<issued, replays, errors, visits, toggles>>
vars == <<dbVars, commandVars, storeVars, bounds>>

Row == [id: Notes, day: Nat, archived: BOOLEAN, text: Nat]
Kinds == {"upsertNote", "archiveNote", "deleteNote"}
Write == [no: Nat, kind: Kinds, id: Notes, day: Nat, ran: BOOLEAN]

-----------------------------------------------------------------------------
(* The worker: NoteRepositorySql and the handlers around it.               *)

\* ORDER BY updated_day DESC, id DESC: r comes before q.
Before(r, q) == r.day > q.day \/ (r.day = q.day /\ r.id > q.id)

\* The rows a list may return.
View(archived) == {r \in rows : archived \/ ~r.archived}

NoCursor == [day |-> 0, id |-> 0]
Cursor == [day: Nat, id: Nat]
\* cursorWhere: the rows below the cursor.
After(cursor, archived) ==
  {r \in View(archived) : cursor = NoCursor \/ Before(cursor, r)}

\* list: the first PageSize rows of S, and whether the row in excess that the
\* query asks for exists.
IsPage(P, S) ==
  /\ \A r \in P, q \in S \ P : Before(r, q)
  /\ IF Cardinality(S) > PageSize THEN Cardinality(P) = PageSize ELSE P = S
IsLast(l, P) == l \in P /\ \A r \in P \ {l} : Before(r, l)

\* The table after a write has run.
Upserted(w) ==
  {r \in rows : r.id # w.id}
    \cup {[id |-> w.id, day |-> w.day, archived |-> FALSE, text |-> w.no]}
Archived(w) ==
  {IF r.id = w.id THEN [r EXCEPT !.archived = TRUE] ELSE r : r \in rows}
\* Mutant: a deleted row is kept without its id.
DeletedTombstone(w) ==
  {IF r.id = w.id THEN [r EXCEPT !.id = 0] ELSE r : r \in rows}
Deleted(w) == {r \in rows : r.id # w.id}
Written(w) ==
  CASE w.kind = "upsertNote" -> Upserted(w)
    [] w.kind = "archiveNote" -> Archived(w)
    [] w.kind = "deleteNote" -> Deleted(w)

\* broadcastTx: every subscribed page hears of the write, its author's too.
BroadcastTx ==
  [t \in Tabs |-> IF HasBroadcast /\ mounted[t] THEN queue[t] + 1 ELSE queue[t]]

\* A write runs, for the first time or replayed after a leader change; one
\* that nobody waits for any more is forgotten.
RunWrite(w) ==
  /\ w \in writes
  /\ \/ ~w.ran /\ UNCHANGED replays
     \/ w.ran /\ replays < MaxReplays /\ replays' = replays + 1
  /\ rows' = Written(w)
  /\ queue' = BroadcastTx
  /\ writes' = IF \E t \in Tabs : busy[t] = w.no
               THEN (writes \ {w}) \cup {[w EXCEPT !.ran = TRUE]}
               ELSE writes \ {w}
  /\ UNCHANGED <<used, today, busy, mounted, generation, showArchived, status,
                 notes, loads, issued, errors, visits, toggles>>

\* loadAllNotes takes a page P of load l: with a cursor in the answer it asks
\* for the next one, up to MaxPages of them.
Paged(l, P, more, last) ==
  [gen |-> l.gen, archived |-> l.archived,
   stage |-> IF more /\ l.pages + 1 < MaxPages THEN "asked" ELSE "answered",
   cursor |-> [day |-> last.day, id |-> last.id],
   got |-> l.got \cup P, pages |-> l.pages + 1, more |-> more]

\* The listNotes request of a running load is answered; when, before the next
\* one, the tab takes the answer is of no consequence.
List(t) ==
  \E l \in loads[t] :
    LET S == After(l.cursor, l.archived)
        more == Cardinality(S) > PageSize
    IN  l.stage = "asked" /\ \E P \in SUBSET S, last \in S \cup {l.cursor} :
          /\ IsPage(P, S)
          /\ IF more THEN IsLast(last, P) ELSE last = l.cursor
          /\ loads' = [loads EXCEPT ![t] = (@ \ {l}) \cup {Paged(l, P, more, last)}]
          /\ UNCHANGED <<dbVars, commandVars, mounted, generation, showArchived,
                         status, notes, queue, bounds>>

-----------------------------------------------------------------------------
(* The commands of a tab's editor.                                         *)

\* runGuarded: one command at a time.  The editor keeps the note it was
\* opened on, which may be gone by now; a new note gets a fresh id.
Command(t, kind, n) ==
  /\ mounted[t] /\ busy[t] = 0 /\ issued < MaxWrites
  /\ n \in used \/ kind = "upsertNote"
  /\ issued' = issued + 1
  /\ used' = used \cup {n}
  /\ busy' = [busy EXCEPT ![t] = issued + 1]
  /\ writes' = writes \cup
       {[no |-> issued + 1, kind |-> kind, id |-> n, day |-> today, ran |-> FALSE]}
  /\ UNCHANGED <<rows, today, storeVars, replays, errors, visits, toggles>>

\* The answer arrives: the editor closes, the list is left to the broadcast.
CommandDone(t) ==
  \E w \in writes :
    /\ busy[t] = w.no /\ w.ran
    /\ busy' = [busy EXCEPT ![t] = 0]
    /\ writes' = writes \ {w}
    /\ UNCHANGED <<dbVars, storeVars, bounds>>

\* The request is rejected; it may have run, and it may still run.
CommandFailed(t) ==
  \E w \in writes :
    /\ busy[t] = w.no /\ errors < MaxErrors
    /\ errors' = errors + 1
    /\ busy' = [busy EXCEPT ![t] = 0]
    /\ writes' \in {writes, writes \ {w}}
    /\ UNCHANGED <<dbVars, storeVars, issued, replays, visits, toggles>>

-----------------------------------------------------------------------------
(* The store.                                                              *)

\* reload, up to its first await, in a store whose switch is at show.
NewLoad(gen, show) ==
  [gen |-> gen, archived |-> show, stage |-> "asked", cursor |-> NoCursor,
   got |-> {}, pages |-> 0, more |-> FALSE]
Reload(t, show) ==
  /\ generation' = [generation EXCEPT ![t] = @ + 1]
  /\ loads' = [loads EXCEPT ![t] = @ \cup {NewLoad(generation[t] + 1, show)}]

\* Mutant: whichever load ends publishes.
IsLatestAlways(t, l) == TRUE
\* Mutant: the number is taken before the counter is raised.
IsLatestBeforeBump(t, l) == l.gen = generation[t] + 1
IsLatest(t, l) == l.gen = generation[t]

\* set({ state }) of load l, which ends.
Publish(t, l, st, list) ==
  /\ status' = IF IsLatest(t, l) THEN [status EXCEPT ![t] = st] ELSE status
  /\ notes' = IF IsLatest(t, l) THEN [notes EXCEPT ![t] = list] ELSE notes
  /\ loads' = [loads EXCEPT ![t] = @ \ {l}]
  /\ UNCHANGED <<dbVars, commandVars, mounted, generation, showArchived, queue>>

\* The last page arrives: loadAllNotes returns what it has collected.
LoadDone(t) ==
  \E l \in loads[t] :
    /\ l.stage = "answered" /\ ~l.more
    /\ Publish(t, l, "ready", l.got)
    /\ UNCHANGED bounds

\* There is more after MaxPages pages: the load throws rather than truncate.
LoadRefused(t) ==
  \E l \in loads[t] :
    /\ l.stage = "answered" /\ l.more
    /\ Publish(t, l, "error", {})
    /\ UNCHANGED bounds

\* A request of the load is rejected by the transport.
LoadFailed(t) ==
  \E l \in loads[t] :
    /\ errors < MaxErrors
    /\ errors' = errors + 1
    /\ Publish(t, l, "error", {})
    /\ UNCHANGED <<issued, replays, visits, toggles>>

\* The "tx-applied" listener.
Notified(t) ==
  /\ mounted[t] /\ queue[t] > 0
  /\ queue' = [queue EXCEPT ![t] = @ - 1]
  /\ Reload(t, showArchived[t])
  /\ UNCHANGED <<dbVars, commandVars, mounted, showArchived, status, notes, bounds>>

SetShowArchived(t) ==
  /\ mounted[t] /\ toggles < MaxToggles
  /\ toggles' = toggles + 1
  /\ showArchived' = [showArchived EXCEPT ![t] = ~@]
  /\ Reload(t, ~showArchived[t])
  /\ UNCHANGED <<dbVars, commandVars, mounted, status, notes, queue,
                 issued, replays, errors, visits>>

\* createNotesStore: subscribe, then the first reload.
Mount(t) ==
  /\ ~mounted[t] /\ visits < MaxVisits
  /\ visits' = visits + 1
  /\ mounted' = [mounted EXCEPT ![t] = TRUE]
  /\ generation' = [generation EXCEPT ![t] = 1]
  /\ showArchived' = [showArchived EXCEPT ![t] = FALSE]
  /\ status' = [status EXCEPT ![t] = "loading"]
  /\ notes' = [notes EXCEPT ![t] = {}]
  /\ loads' = [loads EXCEPT ![t] = {NewLoad(1, FALSE)}]
  /\ queue' = [queue EXCEPT ![t] = 0]
  /\ UNCHANGED <<dbVars, commandVars, issued, replays, errors, toggles>>

\* The view unmounts or the tab closes: unsubscribe; nobody sees the store
\* and its running loads any more, and a command under way may be lost.
Unmount(t) ==
  /\ mounted[t]
  /\ mounted' = [mounted EXCEPT ![t] = FALSE]
  /\ busy' = [busy EXCEPT ![t] = 0]
  /\ status' = [status EXCEPT ![t] = "loading"]
  /\ notes' = [notes EXCEPT ![t] = {}]
  /\ loads' = [loads EXCEPT ![t] = {}]
  /\ queue' = [queue EXCEPT ![t] = 0]
  /\ writes' \in {writes, {w \in writes : w.no # busy[t]}}
  /\ UNCHANGED <<dbVars, generation, showArchived, bounds>>

NewDay ==
  /\ today < LastDay
  /\ today' = today + 1
  /\ UNCHANGED <<rows, used, commandVars, storeVars, bounds>>

-----------------------------------------------------------------------------

\* The notes that are there were written today or before.
Init ==
  /\ today = 1
  /\ used = Stored
  /\ rows = {[id |-> n, day |-> 1, archived |-> FALSE, text |-> 0] : n \in Stored}
  /\ writes = {} /\ busy = [t \in Tabs |-> 0]
  /\ mounted = [t \in Tabs |-> FALSE]
  /\ generation = [t \in Tabs |-> 0]
  /\ showArchived = [t \in Tabs |-> FALSE]
  /\ status = [t \in Tabs |-> "loading"]
  /\ notes = [t \in Tabs |-> {}]
  /\ loads = [t \in Tabs |-> {}]
  /\ queue = [t \in Tabs |-> 0]
  /\ issued = 0 /\ replays = 0 /\ errors = 0 /\ visits = 0 /\ toggles = 0

StoreStep(t) == LoadDone(t) \/ LoadRefused(t) \/ Notified(t)
UserStep(t) ==
  \/ \E kind \in Kinds, n \in Notes : Command(t, kind, n)
  \/ SetShowArchived(t) \/ Mount(t) \/ Unmount(t)
Fault(t) == CommandFailed(t) \/ LoadFailed(t)

Next ==
  \/ \E t \in Tabs : List(t) \/ StoreStep(t) \/ CommandDone(t) \/ UserStep(t) \/ Fault(t)
  \/ \E w \in writes : RunWrite(w)
  \/ NewDay

Spec == Init /\ [][Next]_vars

\* The worker serves what it is sent and the tabs' event loops run.
Fairness ==
  /\ \A t \in Tabs : WF_vars(List(t)) /\ WF_vars(StoreStep(t)) /\ WF_vars(CommandDone(t))
  /\ WF_vars(\E w \in writes : RunWrite(w))

FairSpec == Spec /\ Fairness

-----------------------------------------------------------------------------
(* Properties.                                                             *)

Load ==
  [gen: Nat, archived: BOOLEAN, stage: {"asked", "answered"}, cursor: Cursor,
   got: SUBSET Row, pages: Nat, more: BOOLEAN]

\* The variables hold values of their types.
TypeOK ==
  /\ rows \subseteq Row /\ used \subseteq Notes /\ today \in Nat
  /\ writes \subseteq Write /\ busy \in [Tabs -> Nat]
  /\ mounted \in [Tabs -> BOOLEAN]
  /\ generation \in [Tabs -> Nat]
  /\ showArchived \in [Tabs -> BOOLEAN]
  /\ status \in [Tabs -> {"loading", "ready", "error"}]
  /\ notes \in [Tabs -> SUBSET Row]
  /\ loads \in [Tabs -> SUBSET Load]
  /\ queue \in [Tabs -> Nat]
  /\ issued \in Nat /\ replays \in Nat /\ errors \in Nat /\ visits \in Nat /\ toggles \in Nat

Reloading(t) == \E l \in loads[t] : l.gen = generation[t]

\* What a tab shows is what is stored, complete and without duplicates, once
\* no "tx-applied" waits for it and no reload of its latest generation runs:
\* pages read around a write, reloads that overtake each other, moved rows
\* and the switch leave nothing stale behind.
ShownIsStored ==
  \A t \in Tabs :
    (mounted[t] /\ status[t] = "ready" /\ queue[t] = 0 /\ ~Reloading(t)) =>
      notes[t] = View(showArchived[t])

\* Once commands, faults and visits are over every tab on screen comes to
\* show what is stored, or an error.
Converges ==
  <>[](\A t \in Tabs : mounted[t] =>
         status[t] = "error" \/ (status[t] = "ready" /\ notes[t] = View(showArchived[t])))
=============================================================================
