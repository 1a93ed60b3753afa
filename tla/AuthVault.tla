----------------------------- MODULE AuthVault -----------------------------
(***************************************************************************)
(* The vault of one origin as its tabs see it: AuthScreen in every tab     *)
(* (apps/web/src/app/auth-screen.tsx), the WebAuthn ceremonies it awaits   *)
(* (packages/auth/src/ceremony.ts) and the one credential file in the      *)
(* origin's OPFS root (packages/auth/src/credential-store.ts).             *)
(*                                                                         *)
(* A credential stands for the persisted blob of one passkey: its id, the  *)
(* PRF salt and the only wrap of a data key.  The file holds a credential, *)
(* nothing parsable, or does not exist.  Every await is a step boundary,   *)
(* and a tab can be closed, reloaded or crash at any of them.              *)
(***************************************************************************)
EXTENDS Naturals

CONSTANTS
  Tabs,
  Absent,       \* no file; also: no credential in hand
  Unreadable,   \* the file exists and deserialize returns null
  MaxEnrols,    \* bound on the passkeys ever created
  MaxFaults,    \* bound on transient failures of OPFS calls
  MaxOpens      \* bound on how often tabs are opened

Credential == 1 .. MaxEnrols

ASSUME BoundsAssumption ==
  MaxEnrols \in Nat /\ MaxFaults \in Nat /\ MaxOpens \in Nat
ASSUME FileAssumption ==
  Absent \notin Nat /\ Unreadable \notin Nat /\ Absent # Unreadable

VARIABLES
  webauthn,   \* the browser has PublicKeyCredential
  opfs,       \* the browser has navigator.storage.getDirectory
  file,       \* content of opfs-webauthn-vault.json
  made,       \* passkeys created so far
  state,      \* React state of a tab's AuthScreen
  at,         \* what the tab's running async function awaits
  held,       \* the credential that function has in hand
  heap,       \* CryptoVault objects alive in the tab's wasm heap
  faults, opens,
  used,       \* history: credentials whose vault was given to a NotesShell
  forgotten,  \* history: credentials removed by their own Forget
  blind,      \* history: credentials removed or replaced by an unaware tab
  unaware     \* history: tabs that cannot know what the file holds

envVars == <<webauthn, opfs, faults, opens>>
history == <<used, forgotten, blind, unaware>>
vars == <<webauthn, opfs, file, made, state, at, held, heap, faults, opens,
          used, forgotten, blind, unaware>>

-----------------------------------------------------------------------------
(* The values setState is called with.                                     *)

Plain(kind) == [kind |-> kind, credential |-> Absent, retry |-> "none"]
Locked(c) == [kind |-> "locked", credential |-> c, retry |-> "none"]
Unlocked(c) == [kind |-> "unlocked", credential |-> c, retry |-> "none"]
\* An error screen remembers what its retry button shows.
ErrorThenFresh == [kind |-> "error", credential |-> Absent, retry |-> "fresh"]
ErrorThenLocked(c) == [kind |-> "error", credential |-> c, retry |-> "locked"]

SetState(t, s) == state' = [state EXCEPT ![t] = s]
Await(t, what) == at' = [at EXCEPT ![t] = what]
InHand(t, c) == held' = [held EXCEPT ![t] = c]

\* An OPFS call rejects: for good in a browser without OPFS, now and then in
\* any other.
Rejects ==
  \/ ~opfs /\ UNCHANGED faults
  \/ opfs /\ faults < MaxFaults /\ faults' = faults + 1
Resolves == opfs /\ UNCHANGED faults

\* A tab has opened a writable stream on the file and not closed it yet.
Writing(t) == at[t] \in {"write", "close"}

-----------------------------------------------------------------------------
(* Opening a tab and the bootstrap effect.                                 *)

Init ==
  /\ webauthn \in BOOLEAN /\ opfs \in BOOLEAN
  /\ file = Absent /\ made = 0
  /\ state = [t \in Tabs |-> Plain("closed")]
  /\ at = [t \in Tabs |-> "nothing"]
  /\ held = [t \in Tabs |-> Absent]
  /\ heap = [t \in Tabs |-> 0]
  /\ faults = 0 /\ opens = 0
  /\ used = {} /\ forgotten = {} /\ blind = {} /\ unaware = {}

\* Mounting: without WebAuthn there is nothing to read for.
Open(t) ==
  /\ state[t].kind = "closed" /\ opens < MaxOpens
  /\ opens' = opens + 1
  /\ SetState(t, Plain(IF webauthn THEN "loading" ELSE "unsupported"))
  /\ Await(t, IF webauthn THEN "handle" ELSE "nothing")
  /\ UNCHANGED <<webauthn, opfs, file, made, held, heap, faults>> /\ UNCHANGED history

\* readVaultFile up to the file handle; a missing file is "no vault yet".
BootHandle(t) ==
  /\ at[t] = "handle" /\ Resolves
  /\ IF file = Absent
     THEN SetState(t, Plain("fresh")) /\ Await(t, "nothing") /\ unaware' = unaware \ {t}
     ELSE Await(t, "snapshot") /\ UNCHANGED <<state, unaware>>
  /\ UNCHANGED <<webauthn, opfs, file, made, held, heap, opens, used, forgotten, blind>>

\* getFile() takes a snapshot of an entry that still exists.
BootSnapshot(t) ==
  /\ at[t] = "snapshot" /\ Resolves /\ file # Absent
  /\ InHand(t, file) /\ Await(t, "text")
  /\ UNCHANGED <<webauthn, opfs, file, made, state, heap, opens>> /\ UNCHANGED history

\* text() reads the snapshot if nobody has written the file since.
BootText(t) ==
  /\ at[t] = "text" /\ Resolves /\ file = held[t]
  /\ SetState(t, IF file = Unreadable THEN Plain("fresh") ELSE Locked(file))
  /\ Await(t, "nothing") /\ InHand(t, Absent)
  /\ unaware' = unaware \ {t}
  /\ UNCHANGED <<webauthn, opfs, file, made, heap, opens, used, forgotten, blind>>

\* Mutant: an unavailable store read as "no vault yet".
ReadUnavailableSwallowed == Plain("fresh")
\* What the screen shows when the OPFS root cannot be had.
ReadUnavailable == Plain("unsupported")

BootUnavailable(t) ==
  /\ at[t] = "handle" /\ Rejects
  /\ SetState(t, ReadUnavailable) /\ Await(t, "nothing")
  /\ UNCHANGED <<webauthn, opfs, file, made, held, heap, opens>> /\ UNCHANGED history

\* Mutant: a rejection nobody catches, so setState is never reached.
BootThrewUncaught(t) == UNCHANGED state
BootThrew(t) == SetState(t, ErrorThenFresh)

\* Any other rejection, or a file changed or removed under the read, ends on
\* the error screen.
BootFails(t) ==
  /\ at[t] \in {"handle", "snapshot", "text"} /\ opfs
  /\ \/ Rejects
     \/ /\ \/ at[t] = "snapshot" /\ file = Absent
           \/ at[t] = "text" /\ file # held[t]
        /\ UNCHANGED faults
  /\ BootThrew(t) /\ Await(t, "nothing") /\ InHand(t, Absent)
  /\ unaware' = unaware \cup {t}
  /\ UNCHANGED <<webauthn, opfs, file, made, heap, opens, used, forgotten, blind>>

-----------------------------------------------------------------------------
(* Enrolment: two ceremonies at most, then the file.                       *)

EnrollClick(t) ==
  /\ state[t].kind = "fresh"
  /\ SetState(t, Plain("busy")) /\ Await(t, "create")
  /\ UNCHANGED <<file, made, held, heap>> /\ UNCHANGED envVars /\ UNCHANGED history

\* navigator.credentials.create has made a passkey: it is refused for its
\* attachment, or it came with a PRF result and CryptoVault.enroll wraps a
\* new key, or it takes a second ceremony to get one.
PasskeyCreated(t) ==
  /\ at[t] = "create" /\ made < MaxEnrols
  /\ made' = made + 1
  /\ \/ /\ SetState(t, ErrorThenFresh) /\ Await(t, "nothing")
        /\ UNCHANGED <<held, heap>>
     \/ /\ Await(t, "open") /\ InHand(t, made + 1)
        /\ heap' = [heap EXCEPT ![t] = @ + 1]
        /\ UNCHANGED state
     \/ /\ Await(t, "assert") /\ InHand(t, made + 1)
        /\ UNCHANGED <<state, heap>>
  /\ UNCHANGED file /\ UNCHANGED envVars /\ UNCHANGED history

PasskeyAsserted(t) ==
  /\ at[t] = "assert"
  /\ Await(t, "open") /\ heap' = [heap EXCEPT ![t] = @ + 1]
  /\ UNCHANGED <<file, made, state, held>> /\ UNCHANGED envVars /\ UNCHANGED history

\* Mutants: the failure path forgets the vault, or frees one it has not got.
FreedOnFailureNot(t) == UNCHANGED heap
FreedOnFailureAlways(t) == heap' = [heap EXCEPT ![t] = @ - 1]
\* doEnroll's catch: a vault that was made and not shown has no owner.
FreedOnFailure(t) ==
  heap' = [heap EXCEPT ![t] = IF at[t] \in {"open", "write", "close"} THEN @ - 1 ELSE @]

\* Cancelled, timed out after CEREMONY_TIMEOUT_MS, no PRF, a wrong wrap, or
\* wasm that does not load.
CeremonyFails(t) ==
  /\ at[t] \in {"create", "assert", "get"}
  /\ IF at[t] = "get"
     THEN SetState(t, ErrorThenLocked(held[t])) /\ UNCHANGED heap
     ELSE SetState(t, ErrorThenFresh) /\ FreedOnFailure(t)
  /\ Await(t, "nothing") /\ InHand(t, Absent)
  /\ UNCHANGED <<file, made>> /\ UNCHANGED envVars /\ UNCHANGED history

\* getFileHandle(create) makes an empty file where there was none.
Created(f) == IF f = Absent THEN Unreadable ELSE f

SetOpen(t) ==
  /\ at[t] = "open" /\ Resolves
  /\ file' = Created(file) /\ Await(t, "write")
  /\ UNCHANGED <<webauthn, opfs, made, state, held, heap, opens>> /\ UNCHANGED history

SetWrite(t) ==
  /\ at[t] = "write" /\ Resolves
  /\ Await(t, "close")
  /\ UNCHANGED <<webauthn, opfs, file, made, state, held, heap, opens>> /\ UNCHANGED history

\* Bookkeeping of a change to the credential on disk: the tab that made it
\* knows it, all others do not, and what was there is lost to those who did
\* not mean it.
Changed(t, c) ==
  /\ file' = c
  /\ unaware' = (unaware \cup Tabs) \ {t}
  /\ blind' = blind \cup IF t \in unaware THEN {file} \cap Credential ELSE {}

\* close() swaps the written copy in and the notes open.
SetClose(t) ==
  /\ at[t] = "close" /\ Resolves
  /\ Changed(t, held[t])
  /\ SetState(t, Unlocked(held[t])) /\ Await(t, "nothing") /\ InHand(t, Absent)
  /\ used' = used \cup {held[t]}
  /\ UNCHANGED <<webauthn, opfs, made, heap, opens, forgotten>>

\* Mutant: close() in the failure path commits the half-written copy.
AfterFailedWriteClosed(f) == Unreadable
\* abort() discards the copy, the file stays as it was.
AfterFailedWrite(f) == f

SetFails(t) ==
  /\ at[t] \in {"open", "write", "close"} /\ Rejects
  /\ \/ at[t] = "open" /\ file' \in {file, Created(file)}
     \/ at[t] = "write" /\ file' = AfterFailedWrite(file)
     \/ at[t] = "close" /\ UNCHANGED file
  /\ FreedOnFailure(t)
  /\ SetState(t, ErrorThenFresh) /\ Await(t, "nothing") /\ InHand(t, Absent)
  /\ UNCHANGED <<webauthn, opfs, made, opens>> /\ UNCHANGED history

-----------------------------------------------------------------------------
(* Unlock, lock and forget.                                                *)

UnlockClick(t) ==
  /\ state[t].kind = "locked"
  /\ SetState(t, Plain("busy")) /\ Await(t, "get") /\ InHand(t, state[t].credential)
  /\ UNCHANGED <<file, made, heap>> /\ UNCHANGED envVars /\ UNCHANGED history

Unlocks(t) ==
  /\ at[t] = "get"
  /\ heap' = [heap EXCEPT ![t] = @ + 1]
  /\ SetState(t, Unlocked(held[t])) /\ Await(t, "nothing") /\ InHand(t, Absent)
  /\ used' = used \cup {held[t]}
  /\ UNCHANGED <<file, made, forgotten, blind, unaware>> /\ UNCHANGED envVars

\* CryptoVault.free() of wasm-bindgen: the first call releases the handle's
\* part of the heap and clears its pointer, any other finds no pointer and
\* throws before it reaches the heap.
Free(t, already) == heap' = [heap EXCEPT ![t] = IF already THEN @ ELSE @ - 1]

\* doLock of the closure on screen, called by the idle coordinator or by a
\* click.  Until the re-render a second call still sees the unlocked state and
\* frees the same handle again, which throws out of doLock.
DoLock(t) ==
  /\ state[t].kind = "unlocked"
  /\ Free(t, at[t] = "render")
  /\ Await(t, "render")
  /\ UNCHANGED <<file, made, state, held>> /\ UNCHANGED envVars /\ UNCHANGED history

Render(t) ==
  /\ at[t] = "render"
  /\ SetState(t, Locked(state[t].credential)) /\ Await(t, "nothing")
  /\ UNCHANGED <<file, made, held, heap>> /\ UNCHANGED envVars /\ UNCHANGED history

ForgetClick(t) ==
  /\ state[t].kind = "locked"
  /\ SetState(t, Plain("busy")) /\ Await(t, "remove") /\ InHand(t, state[t].credential)
  /\ UNCHANGED <<file, made, heap>> /\ UNCHANGED envVars /\ UNCHANGED history

\* removeEntry, for which a missing file is as good; the browser refuses to
\* remove a file some stream is open on.
ClearDone(t) ==
  /\ at[t] = "remove" /\ Resolves
  /\ \A u \in Tabs : ~Writing(u)
  /\ Changed(t, Absent)
  /\ forgotten' = forgotten \cup ({file} \cap {held[t]})
  /\ SetState(t, Plain("fresh")) /\ Await(t, "nothing") /\ InHand(t, Absent)
  /\ UNCHANGED <<webauthn, opfs, made, heap, opens, used>>

\* Mutant: the retry of a failed Forget shows the enrolment screen.
ForgetRetryFresh(c) == ErrorThenFresh
\* The retry of a failed Forget shows the credential that is still there.
ForgetRetry(c) == ErrorThenLocked(c)

ClearFails(t) ==
  /\ at[t] = "remove"
  /\ Rejects \/ (UNCHANGED faults /\ \E u \in Tabs : Writing(u))
  /\ SetState(t, ForgetRetry(held[t])) /\ Await(t, "nothing") /\ InHand(t, Absent)
  /\ UNCHANGED <<webauthn, opfs, file, made, heap, opens>> /\ UNCHANGED history

Retry(t) ==
  /\ state[t].kind = "error"
  /\ SetState(t, IF state[t].retry = "fresh" THEN Plain("fresh") ELSE Locked(state[t].credential))
  /\ UNCHANGED <<file, made, at, held, heap>> /\ UNCHANGED envVars /\ UNCHANGED history

\* A tab is closed, reloaded or crashes, whatever it was awaiting.
Close(t) ==
  /\ state[t].kind # "closed"
  /\ SetState(t, Plain("closed")) /\ Await(t, "nothing") /\ InHand(t, Absent)
  /\ heap' = [heap EXCEPT ![t] = 0]
  /\ unaware' = unaware \ {t}
  /\ UNCHANGED <<file, made, used, forgotten, blind>> /\ UNCHANGED envVars

-----------------------------------------------------------------------------
\* What a tab does by itself once an await settles.
Settles(t) ==
  \/ BootHandle(t) \/ BootSnapshot(t) \/ BootText(t) \/ BootUnavailable(t) \/ BootFails(t)
  \/ PasskeyCreated(t) \/ PasskeyAsserted(t) \/ CeremonyFails(t)
  \/ SetOpen(t) \/ SetWrite(t) \/ SetClose(t) \/ SetFails(t)
  \/ Unlocks(t) \/ ClearDone(t) \/ ClearFails(t)
  \/ Render(t)

\* What a user may do.
Clicks(t) ==
  \/ Open(t) \/ Close(t)
  \/ EnrollClick(t) \/ UnlockClick(t) \/ ForgetClick(t) \/ Retry(t) \/ DoLock(t)

Next == \E t \in Tabs : Settles(t) \/ Clicks(t)

Spec == Init /\ [][Next]_vars

\* Every await settles: OPFS calls answer and a ceremony has a timeout.
FairSpec == Spec /\ \A t \in Tabs : WF_vars(Settles(t))

-----------------------------------------------------------------------------
(* Properties.                                                             *)

States ==
  [kind: {"closed", "loading", "unsupported", "fresh", "locked", "busy", "unlocked", "error"},
   credential: Credential \cup {Absent}, retry: {"none", "fresh", "locked"}]
Awaits == {"nothing", "handle", "snapshot", "text", "create", "assert", "open", "write",
           "close", "get", "remove", "render"}

\* Every variable holds a value of its type whatever fails or is closed; in
\* particular no heap count falls below zero.
TypeOK ==
  /\ webauthn \in BOOLEAN /\ opfs \in BOOLEAN
  /\ file \in Credential \cup {Absent, Unreadable}
  /\ made \in 0 .. MaxEnrols
  /\ state \in [Tabs -> States]
  /\ at \in [Tabs -> Awaits]
  /\ held \in [Tabs -> Credential \cup {Absent, Unreadable}]
  /\ heap \in [Tabs -> Nat]
  /\ faults \in 0 .. MaxFaults /\ opens \in 0 .. MaxOpens
  /\ used \subseteq Credential /\ forgotten \subseteq Credential
  /\ blind \subseteq Credential /\ unaware \subseteq Tabs

\* A wasm vault lives exactly while a NotesShell shows it or doEnroll still
\* has to store its credential: no way out of an enrolment, an unlock or a
\* lock leaks it, and none releases it twice, given what Free says of a second
\* call on one handle.
HandlesBalanced ==
  \A t \in Tabs :
    heap[t] = IF \/ state[t].kind = "unlocked" /\ at[t] # "render"
                 \/ at[t] \in {"open", "write", "close"}
              THEN 1 ELSE 0

\* What a tab takes the file to hold: what its screen shows, what its retry
\* button will show, or what its pending operation started from.
Believes(t) ==
  CASE state[t].kind \in {"locked", "unlocked"} -> state[t].credential
    [] state[t].kind = "error" -> state[t].credential
    [] at[t] \in {"get", "remove"} -> held[t]
    [] OTHER -> Absent

\* auth-screen.tsx: "so the UI matches the disk".  A tab that could know what
\* the file holds offers to enrol only if there is no credential to replace,
\* and to unlock or forget only the one that is there.
UIMatchesDisk ==
  \A t \in Tabs \ unaware :
    state[t].kind \in {"fresh", "locked", "unlocked", "error", "busy"} =>
      IF Believes(t) = Absent THEN file \notin Credential ELSE file = Believes(t)

\* A vault key under which notes may have been written is not lost by a write
\* that fails, a crash or a race between the steps of two tabs: its wrap is
\* on disk unless its own Forget, or a tab that could not know of it, has
\* removed it.
KeyAccountedFor == used \subseteq {file} \cup forgotten \cup blind

\* A browser that cannot store a credential never gets as far as a passkey:
\* the read that fails routes to the unsupported screen.
NoCeremonyWithoutStore == ~(webauthn /\ opfs) => made = 0

\* No screen stays on a spinner: the bootstrap and every busy state end.
NeverStuck ==
  \A t \in Tabs : state[t].kind \in {"loading", "busy"} ~> state[t].kind \notin {"loading", "busy"}

\* The credential under which notes have been written stays on disk until it
\* is forgotten.
KeyKept == used \subseteq {file} \cup forgotten
=============================================================================
