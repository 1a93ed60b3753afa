---------------------------- MODULE AuthVaultProofs ----------------------------
(***************************************************************************)
(* The vault of an origin for any number of tabs, enrolments and failures: *)
(* wasm handles are balanced, the screen of a tab that can know it matches *)
(* the disk, and no key in use is lost.                                    *)
(***************************************************************************)
EXTENDS AuthVault, TLAPS

\* What the awaited call of a tab says about its screen and the credential
\* in hand: a click starts nothing while something is awaited, and whatever
\* is unlocked, forgotten or stored is a passkey that was created.
TabOK(t) ==
  /\ at[t] \in {"handle", "snapshot", "text"} => state[t].kind = "loading"
  /\ at[t] \in {"create", "assert", "open", "write", "close", "get", "remove"} =>
       state[t].kind = "busy"
  /\ at[t] = "render" => state[t].kind = "unlocked"
  /\ at[t] \in {"assert", "open", "write", "close", "get", "remove"} => held[t] \in Credential
  /\ at[t] = "text" => held[t] # Absent
  /\ state[t].kind \in {"locked", "unlocked"} => state[t].credential \in Credential
  /\ state[t].kind = "error" =>
       IF state[t].retry = "fresh" THEN state[t].credential = Absent
       ELSE state[t].credential \in Credential

\* Neither TypeOK nor HandlesBalanced is inductive alone: a heap count stays
\* a natural number only because the handle that is freed exists, and it
\* exists only because of where the tab's async function stands.
LocalInv == TypeOK /\ HandlesBalanced /\ \A t \in Tabs : TabOK(t)

\* How far a tab gets in a browser without WebAuthn or without OPFS.
StoreInv ==
  /\ ~webauthn => \A t \in Tabs : state[t].kind \in {"closed", "unsupported"}
  /\ ~opfs => \A t \in Tabs : /\ at[t] \in {"nothing", "handle"}
                              /\ state[t].kind \in {"closed", "loading", "unsupported"}
  /\ NoCeremonyWithoutStore

\* A credential a tab believes in, stale or not, was on disk once: an unlock
\* of it uses no key that is not accounted for.
Accounted(c) == c \in {file} \cup forgotten \cup blind
KeyInv ==
  /\ UIMatchesDisk
  /\ KeyAccountedFor
  /\ \A t \in Tabs : Believes(t) # Absent => Accounted(Believes(t))

-----------------------------------------------------------------------------
(* Types, screens and wasm handles.                                        *)

USE DEF Credential, Plain, Locked, Unlocked, ErrorThenFresh, ErrorThenLocked,
        SetState, Await, InHand

\* Opening a tab and the bootstrap effect.
LEMMA OpenLocal ==
  ASSUME LocalInv, NEW t \in Tabs, Open(t)
  PROVE  LocalInv'
BY FileAssumption, BoundsAssumption
   DEF LocalInv, TypeOK, HandlesBalanced, TabOK, States, Awaits, Open, history

LEMMA BootHandleLocal ==
  ASSUME LocalInv, NEW t \in Tabs, BootHandle(t)
  PROVE  LocalInv'
BY FileAssumption, BoundsAssumption
   DEF LocalInv, TypeOK, HandlesBalanced, TabOK, States, Awaits, BootHandle, Resolves

LEMMA BootSnapshotLocal ==
  ASSUME LocalInv, NEW t \in Tabs, BootSnapshot(t)
  PROVE  LocalInv'
BY FileAssumption, BoundsAssumption
   DEF LocalInv, TypeOK, HandlesBalanced, TabOK, States, Awaits, BootSnapshot,
   Resolves, history

LEMMA BootTextLocal ==
  ASSUME LocalInv, NEW t \in Tabs, BootText(t)
  PROVE  LocalInv'
BY FileAssumption, BoundsAssumption
   DEF LocalInv, TypeOK, HandlesBalanced, TabOK, States, Awaits, BootText, Resolves

LEMMA BootUnavailableLocal ==
  ASSUME LocalInv, NEW t \in Tabs, BootUnavailable(t)
  PROVE  LocalInv'
BY FileAssumption, BoundsAssumption
   DEF LocalInv, TypeOK, HandlesBalanced, TabOK, States, Awaits, BootUnavailable,
   Rejects, ReadUnavailable, history

LEMMA BootFailsLocal ==
  ASSUME LocalInv, NEW t \in Tabs, BootFails(t)
  PROVE  LocalInv'
BY FileAssumption, BoundsAssumption
   DEF LocalInv, TypeOK, HandlesBalanced, TabOK, States, Awaits, BootFails, Rejects,
   BootThrew

\* Enrolment.
LEMMA EnrollClickLocal ==
  ASSUME LocalInv, NEW t \in Tabs, EnrollClick(t)
  PROVE  LocalInv'
BY FileAssumption, BoundsAssumption
   DEF LocalInv, TypeOK, HandlesBalanced, TabOK, States, Awaits, EnrollClick, envVars,
   history

LEMMA PasskeyCreatedLocal ==
  ASSUME LocalInv, NEW t \in Tabs, PasskeyCreated(t)
  PROVE  LocalInv'
<1>. USE FileAssumption, BoundsAssumption DEF envVars, history
<1>1. /\ made + 1 \in Credential /\ made' = made + 1 /\ made' \in 0 .. MaxEnrols
      /\ at[t] = "create" /\ state[t].kind = "busy"
  BY DEF PasskeyCreated, LocalInv, TypeOK, TabOK
<1>2. CASE state' = [state EXCEPT ![t] = ErrorThenFresh]
  BY <1>1, <1>2
  DEF PasskeyCreated, LocalInv, TypeOK, HandlesBalanced, TabOK, States, Awaits
<1>3. CASE at'[t] = "open" /\ heap' = [heap EXCEPT ![t] = @ + 1] /\ UNCHANGED state
  <2>1. heap[t] = 0 /\ heap' \in [Tabs -> Nat]
    BY <1>1, <1>3 DEF LocalInv, TypeOK, HandlesBalanced
  <2>2. /\ at' = [at EXCEPT ![t] = "open"] /\ held' = [held EXCEPT ![t] = made + 1]
        /\ UNCHANGED <<webauthn, opfs, file, faults, opens, used, forgotten, blind, unaware>>
    BY <1>3 DEF PasskeyCreated, LocalInv, TypeOK, Awaits
  <2>3. TypeOK'
    BY <1>1, <1>3, <2>1, <2>2 DEF LocalInv, TypeOK, Awaits
  <2>4. HandlesBalanced'
    BY <1>1, <1>3, <2>1, <2>2 DEF LocalInv, TypeOK, HandlesBalanced
  <2>5. \A u \in Tabs : TabOK(u)'
    BY <1>1, <1>3, <2>2 DEF LocalInv, TypeOK, TabOK
  <2>. QED BY <2>3, <2>4, <2>5 DEF LocalInv
<1>4. CASE at'[t] = "assert" /\ UNCHANGED <<state, heap>>
  BY <1>1, <1>4
  DEF PasskeyCreated, LocalInv, TypeOK, HandlesBalanced, TabOK, States, Awaits
<1>5. at \in [Tabs -> Awaits]
  BY DEF LocalInv, TypeOK
<1>. QED BY <1>2, <1>3, <1>4, <1>5 DEF PasskeyCreated

LEMMA PasskeyAssertedLocal ==
  ASSUME LocalInv, NEW t \in Tabs, PasskeyAsserted(t)
  PROVE  LocalInv'
BY FileAssumption, BoundsAssumption
   DEF LocalInv, TypeOK, HandlesBalanced, TabOK, States, Awaits, PasskeyAsserted,
   envVars, history

LEMMA CeremonyFailsLocal ==
  ASSUME LocalInv, NEW t \in Tabs, CeremonyFails(t)
  PROVE  LocalInv'
BY FileAssumption, BoundsAssumption
   DEF LocalInv, TypeOK, HandlesBalanced, TabOK, States, Awaits, CeremonyFails,
   FreedOnFailure, envVars, history

LEMMA SetOpenLocal ==
  ASSUME LocalInv, NEW t \in Tabs, SetOpen(t)
  PROVE  LocalInv'
BY FileAssumption, BoundsAssumption
   DEF LocalInv, TypeOK, HandlesBalanced, TabOK, States, Awaits, SetOpen, Resolves,
   Created, history

LEMMA SetWriteLocal ==
  ASSUME LocalInv, NEW t \in Tabs, SetWrite(t)
  PROVE  LocalInv'
BY FileAssumption, BoundsAssumption
   DEF LocalInv, TypeOK, HandlesBalanced, TabOK, States, Awaits, SetWrite, Resolves,
   history

LEMMA SetCloseLocal ==
  ASSUME LocalInv, NEW t \in Tabs, SetClose(t)
  PROVE  LocalInv'
BY FileAssumption, BoundsAssumption
   DEF LocalInv, TypeOK, HandlesBalanced, TabOK, States, Awaits, SetClose, Resolves,
   Changed

LEMMA SetFailsLocal ==
  ASSUME LocalInv, NEW t \in Tabs, SetFails(t)
  PROVE  LocalInv'
BY FileAssumption, BoundsAssumption
   DEF LocalInv, TypeOK, HandlesBalanced, TabOK, States, Awaits, SetFails, Rejects,
   FreedOnFailure, Created, AfterFailedWrite, history

\* Unlock, lock, forget and the end of a tab.
LEMMA UnlockClickLocal ==
  ASSUME LocalInv, NEW t \in Tabs, UnlockClick(t)
  PROVE  LocalInv'
BY FileAssumption, BoundsAssumption
   DEF LocalInv, TypeOK, HandlesBalanced, TabOK, States, Awaits, UnlockClick, envVars,
   history

LEMMA UnlocksLocal ==
  ASSUME LocalInv, NEW t \in Tabs, Unlocks(t)
  PROVE  LocalInv'
<1>. USE FileAssumption, BoundsAssumption DEF envVars
<1>1. at[t] = "get" /\ state[t].kind = "busy" /\ held[t] \in Credential /\ heap[t] = 0
  BY DEF Unlocks, LocalInv, HandlesBalanced, TabOK
<1>2. TypeOK'
  <2>1. used' \subseteq Credential
    <3>1. used' = used \cup {held[t]} /\ used \subseteq Credential
      BY DEF Unlocks, LocalInv, TypeOK
    <3>. QED BY <1>1, <3>1
  <2>2. state' \in [Tabs -> States] /\ at' \in [Tabs -> Awaits]
    BY <1>1 DEF Unlocks, LocalInv, TypeOK, States, Awaits
  <2>3. heap' \in [Tabs -> Nat]
    BY DEF Unlocks, LocalInv, TypeOK
  <2>. QED BY <2>1, <2>2, <2>3 DEF Unlocks, LocalInv, TypeOK
<1>3. HandlesBalanced'
  BY <1>1 DEF Unlocks, LocalInv, TypeOK, HandlesBalanced, States, Awaits
<1>4. \A u \in Tabs : TabOK(u)'
  BY <1>1 DEF Unlocks, LocalInv, TypeOK, TabOK, States, Awaits
<1>. QED BY <1>2, <1>3, <1>4 DEF LocalInv

LEMMA DoLockLocal ==
  ASSUME LocalInv, NEW t \in Tabs, DoLock(t)
  PROVE  LocalInv'
BY FileAssumption, BoundsAssumption
   DEF LocalInv, TypeOK, HandlesBalanced, TabOK, States, Awaits, DoLock, Free, envVars,
   history

LEMMA RenderLocal ==
  ASSUME LocalInv, NEW t \in Tabs, Render(t)
  PROVE  LocalInv'
BY FileAssumption, BoundsAssumption
   DEF LocalInv, TypeOK, HandlesBalanced, TabOK, States, Awaits, Render, envVars,
   history

LEMMA ForgetClickLocal ==
  ASSUME LocalInv, NEW t \in Tabs, ForgetClick(t)
  PROVE  LocalInv'
BY FileAssumption, BoundsAssumption
   DEF LocalInv, TypeOK, HandlesBalanced, TabOK, States, Awaits, ForgetClick, envVars,
   history

LEMMA ClearDoneLocal ==
  ASSUME LocalInv, NEW t \in Tabs, ClearDone(t)
  PROVE  LocalInv'
BY FileAssumption, BoundsAssumption
   DEF LocalInv, TypeOK, HandlesBalanced, TabOK, States, Awaits, ClearDone, Resolves,
   Writing, Changed

LEMMA ClearFailsLocal ==
  ASSUME LocalInv, NEW t \in Tabs, ClearFails(t)
  PROVE  LocalInv'
BY FileAssumption, BoundsAssumption
   DEF LocalInv, TypeOK, HandlesBalanced, TabOK, States, Awaits, ClearFails, Rejects,
   Writing, ForgetRetry, history

LEMMA RetryLocal ==
  ASSUME LocalInv, NEW t \in Tabs, Retry(t)
  PROVE  LocalInv'
BY FileAssumption, BoundsAssumption
   DEF LocalInv, TypeOK, HandlesBalanced, TabOK, States, Awaits, Retry, envVars,
   history

LEMMA CloseLocal ==
  ASSUME LocalInv, NEW t \in Tabs, Close(t)
  PROVE  LocalInv'
BY FileAssumption, BoundsAssumption
   DEF LocalInv, TypeOK, HandlesBalanced, TabOK, States, Awaits, Close, envVars

LEMMA LocalInvariant == Spec => []LocalInv
<1>1. Init => LocalInv
  BY FileAssumption, BoundsAssumption
  DEF Init, LocalInv, TypeOK, HandlesBalanced, TabOK, States, Awaits
<1>2. LocalInv /\ [Next]_vars => LocalInv'
  <2>1. ASSUME LocalInv, UNCHANGED vars PROVE LocalInv'
    BY <2>1 DEF vars, LocalInv, TypeOK, HandlesBalanced, TabOK
  <2>2. ASSUME LocalInv, NEW t \in Tabs, Settles(t) PROVE LocalInv'
    BY <2>2, BootHandleLocal, BootSnapshotLocal, BootTextLocal, BootUnavailableLocal,
       BootFailsLocal, PasskeyCreatedLocal, PasskeyAssertedLocal, CeremonyFailsLocal,
       SetOpenLocal, SetWriteLocal, SetCloseLocal, SetFailsLocal, UnlocksLocal,
       ClearDoneLocal, ClearFailsLocal, RenderLocal DEF Settles
  <2>3. ASSUME LocalInv, NEW t \in Tabs, Clicks(t) PROVE LocalInv'
    BY <2>3, OpenLocal, CloseLocal, EnrollClickLocal, UnlockClickLocal, ForgetClickLocal,
       RetryLocal, DoLockLocal DEF Clicks
  <2>. QED BY <2>1, <2>2, <2>3 DEF Next
<1>. QED BY <1>1, <1>2, PTL DEF Spec

-----------------------------------------------------------------------------
(* The screen and the disk.                                                *)

\* Opening a tab and the bootstrap effect.
LEMMA OpenKey ==
  ASSUME LocalInv, KeyInv, NEW t \in Tabs, Open(t)
  PROVE  KeyInv'
BY FileAssumption
   DEF KeyInv, UIMatchesDisk, KeyAccountedFor, Believes, Accounted, LocalInv, TypeOK,
   TabOK, States, Open, history

LEMMA BootHandleKey ==
  ASSUME LocalInv, KeyInv, NEW t \in Tabs, BootHandle(t)
  PROVE  KeyInv'
BY FileAssumption
   DEF KeyInv, UIMatchesDisk, KeyAccountedFor, Believes, Accounted, LocalInv, TypeOK,
   TabOK, States, BootHandle, Resolves

LEMMA BootSnapshotKey ==
  ASSUME LocalInv, KeyInv, NEW t \in Tabs, BootSnapshot(t)
  PROVE  KeyInv'
BY FileAssumption
   DEF KeyInv, UIMatchesDisk, KeyAccountedFor, Believes, Accounted, LocalInv, TypeOK,
   TabOK, States, BootSnapshot, Resolves, history

LEMMA BootTextKey ==
  ASSUME LocalInv, KeyInv, NEW t \in Tabs, BootText(t)
  PROVE  KeyInv'
BY FileAssumption
   DEF KeyInv, UIMatchesDisk, KeyAccountedFor, Believes, Accounted, LocalInv, TypeOK,
   TabOK, States, BootText, Resolves

LEMMA BootUnavailableKey ==
  ASSUME LocalInv, KeyInv, NEW t \in Tabs, BootUnavailable(t)
  PROVE  KeyInv'
BY FileAssumption
   DEF KeyInv, UIMatchesDisk, KeyAccountedFor, Believes, Accounted, LocalInv, TypeOK,
   TabOK, States, BootUnavailable, Rejects, ReadUnavailable, history

LEMMA BootFailsKey ==
  ASSUME LocalInv, KeyInv, NEW t \in Tabs, BootFails(t)
  PROVE  KeyInv'
BY FileAssumption
   DEF KeyInv, UIMatchesDisk, KeyAccountedFor, Believes, Accounted, LocalInv, TypeOK,
   TabOK, States, BootFails, Rejects, BootThrew

\* Enrolment.
LEMMA EnrollClickKey ==
  ASSUME LocalInv, KeyInv, NEW t \in Tabs, EnrollClick(t)
  PROVE  KeyInv'
BY FileAssumption
   DEF KeyInv, UIMatchesDisk, KeyAccountedFor, Believes, Accounted, LocalInv, TypeOK,
   TabOK, States, EnrollClick, envVars, history

LEMMA PasskeyCreatedKey ==
  ASSUME LocalInv, KeyInv, NEW t \in Tabs, PasskeyCreated(t)
  PROVE  KeyInv'
BY FileAssumption
   DEF KeyInv, UIMatchesDisk, KeyAccountedFor, Believes, Accounted, LocalInv, TypeOK,
   TabOK, States, PasskeyCreated, envVars, history

LEMMA PasskeyAssertedKey ==
  ASSUME LocalInv, KeyInv, NEW t \in Tabs, PasskeyAsserted(t)
  PROVE  KeyInv'
BY FileAssumption
   DEF KeyInv, UIMatchesDisk, KeyAccountedFor, Believes, Accounted, LocalInv, TypeOK,
   TabOK, States, PasskeyAsserted, envVars, history

LEMMA CeremonyFailsKey ==
  ASSUME LocalInv, KeyInv, NEW t \in Tabs, CeremonyFails(t)
  PROVE  KeyInv'
BY FileAssumption
   DEF KeyInv, UIMatchesDisk, KeyAccountedFor, Believes, Accounted, LocalInv, TypeOK,
   TabOK, States, CeremonyFails, FreedOnFailure, envVars, history

LEMMA SetOpenKey ==
  ASSUME LocalInv, KeyInv, NEW t \in Tabs, SetOpen(t)
  PROVE  KeyInv'
BY FileAssumption
   DEF KeyInv, UIMatchesDisk, KeyAccountedFor, Believes, Accounted, LocalInv, TypeOK,
   TabOK, States, SetOpen, Resolves, Created, history

LEMMA SetWriteKey ==
  ASSUME LocalInv, KeyInv, NEW t \in Tabs, SetWrite(t)
  PROVE  KeyInv'
BY FileAssumption
   DEF KeyInv, UIMatchesDisk, KeyAccountedFor, Believes, Accounted, LocalInv, TypeOK,
   TabOK, States, SetWrite, Resolves, history

LEMMA SetCloseKey ==
  ASSUME LocalInv, KeyInv, NEW t \in Tabs, SetClose(t)
  PROVE  KeyInv'
BY FileAssumption
   DEF KeyInv, UIMatchesDisk, KeyAccountedFor, Believes, Accounted, LocalInv, TypeOK,
   TabOK, States, SetClose, Resolves, Changed

LEMMA SetFailsKey ==
  ASSUME LocalInv, KeyInv, NEW t \in Tabs, SetFails(t)
  PROVE  KeyInv'
BY FileAssumption
   DEF KeyInv, UIMatchesDisk, KeyAccountedFor, Believes, Accounted, LocalInv, TypeOK,
   TabOK, States, SetFails, Rejects, FreedOnFailure, Created, AfterFailedWrite, history

\* Unlock, lock, forget and the end of a tab.
LEMMA UnlockClickKey ==
  ASSUME LocalInv, KeyInv, NEW t \in Tabs, UnlockClick(t)
  PROVE  KeyInv'
BY FileAssumption
   DEF KeyInv, UIMatchesDisk, KeyAccountedFor, Believes, Accounted, LocalInv, TypeOK,
   TabOK, States, UnlockClick, envVars, history

LEMMA UnlocksKey ==
  ASSUME LocalInv, KeyInv, NEW t \in Tabs, Unlocks(t)
  PROVE  KeyInv'
BY FileAssumption
   DEF KeyInv, UIMatchesDisk, KeyAccountedFor, Believes, Accounted, LocalInv, TypeOK,
   TabOK, States, Unlocks, envVars

LEMMA DoLockKey ==
  ASSUME LocalInv, KeyInv, NEW t \in Tabs, DoLock(t)
  PROVE  KeyInv'
BY FileAssumption
   DEF KeyInv, UIMatchesDisk, KeyAccountedFor, Believes, Accounted, LocalInv, TypeOK,
   TabOK, States, DoLock, Free, envVars, history

LEMMA RenderKey ==
  ASSUME LocalInv, KeyInv, NEW t \in Tabs, Render(t)
  PROVE  KeyInv'
BY FileAssumption
   DEF KeyInv, UIMatchesDisk, KeyAccountedFor, Believes, Accounted, LocalInv, TypeOK,
   TabOK, States, Render, envVars, history

LEMMA ForgetClickKey ==
  ASSUME LocalInv, KeyInv, NEW t \in Tabs, ForgetClick(t)
  PROVE  KeyInv'
BY FileAssumption
   DEF KeyInv, UIMatchesDisk, KeyAccountedFor, Believes, Accounted, LocalInv, TypeOK,
   TabOK, States, ForgetClick, envVars, history

LEMMA ClearDoneKey ==
  ASSUME LocalInv, KeyInv, NEW t \in Tabs, ClearDone(t)
  PROVE  KeyInv'
<1>. USE FileAssumption
<1>1. /\ at[t] = "remove" /\ state[t].kind = "busy" /\ held[t] \in Credential
      /\ Believes(t) = held[t]
  BY DEF ClearDone, LocalInv, TabOK, Believes
<1>2. /\ file' = Absent /\ unaware' = (unaware \cup Tabs) \ {t}
      /\ blind' = blind \cup IF t \in unaware THEN {file} \cap Credential ELSE {}
      /\ forgotten' = forgotten \cup ({file} \cap {held[t]}) /\ used' = used
      /\ state' = [state EXCEPT ![t] = Plain("fresh")]
      /\ at' = [at EXCEPT ![t] = "nothing"] /\ held' = [held EXCEPT ![t] = Absent]
  BY DEF ClearDone, Changed
<1>3. t \notin unaware => file = held[t]
  BY <1>1 DEF KeyInv, UIMatchesDisk
<1>4. \A c \in Credential : Accounted(c) => Accounted(c)'
  BY <1>2, <1>3 DEF Accounted
<1>5. Believes(t)' = Absent /\ \A u \in Tabs \ {t} : Believes(u)' = Believes(u)
  BY <1>2 DEF Believes, LocalInv, TypeOK
<1>6. UIMatchesDisk'
  BY <1>2, <1>5 DEF UIMatchesDisk, LocalInv, TypeOK
<1>7. KeyAccountedFor'
  BY <1>2, <1>4 DEF KeyAccountedFor, KeyInv, Accounted, LocalInv, TypeOK
<1>8. \A u \in Tabs : Believes(u) # Absent => Believes(u) \in Credential
  BY DEF Believes, LocalInv, TypeOK, TabOK, States
<1>. QED BY <1>4, <1>5, <1>6, <1>7, <1>8 DEF KeyInv

LEMMA ClearFailsKey ==
  ASSUME LocalInv, KeyInv, NEW t \in Tabs, ClearFails(t)
  PROVE  KeyInv'
BY FileAssumption
   DEF KeyInv, UIMatchesDisk, KeyAccountedFor, Believes, Accounted, LocalInv, TypeOK,
   TabOK, States, ClearFails, Rejects, Writing, ForgetRetry, history

LEMMA RetryKey ==
  ASSUME LocalInv, KeyInv, NEW t \in Tabs, Retry(t)
  PROVE  KeyInv'
BY FileAssumption
   DEF KeyInv, UIMatchesDisk, KeyAccountedFor, Believes, Accounted, LocalInv, TypeOK,
   TabOK, States, Retry, envVars, history

LEMMA CloseKey ==
  ASSUME LocalInv, KeyInv, NEW t \in Tabs, Close(t)
  PROVE  KeyInv'
BY FileAssumption
   DEF KeyInv, UIMatchesDisk, KeyAccountedFor, Believes, Accounted, LocalInv, TypeOK,
   TabOK, States, Close, envVars

LEMMA KeyInvariant == Spec => []KeyInv
<1>1. Init => KeyInv
  BY FileAssumption DEF Init, KeyInv, UIMatchesDisk, KeyAccountedFor, Believes, Accounted
<1>2. LocalInv /\ KeyInv /\ [Next]_vars => KeyInv'
  <2>1. ASSUME KeyInv, UNCHANGED vars PROVE KeyInv'
    BY <2>1 DEF vars, KeyInv, UIMatchesDisk, KeyAccountedFor, Believes, Accounted
  <2>2. ASSUME LocalInv, KeyInv, NEW t \in Tabs, Settles(t) PROVE KeyInv'
    BY <2>2, BootHandleKey, BootSnapshotKey, BootTextKey, BootUnavailableKey,
       BootFailsKey, PasskeyCreatedKey, PasskeyAssertedKey, CeremonyFailsKey,
       SetOpenKey, SetWriteKey, SetCloseKey, SetFailsKey, UnlocksKey,
       ClearDoneKey, ClearFailsKey, RenderKey DEF Settles
  <2>3. ASSUME LocalInv, KeyInv, NEW t \in Tabs, Clicks(t) PROVE KeyInv'
    BY <2>3, OpenKey, CloseKey, EnrollClickKey, UnlockClickKey, ForgetClickKey,
       RetryKey, DoLockKey DEF Clicks
  <2>. QED BY <2>1, <2>2, <2>3 DEF Next
<1>. QED BY <1>1, <1>2, LocalInvariant, PTL DEF Spec

-----------------------------------------------------------------------------
(* Browsers without WebAuthn or OPFS.                                      *)

\* Without WebAuthn no tab leaves the unsupported screen.
LEMMA WebauthnNeeded ==
  ASSUME LocalInv, StoreInv, NEW t \in Tabs, Settles(t) \/ Clicks(t), ~webauthn
  PROVE  StoreInv'
<1>1. at[t] = "nothing" /\ state[t].kind \in {"closed", "unsupported"} /\ made = 0
  BY DEF LocalInv, TypeOK, TabOK, Awaits, StoreInv, NoCeremonyWithoutStore
<1>2. ~Settles(t)
  BY <1>1 DEF Settles, BootHandle, BootSnapshot, BootText, BootUnavailable, BootFails,
     PasskeyCreated, PasskeyAsserted, CeremonyFails, SetOpen, SetWrite, SetClose, SetFails,
     Unlocks, ClearDone, ClearFails, Render
<1>3. Open(t) \/ Close(t)
  BY <1>1, <1>2 DEF Clicks, EnrollClick, UnlockClick, ForgetClick, Retry, DoLock
<1>. QED BY <1>1, <1>3 DEF Open, Close, envVars, StoreInv, NoCeremonyWithoutStore, LocalInv, TypeOK

\* Without OPFS the first await of the bootstrap rejects.
LEMMA OpfsNeeded ==
  ASSUME LocalInv, StoreInv, NEW t \in Tabs, Settles(t) \/ Clicks(t), ~opfs
  PROVE  StoreInv'
<1>1. /\ at[t] \in {"nothing", "handle"} /\ made = 0
      /\ state[t].kind \in {"closed", "loading", "unsupported"}
  BY DEF StoreInv, NoCeremonyWithoutStore
<1>2. Settles(t) => BootUnavailable(t)
  BY <1>1 DEF Settles, Resolves, BootHandle, BootSnapshot, BootText, BootFails,
     PasskeyCreated, PasskeyAsserted, CeremonyFails, SetOpen, SetWrite, SetClose, SetFails,
     Unlocks, ClearDone, ClearFails, Render
<1>3. Clicks(t) => Open(t) \/ Close(t)
  BY <1>1 DEF Clicks, EnrollClick, UnlockClick, ForgetClick, Retry, DoLock
<1>4. CASE BootUnavailable(t)
  BY <1>1, <1>4
  DEF BootUnavailable, ReadUnavailable, StoreInv, NoCeremonyWithoutStore, LocalInv, TypeOK, TabOK
<1>5. CASE Open(t) \/ Close(t)
  BY <1>1, <1>5 DEF Open, Close, envVars, StoreInv, NoCeremonyWithoutStore, LocalInv, TypeOK
<1>. QED BY <1>2, <1>3, <1>4, <1>5

LEMMA SupportKept ==
  ASSUME NEW t \in Tabs, Settles(t) \/ Clicks(t)
  PROVE  UNCHANGED <<webauthn, opfs>>
<1>1. ASSUME Settles(t) PROVE UNCHANGED <<webauthn, opfs>>
  BY <1>1 DEF Settles, envVars, BootHandle, BootSnapshot, BootText, BootUnavailable, BootFails,
     PasskeyCreated, PasskeyAsserted, CeremonyFails, SetOpen, SetWrite, SetClose, SetFails,
     Unlocks, ClearDone, ClearFails, Render
<1>2. ASSUME Clicks(t) PROVE UNCHANGED <<webauthn, opfs>>
  BY <1>2 DEF Clicks, envVars, Open, Close, EnrollClick, UnlockClick, ForgetClick, Retry, DoLock
<1>. QED BY <1>1, <1>2

LEMMA StoreInvariant == Spec => []StoreInv
<1>1. Init => StoreInv
  BY DEF Init, StoreInv, NoCeremonyWithoutStore
<1>2. LocalInv /\ StoreInv /\ [Next]_vars => StoreInv'
  <2>1. ASSUME StoreInv, UNCHANGED vars PROVE StoreInv'
    BY <2>1 DEF vars, StoreInv, NoCeremonyWithoutStore
  <2>2. ASSUME webauthn, opfs, UNCHANGED <<webauthn, opfs>> PROVE StoreInv'
    BY <2>2 DEF StoreInv, NoCeremonyWithoutStore
  <2>. QED BY <2>1, <2>2, WebauthnNeeded, OpfsNeeded, SupportKept DEF Next
<1>. QED BY <1>1, <1>2, LocalInvariant, PTL DEF Spec

-----------------------------------------------------------------------------
(* The theorems.                                                           *)

\* Every reachable state of the tabs and of the credential file is well typed,
\* for any number of tabs, enrolments and failures.
THEOREM TypeCorrect == Spec => []TypeOK
<1>1. LocalInv => TypeOK
  BY DEF LocalInv
<1>. QED BY <1>1, LocalInvariant, PTL

\* However enrolments, unlocks and locks end, in any number of tabs, a wasm
\* vault lives exactly while it is shown or about to be stored.
THEOREM VaultsFreedOnce == Spec => []HandlesBalanced
<1>1. LocalInv => HandlesBalanced
  BY DEF LocalInv
<1>. QED BY <1>1, LocalInvariant, PTL

\* However many tabs enrol, unlock and forget at once, a tab that could know
\* what the credential file holds shows just that.
THEOREM ScreensMatchDisk == Spec => []UIMatchesDisk
<1>1. KeyInv => UIMatchesDisk
  BY DEF KeyInv
<1>. QED BY <1>1, KeyInvariant, PTL

\* No failed write, no crash and no race of any number of tabs loses a key in
\* use: only its own Forget and a tab that could not know of it do.
THEOREM KeysAccountedFor == Spec => []KeyAccountedFor
<1>1. KeyInv => KeyAccountedFor
  BY DEF KeyInv
<1>. QED BY <1>1, KeyInvariant, PTL

\* A browser that has no WebAuthn or cannot store a credential is never asked
\* to create a passkey, whichever screens its tabs go through.
THEOREM NoPasskeyWithoutStore == Spec => []NoCeremonyWithoutStore
<1>1. StoreInv => NoCeremonyWithoutStore
  BY DEF StoreInv
<1>. QED BY <1>1, StoreInvariant, PTL
================================================================================
